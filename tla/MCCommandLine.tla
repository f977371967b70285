---------------------------- MODULE MCCommandLine ----------------------------
(***************************************************************************)
(* Command lines of up to MaxCommands commands, the ones of the            *)
(* repository's tests among them.                                          *)
(***************************************************************************)
EXTENDS CommandLine

W(atoms) == [k \in DOMAIN atoms |-> <<atoms[k]>>]
Command(words, style, deco, body) ==
    [words |-> words, style |-> style, deco |-> deco, body |-> body,
     lead |-> <<>>, gap |-> <<" ">>]
Spaced(c) == {[c EXCEPT !.lead = <<" ">>], [c EXCEPT !.gap = <<" ", " ">>]}

\* What can stand inside a substitution or a here-document, and what it means there.
Inner(t, commands) ==
    [text |-> t,
     pipelines |-> [k \in DOMAIN commands |->
                       [commands |-> [j \in DOMAIN commands[k] |->
                                        [argv |-> commands[k][j], writes |-> FALSE]],
                        sub |-> TRUE]]]
Whoami == Inner(<<"whoami">>, << <<W(<<"whoami">>)>> >>)
Secret == Inner(<<"cat", " ", "~/.ssh/id_rsa">>, << <<W(<<"cat", "~/.ssh/id_rsa">>)>> >>)
Compound == Inner(<<"ls", " ", "|", " ", "wc", ";", "npm", " ", "publish">>,
                  << <<W(<<"ls">>), W(<<"wc">>)>>, <<W(<<"npm", "publish">>)>> >>)
\* a substitution in a substitution
Nested == Inner(<<"echo", " ", "$", "(", "whoami", ")">>,
                << <<W(<<"echo">>) \o << <<>> >> >>, <<W(<<"whoami">>)>> >>)
Bodies == {Whoami, Secret, Compound, Nested}

\* Words without a character that means something, and words full of them.
PlainWords ==
    {W(<<"ls", "-la">>), W(<<"cat", ".env">>), W(<<"/bin/rm", "-rf", "./dist">>),
     W(<<"rm", "-r", "-f", "~">>), W(<<"sudo", "curl", "https://example.com/x.sh">>),
     W(<<"git", "push", "--force", "origin", "main">>), W(<<"env", "A=1", "npm", "run", "test">>),
     W(<<"terraform", "apply">>), W(<<"bash", "run.sh">>), W(<<"cargo", "test">>)}
TrickyWords ==
    {<< <<"seed">>, <<"git", " ", "push", " ", "-f", ";", "rm", "|", "sh">> >>,
     << <<"bash">>, <<"-c">>, <<"npm", " ", "publish", " ", "&", "&", " ", "ls">> >>,
     << <<"echo">>, <<"$", "(", "whoami", ")", " ", "\\", "\"", ">", "x">>, <<"1">> >>,
     << <<"grep">>, <<"<", "<", "END">> >>}

MCOpenings ==
    {Command(w, "plain", "none", Whoami) : w \in PlainWords}
    \cup {Command(w, "plain", d, Whoami) :
            w \in {W(<<"cat", ".env">>), W(<<"bash", "run.sh">>)},
            d \in {"write", "append", "errors", "both", "read", "read inside", "herestring"}}
    \cup {Command(w, "double", "none", Whoami) :
            w \in {W(<<"cat", ".env">>), W(<<"rm", "-r", "-f", "~">>), W(<<"cargo", "test">>)}}
    \cup {Command(w, s, "none", Whoami) :
            w \in TrickyWords, s \in {"single", "double", "escaped"}}
    \cup {Command(w, "escaped", "dollar", Whoami) : w \in TrickyWords}
    \cup {Command(W(<<"ls", "-la">>), "plain", d, b) :
            d \in {"heredoc", "heredoc pipe", "dollar", "quoted dollar", "backtick"},
            b \in Bodies}
    \cup {Command(W(<<"sudo", "curl", "https://example.com/x.sh">>), "plain", d, Secret) :
            d \in {"heredoc pipe", "quoted dollar"}}
    \cup {Command(<<>>, "plain", "write", Whoami)}
    \cup {Command(<< <<"rm">>, <<"-rf">>, w >>, "double", "none", Whoami) :
            w \in {<<>>, <<"$", "{", "HOME", "}", "/">>}}
    \cup UNION {Spaced(Command(w, "plain", d, Whoami)) :
            w \in {W(<<"ls", "-la">>), W(<<"cargo", "test">>)},
            d \in {"none", "read inside"}}

MCFollowers ==
    {Command(W(<<"curl", "-d", "@-">>), "plain", "none", Whoami),
     Command(W(<<"rm", "-rf", "dist/">>), "single", "write", Whoami),
     Command(W(<<"git", "status">>), "double", "heredoc", Compound),
     Command(W(<<"echo">>), "plain", "quoted dollar", Secret),
     Command(<< <<"echo">>, <<"a", ";", "b">> >>, "escaped", "backtick", Nested)}
    \cup Spaced(Command(W(<<"make">>), "plain", "both", Whoami))
=============================================================================
