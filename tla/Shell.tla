------------------------------- MODULE Shell --------------------------------
(***************************************************************************)
(* The shell parser (shell.rs), which tells commands from their data.      *)
(*                                                                         *)
(* A text is a sequence of atoms: the characters that mean something to    *)
(* the parser, one atom each, and every run of other characters (rm, -rf,  *)
(* ./dist) as one atom.  A word is a sequence of atoms too.  The parser is *)
(* a record and Step is one turn of the loop in Parser::run; the loop in   *)
(* read_double_quoted is taken turn by turn as well, while quoted is true. *)
(***************************************************************************)
EXTENDS Naturals, Sequences, SequencesExt, FiniteSetsExt

EOF == ""                       \* what peek finds behind the text
Backtick == "backtick"          \* one atom like the others
Whitespace == {" ", "\n"}
Digits == {"1", "2"}

\* Parser::new
Start(text) ==
    [text |-> text, i |-> 1, quoted |-> FALSE,
     word |-> <<>>, started |-> FALSE,             \* the word in progress
     argv |-> <<>>, writes |-> FALSE,              \* the command in progress
     commands |-> <<>>,                            \* the pipeline in progress
     pipelines |-> <<>>, deferred |-> <<>>]

Peek(p, n) == IF p.i + n <= Len(p.text) THEN p.text[p.i + n] ELSE EOF
Skip(p, n) == [p EXCEPT !.i = @ + n]

\* The first position from k on whose atom is in S, or the one behind the text.
First(p, k, S) ==
    LET found == SelectInSubSeq(p.text, k, Len(p.text), LAMBDA a : a \in S)
    IN  IF found = 0 THEN Max({k, Len(p.text) + 1}) ELSE found

Push(p, atoms) == [p EXCEPT !.word = @ \o atoms, !.started = TRUE]

EndWord(p) ==
    IF ~p.started THEN p
    ELSE [p EXCEPT !.argv = Append(@, p.word), !.word = <<>>, !.started = FALSE]

EndCommand(p) ==
    LET q == EndWord(p)
    IN  IF q.argv = <<>> /\ ~q.writes THEN q
        ELSE [q EXCEPT !.commands = Append(@, [argv |-> q.argv, writes |-> q.writes]),
                       !.argv = <<>>, !.writes = FALSE]

EndPipeline(p) ==
    LET q == EndCommand(p)
    IN  IF q.commands = <<>> THEN q
        ELSE [q EXCEPT !.pipelines = Append(@, q.commands), !.commands = <<>>]

ReadSingleQuoted(p) ==
    LET e == First(p, p.i + 1, {"'"})
    IN  [Push(p, SubSeq(p.text, p.i + 1, e - 1)) EXCEPT !.i = e + 1]

\* defer: the atoms from a to b are parsed later; the word around them goes on.
Defer(p, a, b, next) ==
    [p EXCEPT !.deferred = IF b >= a THEN Append(@, SubSeq(p.text, a, b)) ELSE @,
              !.started = TRUE, !.i = next]

ReadSubstitution(p) ==
    LET a == p.i + 2
        Count(c, k) == Len(SelectSeq(SubSeq(p.text, a, k), LAMBDA x : x = c))
        closing == {k \in a..Len(p.text) : Count(")", k) = Count("(", k) + 1}
    IN  IF closing = {} THEN Defer(p, a, Len(p.text), Len(p.text) + 1)
        ELSE Defer(p, a, Min(closing) - 1, Min(closing) + 1)

ReadBacktick(p) ==
    LET e == First(p, p.i + 1, {Backtick}) IN Defer(p, p.i + 1, e - 1, e + 1)

\* take_redirect_target, from position k: the target without its quotes, and where
\* it ends.
RedirectTarget(p, k) ==
    LET inText == {j \in k..Len(p.text) : p.text[j] # " "}
        a == IF inText = {} THEN Max({k, Len(p.text) + 1}) ELSE Min(inText)
        e == First(p, a, Whitespace \cup {"|", ";", "&", "<", ">"})
        Kept(c) == c \notin {"'", "\""}
    IN  [target |-> SelectSeq(SubSeq(p.text, a, e - 1), Kept), next |-> e]

SkipTarget(p, k) == [p EXCEPT !.i = RedirectTarget(p, k).next]

Trim(s) ==
    LET ink == {k \in DOMAIN s : s[k] \notin Whitespace}
    IN  IF ink = {} THEN <<>> ELSE SubSeq(s, Min(ink), Max(ink))

\* skip_heredoc_body: the rest of the line, and then every line up to the delimiter.
SkipHeredocBody(p, k, delimiter) ==
    LET end == Len(p.text)
        After(j) == IF First(p, j, {"\n"}) <= end THEN First(p, j, {"\n"}) + 1 ELSE end + 1
        starts == {After(k), end + 1} \cup {j + 1 : j \in {j \in After(k)..end : p.text[j] = "\n"}}
        last == Min({s \in starts :
                       \/ s > end
                       \/ Trim(SubSeq(p.text, s, First(p, s, {"\n"}) - 1)) = delimiter})
    IN  [p EXCEPT !.i = After(last)]

\* A heredoc or a here-string is data; so is the target of a plain redirect.
ReadInputRedirect(p) ==
    IF Peek(p, 1) # "<" THEN SkipTarget(p, p.i + 1)
    ELSE IF Peek(p, 2) = "<" THEN SkipTarget(p, p.i + 3)
    ELSE LET t == RedirectTarget(p, IF Peek(p, 2) = "-" THEN p.i + 3 ELSE p.i + 2)
         IN  EndPipeline(SkipHeredocBody(p, t.next, t.target))

\* Mutant of ReadOutputRedirect: the number in front of > stays a word.
ReadOutputRedirectAsWord(p) ==
    SkipTarget([p EXCEPT !.writes = TRUE], IF Peek(p, 1) = ">" THEN p.i + 2 ELSE p.i + 1)

\* A number in front of > belongs to the redirect.
ReadOutputRedirect(p) ==
    LET fd == p.started /\ ToSet(p.word) \subseteq Digits
        q == [p EXCEPT !.writes = TRUE,
                       !.word = IF fd THEN <<>> ELSE @,
                       !.started = IF fd THEN FALSE ELSE @]
    IN  SkipTarget(q, IF Peek(p, 1) = ">" THEN p.i + 2 ELSE p.i + 1)

\* One turn inside double quotes: substitutions are still commands.
QuotedStep(p) ==
    LET c == Peek(p, 0)
    IN  CASE c = "\"" -> [p EXCEPT !.quoted = FALSE, !.i = @ + 1]
          [] c = "\\" /\ Peek(p, 1) # EOF -> Skip(Push(p, <<Peek(p, 1)>>), 2)
          [] c = Backtick -> ReadBacktick(p)
          [] c = "$" /\ Peek(p, 1) = "(" -> ReadSubstitution(p)
          [] OTHER -> Skip(Push(p, <<c>>), 1)

\* One turn of run.
PlainStep(p) ==
    LET c == Peek(p, 0)
    IN  CASE c = "\\" -> IF Peek(p, 1) = EOF THEN Skip(p, 1)
                         ELSE Skip(Push(p, <<Peek(p, 1)>>), 2)
          [] c = "'" -> ReadSingleQuoted(p)
          [] c = "\"" -> [p EXCEPT !.quoted = TRUE, !.started = TRUE, !.i = @ + 1]
          [] c = Backtick -> ReadBacktick(p)
          [] c = "$" /\ Peek(p, 1) = "(" -> ReadSubstitution(p)
          [] c = "|" /\ Peek(p, 1) = "|" -> EndPipeline(Skip(p, 2))
          [] c = "|" /\ Peek(p, 1) # "|" -> EndCommand(Skip(p, 1))
          [] c = "&" -> EndPipeline(Skip(p, IF Peek(p, 1) = "&" THEN 2 ELSE 1))
          [] c \in {";", "\n", "(", ")", "{", "}"} -> EndPipeline(Skip(p, 1))
          [] c = "<" -> ReadInputRedirect(p)
          [] c = ">" -> ReadOutputRedirect(p)
          [] c = " " -> EndWord(Skip(p, 1))
          [] OTHER -> Skip(Push(p, <<c>>), 1)

Step(p) == IF p.quoted THEN QuotedStep(p) ELSE PlainStep(p)

-----------------------------------------------------------------------------
(***************************************************************************)
(* What a simple command looks like to the rules: name, args, operands,    *)
(* subcommand and has_flag.                                                *)
(***************************************************************************)
None == "none"

StartsWith(atom, c) == Len(atom) >= Len(c) /\ SubSeq(atom, 1, Len(c)) = c
HasChar(atom, c) == \E k \in 1..Len(atom) : SubSeq(atom, k, k) = c

\* A path is stripped from the program's name.
BaseName(atom) ==
    LET slashes == {k \in 1..Len(atom) : SubSeq(atom, k, k) = "/"}
    IN  IF slashes = {} THEN atom ELSE SubSeq(atom, Max(slashes) + 1, Len(atom))

\* A word of several atoms (text in quotes) is nobody's name.
AtomOf(word) == IF Len(word) = 1 THEN word[1] ELSE None

Name(argv) == IF argv = <<>> THEN None ELSE BaseName(AtomOf(argv[1]))
Args(argv) == IF argv = <<>> THEN <<>> ELSE Tail(argv)

IsFlag(word) == word # <<>> /\ StartsWith(word[1], "-")
Operands(argv) == SelectSeq(Args(argv), LAMBDA w : ~IsFlag(w))
Operand(argv, n) == IF n <= Len(Operands(argv)) THEN AtomOf(Operands(argv)[n]) ELSE None
Subcommand(argv) == Operand(argv, 1)

\* -r also inside a cluster like -rf, but not inside a long flag.
HasFlag(argv, flags) ==
    \E w \in ToSet(Args(argv)) :
        \/ AtomOf(w) \in flags
        \/ /\ IsFlag(w) /\ ~StartsWith(w[1], "--")
           /\ \E f \in flags :
                /\ Len(f) = 2
                /\ \E a \in ToSet(Tail(w)) \cup {SubSeq(w[1], 2, Len(w[1]))} :
                        HasChar(a, SubSeq(f, 2, 2))

=============================================================================
