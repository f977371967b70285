---------------------------- MODULE CommandLine -----------------------------
(***************************************************************************)
(* A user (or an agent) writes a command line, one simple command after    *)
(* another.  Next to the text the module keeps what it means: that is the  *)
(* reference the parser of Shell and the rules of Classifier are checked   *)
(* against in every state.  The grammar is the part of the shell that      *)
(* shell.rs sets out to read: word boundaries, quoting, redirects,         *)
(* pipelines, operators, substitutions, here-documents and here-strings.   *)
(* Where the parser departs from the shell (2>&1, and text behind the      *)
(* delimiter of a here-document) the meaning kept is the parser's, and     *)
(* said so where it is defined.                                            *)
(***************************************************************************)
EXTENDS Classifier

CONSTANTS Openings,       \* the commands a line may begin with
          Followers,      \* the commands that may follow
          MaxCommands,    \* bound: commands on a line
          Branches        \* the branches a line is classified for

\* A command: the blanks before it and between its words, the words, how they are
\* quoted, what comes with them, and the command line inside a substitution or a
\* here-document.
Blanks == {<<>>, <<" ">>, <<" ", " ">>}
Styles == {"plain", "single", "double", "escaped"}
Decorations == {"none", "write", "append", "errors", "both", "read", "read inside",
                "herestring", "heredoc", "heredoc pipe", "dollar", "quoted dollar", "backtick"}
Substitutes(c) == c.deco \in {"dollar", "quoted dollar", "backtick"}

ASSUME CommandsAssumption ==
    \A c \in Openings \cup Followers :
        /\ c.lead \in Blanks /\ c.gap \in Blanks \ {<<>>}
        /\ c.style \in Styles /\ c.deco \in Decorations /\ c.words \in Seq(Seq(STRING))
        /\ \A k \in DOMAIN c.words : c.words[k] = <<>> => k > 2
        /\ c.deco = "read inside" => c.words # <<>>

VARIABLES text,      \* what is written so far
          parts,     \* its pipelines, as text
          done,      \* what the closed pipelines mean
          open,      \* the commands of the last pipeline
          subs,      \* the pipelines inside substitutions
          verbatim,  \* the line starts with the words a prefix is made of, as they are
          learned,   \* history: what "similar" was made of the line after each step
          count,     \* the commands written
          ended      \* nothing follows any more
vars == <<text, parts, done, open, subs, verbatim, learned, count, ended>>

Special == {" ", "\n", "|", "&", ";", "(", ")", "{", "}", "<", ">", "$", "'", "\"", "\\"}
InDoubleQuotes == {"$", "\"", "\\"}

Escaped(word, S) ==
    FlattenSeq([k \in DOMAIN word |-> IF word[k] \in S THEN <<"\\", word[k]>> ELSE <<word[k]>>])

Written(word, style) ==
    CASE style = "plain" -> word
      [] style = "single" -> <<"'">> \o word \o <<"'">>
      [] style = "double" -> <<"\"">> \o Escaped(word, InDoubleQuotes) \o <<"\"">>
      [] style = "escaped" -> Escaped(word, Special)

\* What comes with the words of a command, without the space before it.
Decoration(c) ==
    CASE c.deco = "write" -> <<">", " ", "out.txt">>
      [] c.deco = "append" -> <<">", ">", "'", "out.txt", "'">>
      [] c.deco = "errors" -> <<"2", ">", "err.txt">>
      [] c.deco = "both" -> <<"2", ">", "&", "1">>
      [] c.deco \in {"read", "read inside"} -> <<"<", " ", "in.txt">>
      [] c.deco = "herestring" -> <<"<", "<", "<", " ", "rm">>
      [] c.deco = "heredoc" ->
            <<"<", "<", "'", "EOF", "'", "\n">> \o c.body.text \o <<"\n", "EOF">>
      [] c.deco = "heredoc pipe" ->
            <<"<", "<", "EOF", " ", "|", " ", "sh", "\n">> \o c.body.text \o <<"\n", "EOF">>
      [] c.deco = "dollar" -> <<"$", "(">> \o c.body.text \o <<")">>
      [] c.deco = "quoted dollar" -> <<"\"", "$", "(">> \o c.body.text \o <<")", "\"">>
      [] c.deco = "backtick" -> <<Backtick>> \o c.body.text \o <<Backtick>>

\* The pieces of a command, with its blanks between them: the words and, behind the
\* first word or behind the last, what comes with them.
Spread(c) ==
    LET words == [k \in DOMAIN c.words |-> Written(c.words[k], c.style)]
    IN  CASE c.deco = "none" -> words
          [] c.deco = "read inside" -> InsertAt(words, 2, Decoration(c))
          [] OTHER -> Append(words, Decoration(c))

Line(c) ==
    c.lead \o FlattenSeq([k \in DOMAIN Spread(c) |->
                             (IF k = 1 THEN <<>> ELSE c.gap) \o Spread(c)[k]])

\* What it means: the words without their quotes (a substitution is one more, empty to
\* the parser), whether it writes a file, and the pipelines it has inside.  What stands
\* behind the delimiter of a here-document means nothing to the parser.
Meaning(c) ==
    [argv |-> IF Substitutes(c) THEN Append(c.words, <<>>) ELSE c.words,
     writes |-> c.deco \in {"write", "append", "errors", "both"}]
Inside(c) == IF Substitutes(c) THEN c.body.pipelines ELSE <<>>

\* Its pipelines.  The parser takes the & of 2>&1 for the one that ends a pipeline: what
\* is behind it, the 1, is a command and begins the next.
One == [argv |-> << <<"1">> >>, writes |-> FALSE]
Pieces(c) == << <<Meaning(c)>> >> \o (IF c.deco = "both" THEN << <<One>> >> ELSE <<>>)

\* The program, and its subcommand if it has one, stand at the very start of the line,
\* unquoted and with one blank between them.
Verbatim(c) ==
    LET AsIs(k) == Written(c.words[k], c.style) = c.words[k]
    IN  /\ c.lead = <<>> /\ c.words # <<>> /\ AsIs(1)
        /\ Len(c.words) > 1 /\ ~IsFlag(c.words[2]) =>
             AsIs(2) /\ c.gap = <<" ">> /\ c.deco # "read inside"

Operators == {"|", "||", "&&", ";", "&", "\n"}
Operator(op) ==
    CASE op = "|" -> <<" ", "|", " ">>
      [] op = "||" -> <<" ", "|", "|", " ">>
      [] op = "&&" -> <<" ", "&", "&", " ">>
      [] op = ";" -> <<";", " ">>
      [] op = "&" -> <<" ", "&", " ">>
      [] op = "\n" -> <<"\n">>

Init ==
    /\ text = <<>> /\ parts = <<>> /\ done = <<>> /\ open = <<>> /\ subs = <<>>
    /\ verbatim = FALSE /\ learned = <<>> /\ count = 0 /\ ended = FALSE

\* The pipelines so far, the last of them still open.
Means(pipelines) == done' = Front(pipelines) /\ open' = Last(pipelines)

Begin(c) ==
    /\ count = 0
    /\ text' = Line(c) /\ parts' = <<Line(c)>>
    /\ Means(Pieces(c)) /\ subs' = Inside(c)
    /\ verbatim' = Verbatim(c)
    /\ learned' = <<DeriveMatch(text')>>
    /\ count' = 1
    /\ UNCHANGED ended

\* A pipe keeps the pipeline open.
Pipe(c) ==
    /\ text' = text \o Operator("|") \o Line(c)
    /\ parts' = Append(Front(parts), Last(parts) \o Operator("|") \o Line(c))
    /\ Means(Append(done, open \o Head(Pieces(c))) \o Tail(Pieces(c)))

\* Every other operator closes it.
Follow(op, c) ==
    /\ text' = text \o Operator(op) \o Line(c)
    /\ parts' = Append(parts, Line(c))
    /\ Means(Append(done, open) \o Pieces(c))

\* The line can go on.
Unfinished == 0 < count /\ count < MaxCommands /\ ~ended

\* Behind a here-document only a new line can start.
Continue(op, c) ==
    /\ Unfinished
    /\ Last(text) = "EOF" => op = "\n"
    /\ IF op = "|" THEN Pipe(c) ELSE Follow(op, c)
    /\ subs' = subs \o Inside(c)
    /\ learned' = Append(learned, DeriveMatch(text'))
    /\ count' = count + 1
    /\ UNCHANGED <<verbatim, ended>>

\* The line ends with a blank or a new line.
End(blank) ==
    /\ Unfinished
    /\ text' = Append(text, blank)
    /\ parts' = Append(Front(parts), Append(Last(parts), blank))
    /\ learned' = Append(learned, DeriveMatch(text'))
    /\ ended' = TRUE
    /\ UNCHANGED <<done, open, subs, verbatim, count>>

\* The last word of the line, if it is not in quotes, goes on.
Longer(word) == Append(Front(word), Last(word) \o "x")
LastWord == IF open = <<>> \/ Last(open).argv = <<>> THEN <<>> ELSE Last(Last(open).argv)
Grow ==
    /\ Unfinished
    /\ LastWord # <<>> /\ Last(text) = Last(LastWord)
    /\ text' = Longer(text)
    /\ parts' = Append(Front(parts), Longer(Last(parts)))
    /\ open' = Append(Front(open),
                      [Last(open) EXCEPT !.argv = Append(Front(@), Longer(LastWord))])
    /\ learned' = Append(learned, DeriveMatch(text'))
    /\ ended' = TRUE
    /\ UNCHANGED <<done, subs, verbatim, count>>

Next ==
    \/ \E c \in Openings : Begin(c)
    \/ \E op \in Operators, c \in Followers : Continue(op, c)
    \/ \E blank \in Whitespace : End(blank)
    \/ Grow

Spec == Init /\ [][Next]_vars

-----------------------------------------------------------------------------
Pipelines(seq) == [k \in DOMAIN seq |-> [commands |-> seq[k], sub |-> FALSE]]

\* The parser reads every line as what it means: blanks, quoting, redirects and operators
\* of one command change nothing about the words of another, here-documents and redirect
\* targets never become commands, and what a substitution runs comes behind the
\* pipelines around it, marked (parse, Parser::run).  With two exceptions, which go
\* exactly this far: 2>&1 marks a write, ends its pipeline and leaves a command 1 that
\* a later pipe joins (read_output_redirect), and whatever follows the delimiter of a
\* here-document on its line is lost (skip_heredoc_body).
RoundTrip ==
    count > 0 => Parse(text, FALSE) = Pipelines(Append(done, open)) \o subs

IsMaximum(m, seq) ==
    /\ \A k \in DOMAIN seq : seq[k] <= m
    /\ \E k \in DOMAIN seq : seq[k] = m

\* A line is exactly as risky as its riskiest pipeline: no part hides another and none
\* is made worse by company it has no pipe to (classify, "The overall risk is the worst
\* of the parts").
WorstOfParts ==
    \A branch \in Branches :
        count > 0 => IsMaximum(Rank(Classify(text, branch)),
                               [k \in DOMAIN parts |-> Rank(Classify(parts[k], branch))])

\* Lines that run the line, and lines for which it is data.
Quoted == <<" ", "'">> \o text \o <<"'">>
AsCode ==
    {<<"bash", " ", "-c">> \o Quoted, <<"eval">> \o Quoted,
     <<"sudo", " ", "-E", " ", "sh", " ", "-c">> \o Quoted}
AsData ==
    (IF "'" \in ToSet(text) THEN {} ELSE {<<"echo">> \o Quoted}) \cup
    (IF "EOF" \in ToSet(text) THEN {}
     ELSE {<<"cat", " ", "<", "<", "'", "EOF", "'", "\n">> \o text \o <<"\n", "EOF", "\n", "ls">>})

\* A line handed to a shell or to eval is judged as the line itself, wrapped or not; the
\* same line quoted as an argument, or as the body of a here-document, is data and never
\* raises the risk (classify_command, read_single_quoted, skip_heredoc_body).
CodeAndData ==
    count > 0 =>
        /\ "'" \notin ToSet(text) =>
             {Classify(t, "main") : t \in AsCode} \subseteq {Classify(text, "main")}
        /\ {Classify(t, "main") : t \in AsData} \subseteq {"low"}

\* One command with a program that writes nothing.
Simple ==
    /\ Len(open) = 1 /\ done = <<>> /\ subs = <<>>
    /\ open[1].argv # <<>> /\ ~open[1].writes

Padded == {Head(text), Last(text)} \cap Whitespace # {}

\* "Similar" generalises exactly the lines that are one command writing nothing; any
\* other keeps its text.  Which of the lines that begin alike a rule applies to, its own
\* among them, is then a matter of the text as it stands, because derive_match works on
\* the parsed words and RuleMatch::matches on the text.  A prefix applies to its own line
\* and to every longer one, a compound line and a last word that goes on included, if
\* the line starts with the program and the subcommand as they are, one blank between
\* them; otherwise to none, not even its own.  An exact rule applies to no longer line,
\* and to its own unless there are blanks around it.
LearnsWhatItSays ==
    count > 0 =>
        /\ Last(learned).kind = (IF Simple THEN "prefix" ELSE "exact")
        /\ \A k \in DOMAIN learned :
              RuleMatches(learned[k], text) <=>
                  IF learned[k].kind = "prefix" THEN verbatim
                  ELSE k = Len(learned) /\ ~Padded

=============================================================================
