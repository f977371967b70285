---------------------------- MODULE ShellProofs -----------------------------
(***************************************************************************)
(* The loop of Parser::run, for every text: it ends, it never leaves an    *)
(* empty command or pipeline behind, and what it puts off for later is     *)
(* shorter than the text, so that the recursion into substitutions ends    *)
(* too.                                                                    *)
(***************************************************************************)
EXTENDS Shell, ListProofs

\* A command has a word or writes a file; a pipeline has a command.
Commands == {c \in [argv : Seq(Seq(STRING)), writes : BOOLEAN] : c.argv # <<>> \/ c.writes}
FullPipelines == {q \in Seq(Commands) : q # <<>>}

\* The texts that are not empty and shorter than this one.
Shorter(text) == {t \in Seq(STRING) : t # <<>> /\ Len(t) < Len(text)}

\* The parser at work on a text.
Parsers(text) ==
    [text : {text}, i : Nat \ {0}, quoted : BOOLEAN,
     word : Seq(STRING), started : BOOLEAN,
     argv : Seq(Seq(STRING)), writes : BOOLEAN,
     commands : Seq(Commands),
     pipelines : Seq(FullPipelines), deferred : Seq(Shorter(text))]

-----------------------------------------------------------------------------
(* Positions *)

\* Parser::new
LEMMA StartsWell ==
    ASSUME NEW text \in Seq(STRING)
    PROVE  Start(text) \in Parsers(text) /\ Start(text).i = 1
<1>1. /\ <<>> \in Seq(STRING) /\ <<>> \in Seq(Seq(STRING)) /\ <<>> \in Seq(Commands)
      /\ <<>> \in Seq(FullPipelines) /\ <<>> \in Seq(Shorter(text)) /\ 1 \in Nat \ {0}
  OBVIOUS
<1>q. QED  BY <1>1 DEF Start, Parsers

\* The fields of a parser.
LEMMA ParserFields ==
    ASSUME NEW text \in Seq(STRING), NEW p \in Parsers(text)
    PROVE  /\ p.text = text /\ p.i \in Nat /\ p.i > 0 /\ Len(p.text) \in Nat
           /\ p.word \in Seq(STRING) /\ p.argv \in Seq(Seq(STRING)) /\ p.writes \in BOOLEAN
           /\ p.commands \in Seq(Commands) /\ p.pipelines \in Seq(FullPipelines)
           /\ p.deferred \in Seq(Shorter(text))
  BY DEF Parsers

\* The greater of two numbers.
LEMMA MaxOfTwo ==
    ASSUME NEW a \in Nat, NEW b \in Nat
    PROVE  Max({a, b}) = IF a >= b THEN a ELSE b
<1>. DEFINE S == {a, b}
            m == IF a >= b THEN a ELSE b
<1>1. m \in S /\ \A y \in S : m >= y
  OBVIOUS
<1>2. \A x \in S : (\A y \in S : x >= y) => x = m
  OBVIOUS
<1>3. Max(S) \in S /\ \A y \in S : Max(S) >= y
  <2>. HIDE DEF S, m
  <2>q. QED  BY <1>1 DEF Max
<1>q. QED  BY <1>2, <1>3

\* First looks ahead only, and not beyond the end.
LEMMA FirstIsAhead ==
    ASSUME NEW text \in Seq(STRING), NEW p \in Parsers(text), NEW k \in Nat, NEW S
    PROVE  /\ First(p, k, S) \in Nat /\ First(p, k, S) >= k
           /\ First(p, k, S) <= Len(text) + 1 \/ First(p, k, S) = k
<1>. DEFINE n == Len(p.text)
            I == {j \in k..n : p.text[j] \in S}
            found == SelectInSubSeq(p.text, k, n, LAMBDA a : a \in S)
<1>1. p.text = text /\ n = Len(text) /\ n \in Nat
  BY ParserFields
<1>2. found = IF I # {} THEN Min(I) ELSE 0
  BY DEF SelectInSubSeq
<1>3. First(p, k, S) = IF found = 0 THEN Max({k, n + 1}) ELSE found
  BY DEF First
<1>4. I \in SUBSET Nat /\ \A j \in I : k <= j /\ j <= n
  BY <1>1
<1>. HIDE DEF I, n, found
<1>5. found = 0 \/ (found \in Nat /\ k <= found /\ found <= n)
  BY <1>2, <1>4, MinIn
<1>6. Max({k, n + 1}) = IF k >= n + 1 THEN k ELSE n + 1
  <2>1. n + 1 \in Nat
    BY <1>1
  <2>. DEFINE m == n + 1
  <2>. HIDE DEF m
  <2>2. Max({k, m}) = IF k >= m THEN k ELSE m
    BY <2>1, MaxOfTwo DEF m
  <2>q. QED  BY <2>2 DEF m
<1>7. CASE found = 0
  BY <1>1, <1>3, <1>6, <1>7
<1>8. CASE found # 0
  BY <1>1, <1>3, <1>5, <1>8
<1>q. QED  BY <1>7, <1>8

-----------------------------------------------------------------------------
(* What the methods of the parser keep *)

\* Moving on.
LEMMA MovesOn ==
    ASSUME NEW text \in Seq(STRING), NEW p \in Parsers(text), NEW n \in Nat, n > 0
    PROVE  [p EXCEPT !.i = n] \in Parsers(text) /\ [p EXCEPT !.i = n].i = n
<1>1. n \in Nat \ {0}
  OBVIOUS
<1>q. QED  BY <1>1 DEF Parsers

\* Passing over n characters.
LEMMA Skips ==
    ASSUME NEW text \in Seq(STRING), NEW p \in Parsers(text), NEW n \in Nat
    PROVE  Skip(p, n) \in Parsers(text) /\ Skip(p, n).i = p.i + n
<1>1. p.i \in Nat /\ p.i > 0
  BY ParserFields
<1>2. p.i + n \in Nat /\ p.i + n > 0
  BY <1>1
<1>3. Skip(p, n) = [p EXCEPT !.i = p.i + n]
  BY DEF Skip
<1>. DEFINE j == p.i + n
<1>4. [p EXCEPT !.i = j] \in Parsers(text) /\ [p EXCEPT !.i = j].i = j
  <2>. HIDE DEF j
  <2>q. QED  BY <1>2, MovesOn DEF j
<1>q. QED  BY <1>3, <1>4

\* Characters go into the word; the place stays.
LEMMA Pushes ==
    ASSUME NEW text \in Seq(STRING), NEW p \in Parsers(text), NEW atoms \in Seq(STRING)
    PROVE  Push(p, atoms) \in Parsers(text) /\ Push(p, atoms).i = p.i
<1>1. p.word \o atoms \in Seq(STRING)
  BY ParserFields
<1>q. QED  BY <1>1 DEF Parsers, Push

\* end_word
LEMMA EndsWord ==
    ASSUME NEW text \in Seq(STRING), NEW p \in Parsers(text)
    PROVE  EndWord(p) \in Parsers(text) /\ EndWord(p).i = p.i
<1>1. Append(p.argv, p.word) \in Seq(Seq(STRING)) /\ <<>> \in Seq(STRING)
  BY ParserFields
<1>q. QED  BY <1>1 DEF Parsers, EndWord

\* end_command, which drops a command without words and redirects.
LEMMA EndsCommand ==
    ASSUME NEW text \in Seq(STRING), NEW p \in Parsers(text)
    PROVE  EndCommand(p) \in Parsers(text) /\ EndCommand(p).i = p.i
<1>. DEFINE q == EndWord(p)
            c == [argv |-> q.argv, writes |-> q.writes]
<1>1. q \in Parsers(text) /\ q.i = p.i
  BY EndsWord
<1>2. EndCommand(p) = IF q.argv = <<>> /\ ~q.writes THEN q
                      ELSE [q EXCEPT !.commands = Append(q.commands, c), !.argv = <<>>, !.writes = FALSE]
  BY DEF EndCommand
<1>. HIDE DEF q
<1>3. CASE q.argv = <<>> /\ ~q.writes
  BY <1>1, <1>2, <1>3
<1>4. CASE ~(q.argv = <<>> /\ ~q.writes)
  <2>1. c \in Commands
    BY <1>1, <1>4, ParserFields DEF Commands
  <2>. HIDE DEF c
  <2>2. Append(q.commands, c) \in Seq(Commands) /\ <<>> \in Seq(Seq(STRING))
    BY <1>1, <2>1, ParserFields
  <2>q. QED  BY <1>1, <1>2, <1>4, <2>2 DEF Parsers
<1>q. QED  BY <1>3, <1>4

\* end_pipeline, which drops a pipeline without commands.
LEMMA EndsPipeline ==
    ASSUME NEW text \in Seq(STRING), NEW p \in Parsers(text)
    PROVE  EndPipeline(p) \in Parsers(text) /\ EndPipeline(p).i = p.i
<1>. DEFINE q == EndCommand(p)
<1>1. q \in Parsers(text) /\ q.i = p.i
  BY EndsCommand
<1>2. EndPipeline(p) = IF q.commands = <<>> THEN q
                       ELSE [q EXCEPT !.pipelines = Append(q.pipelines, q.commands), !.commands = <<>>]
  BY DEF EndPipeline
<1>. HIDE DEF q
<1>3. CASE q.commands = <<>>
  BY <1>1, <1>2, <1>3
<1>4. CASE q.commands # <<>>
  <2>1. q.commands \in FullPipelines
    BY <1>1, <1>4, ParserFields DEF FullPipelines
  <2>2. Append(q.pipelines, q.commands) \in Seq(FullPipelines) /\ <<>> \in Seq(Commands)
    BY <1>1, <2>1, ParserFields
  <2>q. QED  BY <1>1, <1>2, <1>4, <2>2 DEF Parsers
<1>q. QED  BY <1>3, <1>4

\* read_single_quoted
LEMMA ReadsSingleQuoted ==
    ASSUME NEW text \in Seq(STRING), NEW p \in Parsers(text)
    PROVE  ReadSingleQuoted(p) \in Parsers(text) /\ ReadSingleQuoted(p).i > p.i
<1>. DEFINE a == p.i + 1
            e == First(p, a, {"'"})
            atoms == SubSeq(p.text, a, e - 1)
            q == Push(p, atoms)
<1>1. p.i \in Nat /\ p.i > 0 /\ p.text = text /\ a \in Nat
  BY ParserFields
<1>2. e \in Nat /\ e >= a /\ (e <= Len(text) + 1 \/ e = a)
  <2>. HIDE DEF a
  <2>q. QED  BY <1>1, FirstIsAhead
<1>3. ReadSingleQuoted(p) = [q EXCEPT !.i = e + 1]
  BY DEF ReadSingleQuoted
<1>. HIDE DEF e
<1>4. atoms \in Seq(STRING)
  BY <1>1, <1>2
<1>. HIDE DEF atoms
<1>5. q \in Parsers(text)
  BY <1>4, Pushes
<1>. HIDE DEF q
<1>6. e + 1 \in Nat /\ e + 1 > 0 /\ e + 1 > p.i
  BY <1>1, <1>2
<1>. DEFINE n == e + 1
<1>7. [q EXCEPT !.i = n] \in Parsers(text) /\ [q EXCEPT !.i = n].i = n
  <2>. HIDE DEF n
  <2>q. QED  BY <1>5, <1>6, MovesOn DEF n
<1>q. QED  BY <1>3, <1>6, <1>7

\* defer, of a part of the text behind the parser's place.
LEMMA Defers ==
    ASSUME NEW text \in Seq(STRING), NEW p \in Parsers(text), NEW a \in Nat, NEW b \in Int,
           NEW next \in Nat, a > 1, next > 0, b >= a => b <= Len(text)
    PROVE  Defer(p, a, b, next) \in Parsers(text) /\ Defer(p, a, b, next).i = next
<1>. DEFINE s == SubSeq(text, a, b)
<1>1. p.text = text /\ p.deferred \in Seq(Shorter(text)) /\ Len(text) \in Nat
  BY ParserFields
<1>2. b >= a => s \in Shorter(text)
  <2>. SUFFICES ASSUME b >= a PROVE s \in Shorter(text)
    OBVIOUS
  <2>1. s \in Seq(STRING) /\ Len(s) = b - a + 1
    BY <1>1
  <2>2. Len(s) > 0 /\ Len(s) < Len(text)
    BY <1>1, <2>1
  <2>. HIDE DEF s
  <2>3. s # <<>>
    BY <2>2
  <2>q. QED  BY <2>1, <2>2, <2>3 DEF Shorter
<1>. DEFINE later == IF b >= a THEN Append(p.deferred, s) ELSE p.deferred
<1>3. Defer(p, a, b, next) = [p EXCEPT !.deferred = later, !.started = TRUE, !.i = next]
  BY <1>1 DEF Defer
<1>. HIDE DEF s
<1>4. later \in Seq(Shorter(text))
  BY <1>1, <1>2
<1>. HIDE DEF later
<1>5. next \in Nat \ {0}
  OBVIOUS
<1>q. QED  BY <1>3, <1>4, <1>5 DEF Parsers

\* read_backtick
LEMMA ReadsBacktick ==
    ASSUME NEW text \in Seq(STRING), NEW p \in Parsers(text)
    PROVE  ReadBacktick(p) \in Parsers(text) /\ ReadBacktick(p).i > p.i
<1>. DEFINE a == p.i + 1
            e == First(p, a, {Backtick})
            b == e - 1
            next == e + 1
<1>1. p.i \in Nat /\ p.i > 0 /\ a \in Nat /\ Len(text) \in Nat
  BY ParserFields
<1>2. e \in Nat /\ e >= a /\ (e <= Len(text) + 1 \/ e = a)
  <2>. HIDE DEF a
  <2>q. QED  BY <1>1, FirstIsAhead
<1>3. ReadBacktick(p) = Defer(p, a, b, next)
  BY DEF ReadBacktick
<1>. HIDE DEF e
<1>4. b \in Int /\ next \in Nat /\ a > 1 /\ next > 0 /\ next > p.i /\ (b >= a => b <= Len(text))
  BY <1>1, <1>2
<1>. HIDE DEF a, b, next
<1>5. Defer(p, a, b, next) \in Parsers(text) /\ Defer(p, a, b, next).i = next
  BY <1>1, <1>4, Defers
<1>q. QED  BY <1>3, <1>4, <1>5

\* read_substitution: up to the parenthesis that matches, or to the end.
LEMMA ReadsSubstitution ==
    ASSUME NEW text \in Seq(STRING), NEW p \in Parsers(text), p.i <= Len(text)
    PROVE  ReadSubstitution(p) \in Parsers(text) /\ ReadSubstitution(p).i > p.i
<1>. DEFINE a == p.i + 2
            Count(c, k) == Len(SelectSeq(SubSeq(p.text, a, k), LAMBDA x : x = c))
            closing == {k \in a..Len(p.text) : Count(")", k) = Count("(", k) + 1}
            n == Len(text)
<1>1. p.i \in Nat /\ p.i > 0 /\ p.text = text /\ n \in Nat /\ a \in Nat /\ a > 1
  BY ParserFields
<1>2. ReadSubstitution(p) = IF closing = {} THEN Defer(p, a, Len(p.text), Len(p.text) + 1)
                            ELSE Defer(p, a, Min(closing) - 1, Min(closing) + 1)
  BY DEF ReadSubstitution
<1>3. closing \in SUBSET Nat /\ \A k \in closing : a <= k /\ k <= n
  <2>. HIDE DEF Count, a, n
  <2>1. \A k \in closing : k \in a..Len(p.text)
    OBVIOUS
  <2>. HIDE DEF closing
  <2>2. \A k \in closing : k \in Nat /\ a <= k /\ k <= n
    BY <1>1, <2>1 DEF n
  <2>q. QED  BY <2>2
<1>. HIDE DEF closing
<1>4. CASE closing = {}
  <2>. DEFINE next == n + 1
  <2>1. next \in Nat /\ next > 0 /\ next > p.i /\ n \in Int /\ n <= Len(text)
    BY <1>1
  <2>2. ReadSubstitution(p) = Defer(p, a, n, next)
    BY <1>1, <1>2, <1>4
  <2>. HIDE DEF next, a, n
  <2>3. Defer(p, a, n, next) \in Parsers(text) /\ Defer(p, a, n, next).i = next
    BY <1>1, <2>1, Defers
  <2>q. QED  BY <2>1, <2>2, <2>3
<1>5. CASE closing # {}
  <2>. DEFINE m == Min(closing)
              b == m - 1
              next == m + 1
  <2>1. m \in closing
    BY <1>3, <1>5, MinIn
  <2>2. ReadSubstitution(p) = Defer(p, a, b, next)
    BY <1>2, <1>5
  <2>. HIDE DEF m
  <2>3. m \in Nat /\ a <= m /\ m <= Len(text)
    BY <1>3, <2>1
  <2>4. b \in Int /\ next \in Nat /\ next > 0 /\ next > p.i /\ b <= Len(text)
    BY <1>1, <2>3
  <2>. HIDE DEF a, b, next, n
  <2>5. Defer(p, a, b, next) \in Parsers(text) /\ Defer(p, a, b, next).i = next
    BY <1>1, <2>4, Defers
  <2>q. QED  BY <2>2, <2>4, <2>5
<1>q. QED  BY <1>4, <1>5

\* take_redirect_target goes forward.
LEMMA TargetIsAhead ==
    ASSUME NEW text \in Seq(STRING), NEW p \in Parsers(text), NEW k \in Nat
    PROVE  RedirectTarget(p, k).next \in Nat /\ RedirectTarget(p, k).next >= k
<1>. DEFINE n == Len(p.text)
            inText == {j \in k..n : p.text[j] # " "}
            a == IF inText = {} THEN Max({k, n + 1}) ELSE Min(inText)
            S == Whitespace \cup {"|", ";", "&", "<", ">"}
<1>1. n \in Nat
  BY ParserFields
<1>2. RedirectTarget(p, k).next = First(p, a, S)
  BY DEF RedirectTarget
<1>3. inText \in SUBSET Nat /\ \A j \in inText : k <= j
  <2>. HIDE DEF n
  <2>1. \A j \in inText : j \in k..n
    OBVIOUS
  <2>. HIDE DEF inText
  <2>2. \A j \in inText : j \in Nat /\ k <= j
    BY <1>1, <2>1
  <2>q. QED  BY <2>2
<1>. HIDE DEF inText, n, S
<1>4. a \in Nat /\ a >= k
  <2>1. CASE inText = {}
    <3>. DEFINE m == n + 1
    <3>1. m \in Nat
      BY <1>1
    <3>. HIDE DEF m
    <3>2. Max({k, m}) = IF k >= m THEN k ELSE m
      BY <3>1, MaxOfTwo
    <3>3. a = IF k >= m THEN k ELSE m
      BY <2>1, <3>2 DEF m
    <3>q. QED  BY <3>1, <3>3
  <2>2. CASE inText # {}
    BY <1>3, <2>2, MinIn
  <2>q. QED  BY <2>1, <2>2
<1>. HIDE DEF a
<1>5. First(p, a, S) \in Nat /\ First(p, a, S) >= a
  BY <1>4, FirstIsAhead
<1>q. QED  BY <1>2, <1>4, <1>5

\* A redirect whose target is passed over.
LEMMA SkipsTarget ==
    ASSUME NEW text \in Seq(STRING), NEW p \in Parsers(text), NEW k \in Nat, k > 0
    PROVE  SkipTarget(p, k) \in Parsers(text) /\ SkipTarget(p, k).i >= k
<1>. DEFINE n == RedirectTarget(p, k).next
<1>1. n \in Nat /\ n >= k /\ n > 0
  BY TargetIsAhead
<1>2. SkipTarget(p, k) = [p EXCEPT !.i = n]
  BY DEF SkipTarget
<1>. HIDE DEF n
<1>3. [p EXCEPT !.i = n] \in Parsers(text) /\ [p EXCEPT !.i = n].i = n
  BY <1>1, MovesOn
<1>q. QED  BY <1>1, <1>2, <1>3

\* skip_heredoc_body goes to the start of a later line, or to the end.
LEMMA SkipsHeredoc ==
    ASSUME NEW text \in Seq(STRING), NEW p \in Parsers(text), p.i <= Len(text),
           NEW k \in Nat, k > p.i, NEW delimiter
    PROVE  /\ SkipHeredocBody(p, k, delimiter) \in Parsers(text)
           /\ SkipHeredocBody(p, k, delimiter).i > p.i
<1>. DEFINE end == Len(p.text)
            After(j) == IF First(p, j, {"\n"}) <= end THEN First(p, j, {"\n"}) + 1 ELSE end + 1
            starts == {After(k), end + 1} \cup {j + 1 : j \in {j \in After(k)..end : p.text[j] = "\n"}}
            ends == {s \in starts :
                       \/ s > end
                       \/ Trim(SubSeq(p.text, s, First(p, s, {"\n"}) - 1)) = delimiter}
            last == Min(ends)
            n == After(last)
<1>1. end \in Nat /\ p.i \in Nat /\ p.i <= end
  BY ParserFields
<1>2. SkipHeredocBody(p, k, delimiter) = [p EXCEPT !.i = n]
  BY DEF SkipHeredocBody
<1>. HIDE DEF end
<1>3. ASSUME NEW j \in Nat PROVE After(j) \in Nat /\ (After(j) > j \/ After(j) = end + 1)
  <2>1. First(p, j, {"\n"}) \in Nat /\ First(p, j, {"\n"}) >= j
    BY FirstIsAhead
  <2>q. QED  BY <1>1, <2>1
<1>4. After(k) \in Nat /\ After(k) > p.i
  <2>1. After(k) \in Nat /\ (After(k) > k \/ After(k) = end + 1)
    BY <1>3
  <2>. HIDE DEF After
  <2>q. QED  BY <1>1, <2>1
<1>. HIDE DEF After
<1>5. \A s \in starts : s \in Nat /\ s > p.i
  <2>1. \A j \in After(k)..end : j + 1 \in Nat /\ j + 1 > p.i
    BY <1>1, <1>4
  <2>2. end + 1 \in Nat /\ end + 1 > p.i
    BY <1>1
  <2>q. QED  BY <1>4, <2>1, <2>2
<1>6. end + 1 \in starts
  OBVIOUS
<1>. HIDE DEF starts
<1>7. end + 1 \in ends
  <2>1. end + 1 > end
    BY <1>1
  <2>q. QED  BY <1>6, <2>1
<1>8. \A s \in ends : s \in Nat /\ s > p.i
  BY <1>5
<1>. HIDE DEF ends
<1>9. last \in Nat /\ last > p.i
  <2>1. ends \in SUBSET Nat /\ ends # {}
    BY <1>7, <1>8
  <2>2. last \in ends
    BY <2>1, MinIn
  <2>q. QED  BY <1>8, <2>2
<1>. HIDE DEF last
<1>10. n \in Nat /\ n > p.i /\ n > 0
  <2>1. n \in Nat /\ (n > last \/ n = end + 1)
    BY <1>3, <1>9
  <2>. HIDE DEF n
  <2>q. QED  BY <1>1, <1>9, <2>1
<1>. HIDE DEF n
<1>11. [p EXCEPT !.i = n] \in Parsers(text) /\ [p EXCEPT !.i = n].i = n
  BY <1>10, MovesOn
<1>q. QED  BY <1>2, <1>10, <1>11

-----------------------------------------------------------------------------
(* One turn of the loop *)

\* A parser on the same text that is further on.
Further(text, p) == {q \in Parsers(text) : q.i > p.i}

\* peek finds an atom of the text, or its end.
LEMMA PeeksAtoms ==
    ASSUME NEW text \in Seq(STRING), NEW p \in Parsers(text), NEW n \in Nat
    PROVE  p.i + n <= Len(text) \/ Peek(p, n) # EOF => Peek(p, n) \in STRING
<1>1. p.text = text /\ p.i \in Nat /\ p.i > 0 /\ Len(text) \in Nat
  BY ParserFields
<1>. DEFINE j == p.i + n
<1>2. j \in Nat /\ j > 0
  BY <1>1
<1>3. Peek(p, n) = IF j <= Len(text) THEN text[j] ELSE EOF
  BY <1>1 DEF Peek
<1>. HIDE DEF j
<1>4. j <= Len(text) => j \in 1..Len(text)
  BY <1>1, <1>2
<1>5. j <= Len(text) => text[j] \in STRING
  BY <1>4
<1>6. j <= Len(text) \/ Peek(p, n) # EOF => Peek(p, n) \in STRING
  BY <1>3, <1>5
<1>q. QED  BY <1>6 DEF j

\* Moving on by some characters.
LEMMA SkipsFurther ==
    ASSUME NEW text \in Seq(STRING), NEW p \in Parsers(text), NEW n \in Nat, n > 0
    PROVE  Skip(p, n) \in Further(text, p)
<1>1. p.i \in Nat
  BY ParserFields
<1>2. Skip(p, n) \in Parsers(text) /\ Skip(p, n).i = p.i + n
  BY Skips
<1>q. QED  BY <1>1, <1>2 DEF Further

\* A list of one member.
LEMMA OneMember ==
    ASSUME NEW S, NEW x \in S
    PROVE  <<x>> \in Seq(S)
  OBVIOUS

\* A character goes into the word.
LEMMA PushesFurther ==
    ASSUME NEW text \in Seq(STRING), NEW p \in Parsers(text), NEW n \in Nat, n > 0,
           NEW c \in STRING
    PROVE  Skip(Push(p, <<c>>), n) \in Further(text, p)
<1>. DEFINE q == Push(p, <<c>>)
<1>1. <<c>> \in Seq(STRING)
  BY OneMember
<1>2. q \in Parsers(text) /\ q.i = p.i
  BY <1>1, Pushes
<1>. HIDE DEF q
<1>3. Skip(q, n) \in Further(text, q)
  BY <1>2, SkipsFurther
<1>4. Skip(q, n) \in Further(text, p)
  BY <1>2, <1>3 DEF Further
<1>q. QED  BY <1>4 DEF q

\* What ends a word, a command or a pipeline moves nowhere by itself.
LEMMA EndsFurther ==
    ASSUME NEW text \in Seq(STRING), NEW p \in Parsers(text), NEW q \in Further(text, p)
    PROVE  /\ EndWord(q) \in Further(text, p) /\ EndCommand(q) \in Further(text, p)
           /\ EndPipeline(q) \in Further(text, p)
<1>1. q \in Parsers(text) /\ q.i > p.i
  BY DEF Further
<1>2. EndWord(q) \in Parsers(text) /\ EndWord(q).i = q.i
  BY <1>1, EndsWord
<1>3. EndCommand(q) \in Parsers(text) /\ EndCommand(q).i = q.i
  BY <1>1, EndsCommand
<1>4. EndPipeline(q) \in Parsers(text) /\ EndPipeline(q).i = q.i
  BY <1>1, EndsPipeline
<1>q. QED  BY <1>1, <1>2, <1>3, <1>4 DEF Further

\* read_input_redirect
LEMMA ReadsInput ==
    ASSUME NEW text \in Seq(STRING), NEW p \in Parsers(text), p.i <= Len(text)
    PROVE  ReadInputRedirect(p) \in Further(text, p)
<1>. DEFINE k == IF Peek(p, 2) = "-" THEN p.i + 3 ELSE p.i + 2
            a == p.i + 1
            b == p.i + 3
            next == RedirectTarget(p, k).next
            target == RedirectTarget(p, k).target
            body == SkipHeredocBody(p, next, target)
<1>1. /\ p.i \in Nat /\ a \in Nat /\ a > p.i /\ a > 0
      /\ b \in Nat /\ b > p.i /\ b > 0 /\ k \in Nat /\ k > p.i
  BY ParserFields
<1>2. ReadInputRedirect(p) = IF Peek(p, 1) # "<" THEN SkipTarget(p, a)
                             ELSE IF Peek(p, 2) = "<" THEN SkipTarget(p, b)
                             ELSE EndPipeline(body)
  BY DEF ReadInputRedirect
<1>. HIDE DEF a, b, k
<1>3. SkipTarget(p, a) \in Further(text, p)
  <2>1. SkipTarget(p, a) \in Parsers(text) /\ SkipTarget(p, a).i >= a
    BY <1>1, SkipsTarget
  <2>2. SkipTarget(p, a).i \in Nat
    BY <2>1, ParserFields
  <2>q. QED  BY <1>1, <2>1, <2>2 DEF Further
<1>4. SkipTarget(p, b) \in Further(text, p)
  <2>1. SkipTarget(p, b) \in Parsers(text) /\ SkipTarget(p, b).i >= b
    BY <1>1, SkipsTarget
  <2>2. SkipTarget(p, b).i \in Nat
    BY <2>1, ParserFields
  <2>q. QED  BY <1>1, <2>1, <2>2 DEF Further
<1>5. next \in Nat /\ next > p.i
  <2>1. next \in Nat /\ next >= k
    BY <1>1, TargetIsAhead
  <2>. HIDE DEF next
  <2>q. QED  BY <1>1, <2>1
<1>. HIDE DEF next, target
<1>6. body \in Further(text, p)
  BY <1>5, SkipsHeredoc DEF Further
<1>. HIDE DEF body
<1>7. EndPipeline(body) \in Further(text, p)
  BY <1>6, EndsFurther
<1>q. QED  BY <1>2, <1>3, <1>4, <1>7

\* read_output_redirect
LEMMA ReadsOutput ==
    ASSUME NEW text \in Seq(STRING), NEW p \in Parsers(text)
    PROVE  ReadOutputRedirect(p) \in Further(text, p)
<1>. DEFINE fd == p.started /\ ToSet(p.word) \subseteq Digits
            q == [p EXCEPT !.writes = TRUE,
                           !.word = IF fd THEN <<>> ELSE p.word,
                           !.started = IF fd THEN FALSE ELSE p.started]
            k == IF Peek(p, 1) = ">" THEN p.i + 2 ELSE p.i + 1
<1>1. p.i \in Nat /\ k \in Nat /\ k > p.i /\ k > 0
  BY ParserFields
<1>2. ReadOutputRedirect(p) = SkipTarget(q, k)
  BY DEF ReadOutputRedirect
<1>. HIDE DEF fd, k
<1>3. q \in Parsers(text) /\ q.i = p.i
  <2>1. <<>> \in Seq(STRING)
    OBVIOUS
  <2>q. QED  BY <2>1 DEF Parsers
<1>. HIDE DEF q
<1>4. SkipTarget(q, k) \in Parsers(text) /\ SkipTarget(q, k).i >= k
  BY <1>1, <1>3, SkipsTarget
<1>5. SkipTarget(q, k).i \in Nat
  BY <1>4, ParserFields
<1>q. QED  BY <1>1, <1>2, <1>4, <1>5 DEF Further

\* The methods that read a quotation or a substitution.
LEMMA ReadsFurther ==
    ASSUME NEW text \in Seq(STRING), NEW p \in Parsers(text), p.i <= Len(text)
    PROVE  /\ ReadSingleQuoted(p) \in Further(text, p) /\ ReadBacktick(p) \in Further(text, p)
           /\ ReadSubstitution(p) \in Further(text, p)
  BY ReadsSingleQuoted, ReadsBacktick, ReadsSubstitution DEF Further

\* A double quote opens or closes a quotation and is passed over.
LEMMA QuotesFurther ==
    ASSUME NEW text \in Seq(STRING), NEW p \in Parsers(text)
    PROVE  /\ [p EXCEPT !.quoted = FALSE, !.i = p.i + 1] \in Further(text, p)
           /\ [p EXCEPT !.quoted = TRUE, !.started = TRUE, !.i = p.i + 1] \in Further(text, p)
<1>. DEFINE n == p.i + 1
<1>1. n \in Nat /\ n > p.i /\ n > 0
  BY ParserFields
<1>2. n \in Nat \ {0}
  BY <1>1
<1>. HIDE DEF n
<1>3. [p EXCEPT !.quoted = FALSE, !.i = n] \in Further(text, p)
  BY <1>1, <1>2 DEF Further, Parsers
<1>4. [p EXCEPT !.quoted = TRUE, !.started = TRUE, !.i = n] \in Further(text, p)
  BY <1>1, <1>2 DEF Further, Parsers
<1>q. QED  BY <1>3, <1>4 DEF n

\* A turn inside double quotes.
LEMMA QuotedStepAdvances ==
    ASSUME NEW text \in Seq(STRING), NEW p \in Parsers(text), p.i <= Len(text)
    PROVE  QuotedStep(p) \in Further(text, p)
<1>. DEFINE c == Peek(p, 0)
            d == Peek(p, 1)
            closed == [p EXCEPT !.quoted = FALSE, !.i = p.i + 1]
            escaped == Skip(Push(p, <<d>>), 2)
            pushed == Skip(Push(p, <<c>>), 1)
<1>1. c \in STRING /\ (d # EOF => d \in STRING)
  <2>1. p.i \in Nat /\ p.i + 0 <= Len(text)
    BY ParserFields
  <2>q. QED  BY <2>1, PeeksAtoms
<1>2. QuotedStep(p) = CASE c = "\"" -> closed
                        [] c = "\\" /\ d # EOF -> escaped
                        [] c = Backtick -> ReadBacktick(p)
                        [] c = "$" /\ d = "(" -> ReadSubstitution(p)
                        [] OTHER -> pushed
  BY DEF QuotedStep
<1>. HIDE DEF c, d
<1>3. closed \in Further(text, p)
  BY QuotesFurther
<1>4. (d # EOF => escaped \in Further(text, p)) /\ pushed \in Further(text, p)
  <2>1. pushed \in Further(text, p)
    BY <1>1, PushesFurther
  <2>2. ASSUME d # EOF PROVE escaped \in Further(text, p)
    <3>1. d \in STRING
      BY <1>1, <2>2
    <3>q. QED  BY <3>1, PushesFurther
  <2>q. QED  BY <2>1, <2>2
<1>5. ReadBacktick(p) \in Further(text, p) /\ ReadSubstitution(p) \in Further(text, p)
  BY ReadsFurther
<1>. HIDE DEF closed, escaped, pushed
<1>q. QED  BY <1>2, <1>3, <1>4, <1>5

\* A turn outside quotations.
LEMMA PlainStepAdvances ==
    ASSUME NEW text \in Seq(STRING), NEW p \in Parsers(text), p.i <= Len(text)
    PROVE  PlainStep(p) \in Further(text, p)
<1>. DEFINE c == Peek(p, 0)
            d == Peek(p, 1)
            one == Skip(p, 1)
            two == Skip(p, 2)
            escape == IF d = EOF THEN one ELSE Skip(Push(p, <<d>>), 2)
            opened == [p EXCEPT !.quoted = TRUE, !.started = TRUE, !.i = p.i + 1]
            pushed == Skip(Push(p, <<c>>), 1)
            both == EndPipeline(Skip(p, IF d = "&" THEN 2 ELSE 1))
<1>1. c \in STRING /\ (d # EOF => d \in STRING)
  <2>1. p.i \in Nat /\ p.i + 0 <= Len(text)
    BY ParserFields
  <2>q. QED  BY <2>1, PeeksAtoms
<1>2. PlainStep(p) = CASE c = "\\" -> escape
                       [] c = "'" -> ReadSingleQuoted(p)
                       [] c = "\"" -> opened
                       [] c = Backtick -> ReadBacktick(p)
                       [] c = "$" /\ d = "(" -> ReadSubstitution(p)
                       [] c = "|" /\ d = "|" -> EndPipeline(two)
                       [] c = "|" /\ d # "|" -> EndCommand(one)
                       [] c = "&" -> both
                       [] c \in {";", "\n", "(", ")", "{", "}"} -> EndPipeline(one)
                       [] c = "<" -> ReadInputRedirect(p)
                       [] c = ">" -> ReadOutputRedirect(p)
                       [] c = " " -> EndWord(one)
                       [] OTHER -> pushed
  BY DEF PlainStep
<1>. HIDE DEF c, d
<1>3. one \in Further(text, p) /\ two \in Further(text, p)
  BY SkipsFurther
<1>4. escape \in Further(text, p) /\ pushed \in Further(text, p)
  <2>1. pushed \in Further(text, p)
    BY <1>1, PushesFurther
  <2>2. ASSUME d # EOF PROVE Skip(Push(p, <<d>>), 2) \in Further(text, p)
    <3>1. d \in STRING
      BY <1>1, <2>2
    <3>q. QED  BY <3>1, PushesFurther
  <2>. HIDE DEF one
  <2>q. QED  BY <1>3, <2>1, <2>2
<1>5. opened \in Further(text, p)
  BY QuotesFurther
<1>6. /\ ReadSingleQuoted(p) \in Further(text, p) /\ ReadBacktick(p) \in Further(text, p)
      /\ ReadSubstitution(p) \in Further(text, p)
  BY ReadsFurther
<1>7. ReadInputRedirect(p) \in Further(text, p) /\ ReadOutputRedirect(p) \in Further(text, p)
  BY ReadsInput, ReadsOutput
<1>8. both = EndPipeline(one) \/ both = EndPipeline(two)
  OBVIOUS
<1>. HIDE DEF one, two, escape, opened, pushed, both
<1>9. /\ EndWord(one) \in Further(text, p) /\ EndCommand(one) \in Further(text, p)
      /\ EndPipeline(one) \in Further(text, p) /\ EndPipeline(two) \in Further(text, p)
  BY <1>3, EndsFurther
<1>10. both \in Further(text, p)
  BY <1>8, <1>9
<1>q. QED  BY <1>2, <1>4, <1>5, <1>6, <1>7, <1>9, <1>10

\* Every turn of the loop in Parser::run, in every state the parser can be in and whatever
\* the text, moves on by at least one character; it leaves no empty command and no empty
\* pipeline, and puts off only texts that are not empty and shorter than the one it parses.
THEOREM StepAdvances ==
    ASSUME NEW text \in Seq(STRING), NEW p \in Parsers(text), p.i <= Len(text)
    PROVE  Step(p) \in Parsers(text) /\ Step(p).i > p.i
<1>1. QuotedStep(p) \in Further(text, p) /\ PlainStep(p) \in Further(text, p)
  BY QuotedStepAdvances, PlainStepAdvances
<1>q. QED  BY <1>1 DEF Step, Further

\* The run of the parser ends, on every text: it takes at most as many turns as the text has
\* characters (q[0] is Parser::new, q[k] the parser after k turns), and what it returns has no
\* empty pipeline and no empty command, and nothing to parse again that is not shorter.
THEOREM RunEnds ==
    ASSUME NEW text \in Seq(STRING), NEW q, NEW n \in Nat, q[0] = Start(text),
           \A k \in 0..(n - 1) : q[k].i <= Len(text) /\ q[k + 1] = Step(q[k])
    PROVE  /\ n <= Len(text)
           /\ EndPipeline(q[n]).pipelines \in Seq(FullPipelines)
           /\ EndPipeline(q[n]).deferred \in Seq(Shorter(text))
<1>. DEFINE T == {k \in Nat : k <= n => q[k] \in Parsers(text) /\ q[k].i > k}
<1>1. 0 \in T
  <2>1. q[0] \in Parsers(text) /\ q[0].i = 1
    BY StartsWell
  <2>q. QED  BY <2>1
<1>2. ASSUME NEW k \in T PROVE k + 1 \in T
  <2>. SUFFICES ASSUME k + 1 <= n PROVE q[k + 1] \in Parsers(text) /\ q[k + 1].i > k + 1
    OBVIOUS
  <2>1. k \in Nat /\ k <= n /\ k \in 0..(n - 1)
    OBVIOUS
  <2>2. q[k] \in Parsers(text) /\ q[k].i > k
    BY <2>1
  <2>3. q[k].i <= Len(text) /\ q[k + 1] = Step(q[k])
    BY <2>1
  <2>. DEFINE p == q[k]
              r == Step(p)
  <2>4. r \in Parsers(text) /\ r.i > p.i
    <3>. HIDE DEF p
    <3>q. QED  BY <2>2, <2>3, StepAdvances DEF p
  <2>5. p.i \in Nat /\ r.i \in Nat
    <3>. HIDE DEF p, r
    <3>q. QED  BY <2>2, <2>4, ParserFields DEF p
  <2>. HIDE DEF r
  <2>6. r.i > k + 1
    BY <2>1, <2>2, <2>4, <2>5
  <2>q. QED  BY <2>3, <2>4, <2>6 DEF r
<1>3. T = Nat
  <2>. HIDE DEF T
  <2>1. T \in SUBSET Nat
    BY DEF T
  <2>q. QED  BY <1>1, <1>2, <2>1, SetInduction
<1>4. \A k \in Nat : k <= n => q[k] \in Parsers(text) /\ q[k].i > k
  BY <1>3
<1>5. n <= Len(text)
  <2>1. Len(text) \in Nat
    OBVIOUS
  <2>2. CASE n = 0
    BY <2>1, <2>2
  <2>3. CASE n # 0
    <3>. DEFINE k == n - 1
    <3>1. k \in Nat /\ k <= n /\ k \in 0..(n - 1) /\ n = k + 1
      BY <2>3
    <3>. HIDE DEF k
    <3>2. q[k] \in Parsers(text) /\ q[k].i > k /\ q[k].i <= Len(text)
      BY <1>4, <3>1
    <3>3. q[k].i \in Nat
      BY <3>2, ParserFields
    <3>q. QED  BY <2>1, <3>1, <3>2, <3>3
  <2>q. QED  BY <2>2, <2>3
<1>6. EndPipeline(q[n]) \in Parsers(text)
  <2>1. q[n] \in Parsers(text)
    BY <1>4
  <2>q. QED  BY <2>1, EndsPipeline
<1>q. QED  BY <1>5, <1>6, ParserFields

=============================================================================
