----------------------------- MODULE RuleProofs -----------------------------
(***************************************************************************)
(* What holds of the policy engine for every list of rules, every command  *)
(* and every setting of the defaults; and of the learned rules, for any    *)
(* number of tasks and commands at work on the file, any disk and any      *)
(* project policies.                                                       *)
(***************************************************************************)
EXTENDS LearnedStore, ListProofs

-----------------------------------------------------------------------------
(* evaluate *)

\* A set of rules, as far as their decisions go.
Rules(S) == \A rule \in S : rule.decision \in PolicyDecision

\* evaluate decides by the set of decisions of the matching rules and by
\* nothing else: Verdict is what it computes.
THEOREM EvaluateIsVerdict ==
    ASSUME NEW S, Rules(S), NEW rules \in Seq(S), NEW cmd, NEW risk \in RiskLevel,
           NEW defaults
    PROVE  Evaluate(rules, cmd, risk, defaults).decision =
               Verdict(risk, Kinds(rules, cmd), defaults)
<1>. DEFINE matching(d) == {i \in 1..Len(rules) :
                                rules[i].decision = d /\ Matches(rules[i], cmd)}
            kinds == Kinds(rules, cmd)
<1>1. \A d : matching(d) # {} <=> d \in kinds
  BY DEF Kinds
<1>2. kinds \subseteq PolicyDecision
  BY DEF Kinds, Rules
<1>3. Evaluate(rules, cmd, risk, defaults).decision =
          IF risk = "blocked" THEN "deny"
          ELSE IF matching("deny") # {} THEN "deny"
          ELSE IF matching("allow") # {} THEN "allow"
          ELSE IF matching("ask") # {} THEN "ask"
          ELSE DefaultFor(defaults, risk)
  BY DEF Evaluate
<1>. HIDE DEF matching, kinds
<1>4. CASE risk = "blocked" \/ "deny" \in kinds
  BY <1>1, <1>3, <1>4 DEF Verdict, kinds
<1>5. CASE risk # "blocked" /\ "deny" \notin kinds /\ "allow" \in kinds
  BY <1>1, <1>3, <1>5 DEF Verdict, kinds
<1>6. CASE risk # "blocked" /\ "deny" \notin kinds /\ "allow" \notin kinds /\ "ask" \in kinds
  <2>1. kinds = {"ask"}
    BY <1>2, <1>6 DEF PolicyDecision
  <2>q. QED  BY <1>1, <1>3, <1>6, <2>1 DEF Verdict, kinds
<1>7. CASE risk # "blocked" /\ "deny" \notin kinds /\ "allow" \notin kinds /\ "ask" \notin kinds
  <2>1. kinds = {}
    BY <1>2, <1>7 DEF PolicyDecision
  <2>q. QED  BY <1>1, <1>3, <1>7, <2>1 DEF Verdict, kinds
<1>q. QED  BY <1>4, <1>5, <1>6, <1>7

\* The matching decisions of two lists in sequence are those of either.
LEMMA KindsOfConcat ==
    ASSUME NEW S, NEW a \in Seq(S), NEW b \in Seq(S), NEW cmd
    PROVE  Kinds(a \o b, cmd) = Kinds(a, cmd) \cup Kinds(b, cmd)
<1>1. /\ Len(a \o b) = Len(a) + Len(b) /\ Len(a) \in Nat /\ Len(b) \in Nat
      /\ \A i \in 1..Len(a) : (a \o b)[i] = a[i]
      /\ \A i \in 1..Len(b) : (a \o b)[Len(a) + i] = b[i]
  OBVIOUS
<1>2. ASSUME NEW d \in Kinds(a \o b, cmd)
      PROVE  d \in Kinds(a, cmd) \cup Kinds(b, cmd)
  <2>1. PICK i \in 1..Len(a \o b) : Matches((a \o b)[i], cmd) /\ d = (a \o b)[i].decision
    BY DEF Kinds
  <2>2. CASE i \in 1..Len(a)
    BY <1>1, <2>1, <2>2 DEF Kinds
  <2>3. CASE i \notin 1..Len(a)
    <3>1. i - Len(a) \in 1..Len(b) /\ i = Len(a) + (i - Len(a))
      BY <1>1, <2>3
    <3>2. (a \o b)[i] = b[i - Len(a)]
      BY <1>1, <3>1
    <3>q. QED  BY <2>1, <3>1, <3>2 DEF Kinds
  <2>q. QED  BY <2>2, <2>3
<1>3. ASSUME NEW d \in Kinds(a, cmd)
      PROVE  d \in Kinds(a \o b, cmd)
  <2>1. PICK i \in 1..Len(a) : Matches(a[i], cmd) /\ d = a[i].decision
    BY DEF Kinds
  <2>2. i \in 1..Len(a \o b) /\ (a \o b)[i] = a[i]
    BY <1>1
  <2>q. QED  BY <2>1, <2>2 DEF Kinds
<1>4. ASSUME NEW d \in Kinds(b, cmd)
      PROVE  d \in Kinds(a \o b, cmd)
  <2>1. PICK i \in 1..Len(b) : Matches(b[i], cmd) /\ d = b[i].decision
    BY DEF Kinds
  <2>2. Len(a) + i \in 1..Len(a \o b) /\ (a \o b)[Len(a) + i] = b[i]
    BY <1>1
  <2>q. QED  BY <2>1, <2>2 DEF Kinds
<1>q. QED  BY <1>2, <1>3, <1>4

\* The decision about a command with the learned rules layered over the
\* project's, in terms of the matching decisions of each.
LEMMA LayeredVerdict ==
    ASSUME NEW S, Rules(S), NEW project \in Seq(S), NEW learnedRules \in Seq(S), NEW cmd,
           NEW risk \in RiskLevel, NEW defaults
    PROVE  Evaluate(WithLearned(project, learnedRules), cmd, risk, defaults).decision =
               Verdict(risk, Kinds(project, cmd) \cup Kinds(learnedRules, cmd), defaults)
<1>. DEFINE layered == learnedRules \o project
<1>1. layered \in Seq(S)
  OBVIOUS
<1>2. Kinds(layered, cmd) = Kinds(learnedRules, cmd) \cup Kinds(project, cmd)
  BY KindsOfConcat
<1>3. Kinds(layered, cmd) = Kinds(project, cmd) \cup Kinds(learnedRules, cmd)
  BY <1>2
<1>. HIDE DEF layered
<1>4. Evaluate(layered, cmd, risk, defaults).decision =
          Verdict(risk, Kinds(layered, cmd), defaults)
  BY <1>1, EvaluateIsVerdict, Zenon
<1>q. QED  BY <1>3, <1>4, Zenon DEF WithLearned, layered

\* "Ordering within the list does not decide the outcome" (with_learned): the
\* learned rules ahead of the project's or behind them, the decision is the same.
THEOREM OrderDoesNotDecide ==
    ASSUME NEW S, Rules(S), NEW project \in Seq(S), NEW learnedRules \in Seq(S), NEW cmd,
           NEW risk \in RiskLevel, NEW defaults
    PROVE  Evaluate(WithLearned(project, learnedRules), cmd, risk, defaults).decision =
           Evaluate(WithLearned(learnedRules, project), cmd, risk, defaults).decision
<1>1. Kinds(project, cmd) \cup Kinds(learnedRules, cmd) =
          Kinds(learnedRules, cmd) \cup Kinds(project, cmd)
  OBVIOUS
<1>2. Evaluate(WithLearned(project, learnedRules), cmd, risk, defaults).decision =
          Verdict(risk, Kinds(project, cmd) \cup Kinds(learnedRules, cmd), defaults)
  BY LayeredVerdict
<1>3. Evaluate(WithLearned(learnedRules, project), cmd, risk, defaults).decision =
          Verdict(risk, Kinds(learnedRules, cmd) \cup Kinds(project, cmd), defaults)
  BY LayeredVerdict
<1>q. QED  BY <1>1, <1>2, <1>3, Zenon

\* Learned rules cannot loosen what the project denies, nor the catastrophic
\* tier: whatever was learned, a denied command stays denied.
THEOREM LearningNeverLiftsDeny ==
    ASSUME NEW S, Rules(S), NEW project \in Seq(S), NEW learnedRules \in Seq(S), NEW cmd,
           NEW risk \in RiskLevel, NEW defaults,
           risk = "blocked" \/ "deny" \in Kinds(project, cmd)
    PROVE  Evaluate(WithLearned(project, learnedRules), cmd, risk, defaults).decision = "deny"
<1>1. Evaluate(WithLearned(project, learnedRules), cmd, risk, defaults).decision =
          Verdict(risk, Kinds(project, cmd) \cup Kinds(learnedRules, cmd), defaults)
  BY LayeredVerdict
<1>2. Verdict(risk, Kinds(project, cmd) \cup Kinds(learnedRules, cmd), defaults) = "deny"
  BY DEF Verdict
<1>q. QED  BY <1>1, <1>2

\* A command that no learned rule matches is decided as if nothing had been
\* learned.
THEOREM UnmatchedLearningIsInert ==
    ASSUME NEW S, Rules(S), NEW project \in Seq(S), NEW learnedRules \in Seq(S), NEW cmd,
           NEW risk \in RiskLevel, NEW defaults,
           \A i \in 1..Len(learnedRules) : ~Matches(learnedRules[i], cmd)
    PROVE  Evaluate(WithLearned(project, learnedRules), cmd, risk, defaults).decision =
           Evaluate(project, cmd, risk, defaults).decision
<1>1. Kinds(project, cmd) \cup Kinds(learnedRules, cmd) = Kinds(project, cmd)
  BY DEF Kinds
<1>2. Evaluate(WithLearned(project, learnedRules), cmd, risk, defaults).decision =
          Verdict(risk, Kinds(project, cmd) \cup Kinds(learnedRules, cmd), defaults)
  BY LayeredVerdict
<1>3. Evaluate(project, cmd, risk, defaults).decision =
          Verdict(risk, Kinds(project, cmd), defaults)
  BY EvaluateIsVerdict, Zenon
<1>q. QED  BY <1>1, <1>2, <1>3, Zenon

-----------------------------------------------------------------------------
(* The learned rules *)

USE DEF None

-----------------------------------------------------------------------------
(* Retain, on rules *)

\* Two rules for the same matcher in the same project.
Same(r, s) == r.project = s.project /\ r.matcher = s.matcher

\* No two rules of a list are for the same matcher in the same project.
Flipped(rules) == \A i, j \in 1..Len(rules) : Same(rules[i], rules[j]) => i = j

\* What the first m rules come to when those in keep are retained.
RetainedFrom(kept, rules, keep, m) ==
    /\ kept \in Seq(Range(rules))
    /\ \A i \in 1..Len(kept) : kept[i] \in keep /\ \E j \in 1..m : rules[j] = kept[i]
    /\ \A j \in 1..m : rules[j] \in keep => \E i \in 1..Len(kept) : kept[i] = rules[j]
    /\ Flipped(rules) => Flipped(kept)

\* One more rule, kept or not.
LEMMA RetainedStep ==
    ASSUME NEW S, NEW rules \in Seq(S), NEW keep, NEW m \in Nat, m + 1 <= Len(rules),
           NEW kept, RetainedFrom(kept, rules, keep, m)
    PROVE  RetainedFrom(IF rules[m + 1] \in keep THEN Append(kept, rules[m + 1]) ELSE kept,
                        rules, keep, m + 1)
<1>0. /\ m + 1 \in 1..Len(rules) /\ m + 1 \in DOMAIN rules /\ rules[m + 1] \in Range(rules)
      /\ kept \in Seq(Range(rules)) /\ Len(kept) \in Nat
      /\ \A j \in 1..(m + 1) : j = m + 1 \/ j \in 1..m
      /\ \A j \in 1..m : j \in 1..(m + 1) /\ j # m + 1 /\ j \in 1..Len(rules)
  BY DEF RetainedFrom, Range
<1>1. CASE rules[m + 1] \notin keep
  BY <1>0, <1>1 DEF RetainedFrom
<1>2. CASE rules[m + 1] \in keep
  <2>. DEFINE more == Append(kept, rules[m + 1])
  <2>1. /\ more \in Seq(Range(rules)) /\ Len(more) = Len(kept) + 1
        /\ \A i \in 1..Len(kept) : more[i] = kept[i] /\ i \in 1..Len(more)
        /\ more[Len(kept) + 1] = rules[m + 1] /\ Len(kept) + 1 \in 1..Len(more)
        /\ \A i \in 1..Len(more) : i = Len(kept) + 1 \/ i \in 1..Len(kept)
    BY <1>0
  <2>. HIDE DEF more
  <2>2. \A i \in 1..Len(more) : more[i] \in keep /\ \E j \in 1..(m + 1) : rules[j] = more[i]
    BY <1>0, <1>2, <2>1 DEF RetainedFrom
  <2>3. \A j \in 1..(m + 1) : rules[j] \in keep => \E i \in 1..Len(more) : more[i] = rules[j]
    BY <1>0, <2>1 DEF RetainedFrom
  <2>4. ASSUME Flipped(rules), NEW i \in 1..Len(more), NEW j \in 1..Len(more),
               Same(more[i], more[j])
        PROVE  i = j
    <3>1. ASSUME NEW k \in 1..Len(kept)
          PROVE  ~Same(kept[k], rules[m + 1]) /\ ~Same(rules[m + 1], kept[k])
      <4>1. PICK n \in 1..m : rules[n] = kept[k]
        BY DEF RetainedFrom
      <4>q. QED  BY <1>0, <2>4, <4>1 DEF Flipped
    <3>2. Flipped(kept)
      BY <2>4 DEF RetainedFrom
    <3>q. QED  BY <2>1, <2>4, <3>1, <3>2 DEF Flipped
  <2>5. Flipped(rules) => Flipped(more)
    BY <2>4 DEF Flipped
  <2>6. RetainedFrom(more, rules, keep, m + 1)
    BY <2>1, <2>2, <2>3, <2>5 DEF RetainedFrom
  <2>q. QED  BY <1>2, <2>6 DEF more
<1>q. QED  BY <1>1, <1>2

\* Retain keeps the rules in keep and no others, and does not bring together
\* rules for the same matcher that were not both there.
LEMMA Retains ==
    ASSUME NEW S, NEW rules \in Seq(S), NEW keep
    PROVE  RetainedFrom(Retain(rules, keep), rules, keep, Len(rules))
<1>1. PICK g : KeptUpTo(g, rules, keep, Len(rules)) /\ Retain(rules, keep) = g[Len(rules)]
  BY RetainIs
<1>. DEFINE T == {m \in Nat : m <= Len(rules) => RetainedFrom(g[m], rules, keep, m)}
<1>2. Len(rules) \in Nat /\ \A m \in 0..Len(rules) :
          g[m] = IF m = 0 THEN <<>>
                 ELSE IF rules[m] \in keep THEN Append(g[m - 1], rules[m]) ELSE g[m - 1]
  <2>1. Len(rules) \in Nat
    OBVIOUS
  <2>2. g = [n \in 0..Len(rules) |->
               IF n = 0 THEN <<>>
               ELSE IF rules[n] \in keep THEN Append(g[n - 1], rules[n]) ELSE g[n - 1]]
    BY <1>1, Zenon DEF KeptUpTo
  <2>. HIDE DEF T
  <2>q. QED  BY <2>1, <2>2, Zenon
<1>3. 0 \in T
  <2>1. g[0] = <<>>
    BY <1>2
  <2>2. RetainedFrom(<<>>, rules, keep, 0)
    BY DEF RetainedFrom, Flipped
  <2>q. QED  BY <2>1, <2>2
<1>4. ASSUME NEW m \in T PROVE m + 1 \in T
  <2>. SUFFICES ASSUME m + 1 <= Len(rules) PROVE RetainedFrom(g[m + 1], rules, keep, m + 1)
    OBVIOUS
  <2>1. m \in Nat /\ m <= Len(rules) /\ m + 1 \in 0..Len(rules) /\ m + 1 # 0 /\ (m + 1) - 1 = m
    BY <1>2
  <2>2. RetainedFrom(g[m], rules, keep, m)
    BY <2>1
  <2>3. g[m + 1] = IF rules[m + 1] \in keep THEN Append(g[m], rules[m + 1]) ELSE g[m]
    BY <1>2, <2>1
  <2>q. QED  BY <2>1, <2>2, <2>3, RetainedStep
<1>5. T = Nat
  <2>. HIDE DEF T
  <2>1. T \in SUBSET Nat
    BY DEF T
  <2>q. QED  BY <1>3, <1>4, <2>1, SetInduction
<1>q. QED  BY <1>1, <1>2, <1>5

-----------------------------------------------------------------------------
(* The invariant *)

Opened == {"create", "write", "rename"}

\* The rules that humans can teach.
LearnedRule ==
    [id : Nat, project : {ProjectOf[c] : c \in Commands},
     matcher : {MatcherOf[c] : c \in Commands}, decision : {"allow", "deny"}]

\* Lists of rules that humans taught.
Some == Seq(Range(taught))

\* Every text on the disk, and every list of rules in memory, is of rules that
\* humans taught.
StoreType ==
    /\ taught \in Seq(LearnedRule) /\ ledger \in Some
    /\ file \in Inodes \cup {None} /\ tmp \in Inodes \cup {None}
    /\ data \in [Inodes -> [form : {"blank", "torn", "yaml"}, rules : Some]]
    /\ DOMAIN writer = Writers
    /\ overlapped \in BOOLEAN

\* A record with the fields of a writer.
Shaped(r) == r \in [pc : {r.pc}, op : {r.op}, store : {r.store}, fd : {r.fd}]

WriterType ==
    \A w \in Writers :
        \/ writer[w] = Asleep
        \/ /\ Shaped(writer[w]) /\ writer[w].pc \in Opened
           /\ writer[w].store \in Some
           /\ writer[w].op.kind \in {"learn", "forget", "forget_all"}
           /\ writer[w].op.kind = "learn" => writer[w].op.rule \in Range(taught)
           /\ IF writer[w].pc = "write" THEN writer[w].fd \in Inodes ELSE writer[w].fd = None

\* The lock: one daemon task at a time; and until a command overlaps another
\* writer, one writer at a time.
TasksTakeTurns == \A t, u \in Tasks : ~Idle(t) /\ ~Idle(u) => t = u
WritersTakeTurns == ~overlapped => \A v, w \in Writers : ~Idle(v) /\ ~Idle(w) => v = w

\* The temp file is never the file itself.
Apart == tmp # None => tmp # file

\* A writer that is alone saves what its operation makes of the rules as they
\* are, and has the temp file to itself.
Undisturbed ==
    ~overlapped => \A w \in Writers :
        /\ ~Idle(w) => writer[w].store = Apply(writer[w].op, ledger)
        /\ writer[w].pc = "write" => tmp # None /\ writer[w].fd = tmp /\ data[tmp] = Blank
        /\ writer[w].pc = "rename" => tmp # None /\ data[tmp] = Yaml(writer[w].store)

\* The operations in turn never stack rules.
LedgerFlipped == Flipped(ledger)

StoreInv ==
    /\ StoreType /\ WriterType /\ TasksTakeTurns /\ WritersTakeTurns /\ Apart
    /\ SerialStore /\ Undisturbed /\ LedgerFlipped

\* The fields of a record are what they were built from.
LEMMA ShapedFacts ==
    ASSUME NEW a, NEW b, NEW c, NEW d
    PROVE  LET r == [pc |-> a, op |-> b, store |-> c, fd |-> d]
           IN  Shaped(r) /\ r.pc = a /\ r.op = b /\ r.store = c /\ r.fd = d
BY DEF Shaped

\* A list over a set is one over any larger set.
LEMMA SeqMono ==
    ASSUME NEW S, NEW T, S \subseteq T
    PROVE  Seq(S) \subseteq Seq(T)
OBVIOUS

\* The rules in a list, by position.
LEMMA RangeOf ==
    ASSUME NEW S, NEW rules \in Seq(S)
    PROVE  /\ Range(rules) \subseteq S /\ rules \in Seq(Range(rules))
           /\ Range(rules) = {rules[i] : i \in 1..Len(rules)}
BY DEF Range

\* An operation that teaches, if it does, a rule of S.
OpOver(op, S) ==
    /\ op.kind \in {"learn", "forget", "forget_all"}
    /\ op.kind = "learn" => op.rule \in S

\* No operation makes up a rule, nor puts a second one beside another for the
\* same matcher.
LEMMA ApplyFacts ==
    ASSUME NEW S, NEW rules \in Seq(S), NEW op, OpOver(op, S)
    PROVE  /\ Apply(op, rules) \in Seq(S)
           /\ Flipped(rules) => Flipped(Apply(op, rules))
<1>0. ASSUME NEW keep
      PROVE  /\ Retain(rules, keep) \in Seq(S)
             /\ \A i \in 1..Len(Retain(rules, keep)) : Retain(rules, keep)[i] \in keep
             /\ Flipped(rules) => Flipped(Retain(rules, keep))
  <2>1. RetainedFrom(Retain(rules, keep), rules, keep, Len(rules))
    BY Retains
  <2>2. Retain(rules, keep) \in Seq(Range(rules)) /\ Range(rules) \subseteq S
    BY <2>1, RangeOf DEF RetainedFrom
  <2>3. Retain(rules, keep) \in Seq(S)
    BY <2>2, SeqMono
  <2>q. QED  BY <2>1, <2>3 DEF RetainedFrom
<1>1. CASE op.kind = "learn"
  <2>. DEFINE others == {r \in Range(rules) :
                            ~(r.project = op.rule.project /\ r.matcher = op.rule.matcher)}
              kept == Retain(rules, others)
              learnt == Append(kept, op.rule)
  <2>1. Apply(op, rules) = learnt
    BY <1>1 DEF Apply, Learn
  <2>2. kept \in Seq(S) /\ (Flipped(rules) => Flipped(kept))
    BY <1>0
  <2>3. \A i \in 1..Len(kept) : ~Same(kept[i], op.rule) /\ ~Same(op.rule, kept[i])
    BY <1>0 DEF Same
  <2>. HIDE DEF kept
  <2>4. op.rule \in S
    BY <1>1 DEF OpOver
  <2>5. /\ learnt \in Seq(S) /\ Len(learnt) = Len(kept) + 1 /\ Len(kept) \in Nat
        /\ \A i \in 1..Len(kept) : learnt[i] = kept[i]
        /\ learnt[Len(kept) + 1] = op.rule
    BY <2>2, <2>4
  <2>. HIDE DEF learnt
  <2>6. \A i \in 1..Len(learnt) : i = Len(kept) + 1 \/ i \in 1..Len(kept)
    BY <2>5
  <2>7. Flipped(kept) => Flipped(learnt)
    BY <2>3, <2>5, <2>6 DEF Flipped
  <2>q. QED  BY <2>1, <2>2, <2>5, <2>7
<1>2. CASE op.kind = "forget"
  BY <1>0, <1>2 DEF Apply, Forget
<1>3. CASE op.kind = "forget_all"
  BY <1>3 DEF Apply, Flipped
<1>q. QED  BY <1>1, <1>2, <1>3 DEF OpOver

\* What a reader finds was taught, and is the ledger unless a command overlapped.
LEMMA LoadFacts ==
    ASSUME StoreInv
    PROVE  /\ Load \in Some /\ LoadLearned \in Some /\ Range(LoadLearned) \subseteq Range(taught)
           /\ ~overlapped => Load = ledger /\ LoadLearned = ledger
<1>1. Load \in Some /\ LoadLearned \in Some
  <2>1. <<>> \in Some
    BY DEF Some
  <2>2. file # None => data[file].rules \in Some
    BY DEF StoreInv, StoreType
  <2>q. QED  BY <2>1, <2>2 DEF Load, LoadLearned
<1>2. Range(LoadLearned) \subseteq Range(taught)
  BY <1>1, RangeOf DEF Some
<1>q. QED  BY <1>1, <1>2 DEF StoreInv, SerialStore, LoadLearned

\* The invariant holds at the start.
LEMMA InitStore == Init => StoreInv
<1>. SUFFICES ASSUME Init PROVE StoreInv
  OBVIOUS
<1>1. StoreType
  <2>1. <<>> \in Some
    BY DEF Some
  <2>2. Blank \in [form : {"blank", "torn", "yaml"}, rules : Some]
    BY <2>1 DEF Blank
  <2>3. data \in [Inodes -> [form : {"blank", "torn", "yaml"}, rules : Some]]
    BY <2>2 DEF Init
  <2>4. <<>> \in Seq(LearnedRule)
    OBVIOUS
  <2>q. QED  BY <2>1, <2>3, <2>4 DEF Init, StoreType
<1>2. WriterType /\ TasksTakeTurns /\ WritersTakeTurns /\ Undisturbed
  BY DEF Init, WriterType, TasksTakeTurns, WritersTakeTurns, Undisturbed, Idle, Asleep, Writers
<1>3. Apart /\ SerialStore /\ LedgerFlipped
  BY DEF Init, Apart, SerialStore, Parses, Load, LedgerFlipped, Flipped
<1>q. QED  BY <1>1, <1>2, <1>3 DEF StoreInv

-----------------------------------------------------------------------------
(* Every step preserves the invariant *)

\* A writer goes to sleep and leaves the disk alone.
LEMMA SleepStore ==
    ASSUME StoreInv, NEW victims,
           DOMAIN writer' = Writers,
           \A w \in Writers : writer'[w] = IF w \in victims THEN Asleep ELSE writer[w],
           UNCHANGED <<file, tmp, data, taught, ledger, forgotten, overlapped>>
    PROVE  StoreInv'
<1>1. \A w \in Writers : writer'[w] = Asleep \/ writer'[w] = writer[w]
  OBVIOUS
<1>2. StoreType' /\ Apart' /\ SerialStore' /\ LedgerFlipped'
  BY DEF StoreInv, StoreType, Some, Apart, SerialStore, Parses, Load, LedgerFlipped
<1>3. WriterType'
  BY <1>1 DEF StoreInv, WriterType, Some
<1>4. \A w \in Writers : ~Idle(w)' => writer'[w] = writer[w] /\ ~Idle(w)
  BY <1>1 DEF Idle, Asleep
<1>5. TasksTakeTurns' /\ WritersTakeTurns'
  BY <1>4 DEF StoreInv, TasksTakeTurns, WritersTakeTurns, Writers
<1>6. Undisturbed'
  <2>. SUFFICES ASSUME ~overlapped', NEW w \in Writers
                PROVE  /\ ~Idle(w)' => writer'[w].store = Apply(writer'[w].op, ledger')
                       /\ writer'[w].pc = "write" =>
                             tmp' # None /\ writer'[w].fd = tmp' /\ data'[tmp'] = Blank
                       /\ writer'[w].pc = "rename" =>
                             tmp' # None /\ data'[tmp'] = Yaml(writer'[w].store)
    BY DEF Undisturbed
  <2>1. CASE writer'[w] = Asleep
    BY <2>1 DEF Asleep, Idle
  <2>2. CASE writer'[w] = writer[w]
    BY <2>2 DEF StoreInv, Undisturbed, Idle
  <2>q. QED  BY <1>1, <2>1, <2>2
<1>q. QED  BY <1>2, <1>3, <1>5, <1>6 DEF StoreInv

\* A writer has loaded some rules and begins to save what it makes of them.
LEMMA BeginStore ==
    ASSUME StoreInv, NEW w \in Writers, NEW op, NEW rules \in Some, Begin(w, op, rules),
           taught' \in Seq(LearnedRule), Range(taught) \subseteq Range(taught'),
           OpOver(op, Range(taught')),
           ~overlapped => rules = ledger,
           w \in Tasks => LockFree
    PROVE  StoreInv'
<1>. DEFINE new == [pc |-> "create", op |-> op, store |-> Apply(op, rules), fd |-> None]
<1>0. /\ UNCHANGED <<file, tmp, data, ledger, forgotten>>
      /\ Some \subseteq Some'
      /\ \A v \in Writers : writer'[v] = IF v = w THEN new ELSE writer[v]
      /\ DOMAIN writer' = Writers
      /\ Idle(w) /\ overlapped \in BOOLEAN /\ overlapped' \in BOOLEAN
  BY SeqMono DEF Begin, Some, StoreInv, StoreType
<1>1. StoreType'
  <2>1. data' \in [Inodes -> [form : {"blank", "torn", "yaml"}, rules : Some']]
    <3>1. \A i \in Inodes : data'[i] \in [form : {"blank", "torn", "yaml"}, rules : Some']
      BY <1>0 DEF StoreInv, StoreType
    <3>q. QED  BY <1>0, <3>1 DEF StoreInv, StoreType
  <2>q. QED  BY <1>0, <2>1 DEF StoreInv, StoreType
<1>2. new.store \in Some'
  <2>1. rules \in Seq(Range(taught'))
    BY <1>0 DEF Some
  <2>q. QED  BY <2>1, ApplyFacts DEF Some
<1>3. WriterType'
  <2>. SUFFICES ASSUME NEW v \in Writers, v # w
                PROVE  \/ writer[v] = Asleep
                       \/ /\ Shaped(writer[v]) /\ writer[v].pc \in Opened
                          /\ writer[v].store \in Some'
                          /\ writer[v].op.kind \in {"learn", "forget", "forget_all"}
                          /\ writer[v].op.kind = "learn" => writer[v].op.rule \in Range(taught')
                          /\ IF writer[v].pc = "write" THEN writer[v].fd \in Inodes
                                                       ELSE writer[v].fd = None
    <3>1. Shaped(new) /\ new.pc = "create" /\ new.op = op /\ new.fd = None
      BY ShapedFacts
    <3>2. writer'[w] = new /\ \A v \in Writers : v # w => writer'[v] = writer[v]
      BY <1>0
    <3>. HIDE DEF new
    <3>q. QED  BY <1>2, <3>1, <3>2 DEF WriterType, Opened, OpOver
  <2>q. QED  BY <1>0 DEF StoreInv, WriterType
<1>4. \A v \in Writers \ {w} : ~Idle(v)' => ~Idle(v) /\ writer'[v] = writer[v]
  BY <1>0 DEF Idle
<1>5. TasksTakeTurns'
  BY <1>4 DEF StoreInv, TasksTakeTurns, LockFree, Writers
<1>6. ~overlapped' => ~overlapped /\ \A v \in Writers \ {w} : Idle(v)
  <2>. SUFFICES ASSUME ~overlapped', NEW v \in Writers \ {w}, ~Idle(v)
                PROVE  FALSE
    BY DEF Begin
  <2>1. v \notin Clis /\ w \notin Clis
    BY DEF Begin
  <2>2. v \in Tasks /\ w \in Tasks
    BY <2>1 DEF Writers
  <2>q. QED  BY <2>2 DEF LockFree
<1>7. WritersTakeTurns'
  BY <1>4, <1>6 DEF WritersTakeTurns
<1>8. Apart' /\ SerialStore' /\ LedgerFlipped'
  BY <1>0, <1>6 DEF StoreInv, Apart, SerialStore, Parses, Load, LedgerFlipped
<1>9. Undisturbed'
  <2>. SUFFICES ASSUME ~overlapped', NEW v \in Writers, ~Idle(v)'
                PROVE  /\ writer'[v].store = Apply(writer'[v].op, ledger')
                       /\ writer'[v].pc \notin {"write", "rename"}
    BY DEF Undisturbed, Idle
  <2>1. v = w
    BY <1>4, <1>6
  <2>q. QED  BY <1>0, <1>6, <2>1
<1>q. QED  BY <1>1, <1>3, <1>5, <1>7, <1>8, <1>9 DEF StoreInv

\* decide_pending loads under the lock and adds what the human taught.
LEMMA TeachStore ==
    ASSUME StoreInv, NEW t \in Tasks, NEW c \in Commands, NEW d \in {"allow", "deny"},
           Teach(t, c, d)
    PROVE  StoreInv'
<1>. DEFINE rule == [id |-> Len(taught) + 1, project |-> ProjectOf[c],
                     matcher |-> MatcherOf[c], decision |-> d]
            op == [kind |-> "learn", rule |-> rule]
<1>1. LockFree /\ Begin(t, op, LoadLearned) /\ taught' = Append(taught, rule)
  BY DEF Teach
<1>2. taught \in Seq(LearnedRule) /\ rule \in LearnedRule
  BY DEF StoreInv, StoreType, LearnedRule
<1>. HIDE DEF rule
<1>3. /\ taught' \in Seq(LearnedRule)
      /\ Range(taught) \subseteq Range(taught') /\ rule \in Range(taught')
  <2>1. /\ taught' \in Seq(LearnedRule) /\ Len(taught') = Len(taught) + 1 /\ Len(taught) \in Nat
        /\ \A i \in 1..Len(taught) : taught'[i] = taught[i]
        /\ taught'[Len(taught) + 1] = rule
    BY <1>1, <1>2
  <2>2. /\ Range(taught) = {taught[i] : i \in 1..Len(taught)}
        /\ Range(taught') = {taught'[i] : i \in 1..Len(taught')}
    BY <1>2, <2>1, RangeOf
  <2>q. QED  BY <2>1, <2>2
<1>4. OpOver(op, Range(taught'))
  BY <1>3 DEF OpOver
<1>5. LoadLearned \in Some /\ (~overlapped => LoadLearned = ledger) /\ t \in Writers
  BY LoadFacts DEF Writers
<1>. HIDE DEF op
<1>q. QED  BY <1>1, <1>3, <1>4, <1>5, BeginStore

\* policy forget and forget-all begin without the lock.
LEMMA ForgetStore ==
    ASSUME StoreInv, NEW k \in Clis,
           (\E id : ForgetOne(k, id)) \/ ForgetAll(k)
    PROVE  StoreInv'
<1>1. PICK op : op.kind \in {"forget", "forget_all"} /\ Begin(k, op, Load) /\ taught' = taught
  <2>1. ASSUME NEW id, ForgetOne(k, id)
        PROVE  \E op : op.kind \in {"forget", "forget_all"} /\ Begin(k, op, Load) /\ taught' = taught
    <3>1. [kind |-> "forget", id |-> id].kind \in {"forget", "forget_all"}
      OBVIOUS
    <3>2. Begin(k, [kind |-> "forget", id |-> id], Load) /\ taught' = taught
      BY <2>1 DEF ForgetOne
    <3>q. QED  BY <3>1, <3>2, Zenon
  <2>2. ASSUME ForgetAll(k)
        PROVE  \E op : op.kind \in {"forget", "forget_all"} /\ Begin(k, op, Load) /\ taught' = taught
    <3>. DEFINE ids == {Load[i].id : i \in DOMAIN Load}
    <3>1. Begin(k, [kind |-> "forget_all", ids |-> ids], Load) /\ taught' = taught
      BY <2>2 DEF ForgetAll
    <3>. HIDE DEF ids
    <3>2. [kind |-> "forget_all", ids |-> ids].kind \in {"forget", "forget_all"}
      OBVIOUS
    <3>q. QED  BY <3>1, <3>2, Zenon
  <2>q. QED  BY <2>1, <2>2, Zenon
<1>2. Load \in Some /\ (~overlapped => Load = ledger) /\ k \in Writers /\ k \notin Tasks
  BY LoadFacts, CommandAttributes DEF Writers
<1>3. /\ OpOver(op, Range(taught')) /\ taught' \in Seq(LearnedRule)
      /\ Range(taught) \subseteq Range(taught')
  BY <1>1 DEF OpOver, StoreInv, StoreType
<1>q. QED  BY <1>1, <1>2, <1>3, BeginStore

\* Only w's record changes.
Moves(w, new) ==
    /\ DOMAIN writer' = Writers
    /\ \A v \in Writers : writer'[v] = IF v = w THEN new ELSE writer[v]

\* fs::write truncates the temp file, or takes a free inode for it.
LEMMA CreateStore ==
    ASSUME StoreInv, NEW w \in Writers, Create(w)
    PROVE  StoreInv'
<1>. DEFINE unused == Inodes \ ({file, tmp} \cup {writer[v].fd : v \in Writers})
            new == [writer[w] EXCEPT !.pc = "write", !.fd = tmp']
<1>0. /\ writer[w].pc = "create" /\ UNCHANGED <<file, taught, ledger, forgotten, overlapped>>
      /\ data' = [data EXCEPT ![tmp'] = Blank]
      /\ writer' = [writer EXCEPT ![w] = new]
      /\ tmp # None => tmp' = tmp
      /\ tmp = None => tmp' \in unused
  <2>1. unused # {} => (CHOOSE j \in unused : TRUE) \in unused
    OBVIOUS
  <2>q. QED  BY <2>1 DEF Create
<1>1. tmp' \in Inodes /\ tmp' # None /\ tmp' # file
  BY <1>0, CommandAttributes DEF StoreInv, StoreType, Apart
<1>2. /\ Shaped(new) /\ new.pc = "write" /\ new.fd = tmp'
      /\ new.op = writer[w].op /\ new.store = writer[w].store
  <2>1. Shaped(writer[w])
    BY <1>0 DEF Asleep, StoreInv, WriterType
  <2>q. QED  BY <2>1 DEF Shaped
<1>3. Moves(w, new)
  BY <1>0 DEF Moves, StoreInv, StoreType
<1>4. /\ writer[w].store \in Some /\ OpOver(writer[w].op, Range(taught)) /\ ~Idle(w)
  BY <1>0 DEF StoreInv, WriterType, OpOver, Asleep, Idle
<1>. HIDE DEF new
<1>5. /\ \A i \in Inodes : data'[i] = IF i = tmp' THEN Blank ELSE data[i]
      /\ Blank \in [form : {"blank", "torn", "yaml"}, rules : Some]
      /\ data' \in [Inodes -> [form : {"blank", "torn", "yaml"}, rules : Some]]
  <2>1. Blank \in [form : {"blank", "torn", "yaml"}, rules : Some]
    BY DEF Blank, Some
  <2>q. QED  BY <1>0, <1>1, <2>1 DEF StoreInv, StoreType
<1>6. StoreType'
  BY <1>0, <1>1, <1>3, <1>5 DEF StoreInv, StoreType, Moves, Some
<1>7. WriterType'
  BY <1>0, <1>1, <1>2, <1>3, <1>4 DEF StoreInv, WriterType, Moves, OpOver, Opened, Some
<1>8. \A v \in Writers : ~Idle(v)' => ~Idle(v)
  BY <1>3, <1>4 DEF Moves, Idle
<1>9. TasksTakeTurns' /\ WritersTakeTurns'
  BY <1>0, <1>8 DEF StoreInv, TasksTakeTurns, WritersTakeTurns, Writers
<1>10. Apart' /\ LedgerFlipped'
  BY <1>0, <1>1 DEF StoreInv, Apart, LedgerFlipped
<1>11. SerialStore'
  BY <1>0, <1>1, <1>5 DEF StoreInv, StoreType, SerialStore, Parses, Load
<1>12. Undisturbed'
  <2>. SUFFICES ASSUME ~overlapped', NEW v \in Writers, ~Idle(v)'
                PROVE  /\ writer'[v].store = Apply(writer'[v].op, ledger')
                       /\ writer'[v].pc = "write" /\ writer'[v].fd = tmp'
                       /\ tmp' # None /\ data'[tmp'] = Blank
    BY DEF Undisturbed, Idle
  <2>1. v = w
    BY <1>0, <1>4, <1>8 DEF StoreInv, WritersTakeTurns
  <2>q. QED  BY <1>0, <1>1, <1>2, <1>3, <1>4, <1>5, <2>1 DEF Moves, StoreInv, Undisturbed
<1>q. QED  BY <1>6, <1>7, <1>9, <1>10, <1>11, <1>12 DEF StoreInv

\* What a write leaves on an inode, and on an empty one.
LEMMA OverwrittenFacts ==
    ASSUME NEW S, NEW old \in [form : {"blank", "torn", "yaml"}, rules : Seq(S)],
           NEW new \in Seq(S), NEW text \in Overwritten(old, new)
    PROVE  /\ text \in [form : {"blank", "torn", "yaml"}, rules : Seq(S)]
           /\ old = Blank => text = Yaml(new)
<1>1. ASSUME NEW some \in Seq(S)
      PROVE  Yaml(some) \in [form : {"blank", "torn", "yaml"}, rules : Seq(S)]
  BY DEF Yaml
<1>2. Torn \in [form : {"blank", "torn", "yaml"}, rules : Seq(S)]
  BY DEF Torn
<1>3. ASSUME NEW rest \in Suffixes(old.rules)
      PROVE  new \o rest \in Seq(S)
  <2>1. CASE rest = <<>>
    BY <2>1
  <2>2. ASSUME NEW l \in 1..Len(old.rules), rest = SubSeq(old.rules, l, Len(old.rules))
        PROVE  rest \in Seq(S)
    <3>1. old.rules \in Seq(S) /\ Len(old.rules) \in Nat /\ l \in Nat /\ 1 <= l
      OBVIOUS
    <3>q. QED  BY <2>2, <3>1
  <2>3. rest \in Seq(S)
    BY <2>1, <2>2 DEF Suffixes
  <2>q. QED  BY <2>3
<1>4. CASE old = Blank
  BY <1>1, <1>4 DEF Overwritten
<1>5. CASE old # Blank
  <2>1. \/ text = Yaml(new) \/ text = Torn
        \/ \E rest \in Suffixes(old.rules) : text = Yaml(new \o rest)
    BY <1>5 DEF Overwritten
  <2>q. QED  BY <1>1, <1>2, <1>3, <1>5, <2>1
<1>q. QED  BY <1>4, <1>5

\* fs::write fills the inode that its writer has open.
LEMMA WriteStore ==
    ASSUME StoreInv, NEW w \in Writers, Write(w)
    PROVE  StoreInv'
<1>. DEFINE new == [writer[w] EXCEPT !.pc = "rename", !.fd = None]
            at == writer[w].fd
<1>1. PICK text \in Overwritten(data[at], writer[w].store) : data' = [data EXCEPT ![at] = text]
  BY DEF Write
<1>2. /\ writer[w].pc = "write" /\ UNCHANGED <<file, tmp, taught, ledger, forgotten, overlapped>>
      /\ writer' = [writer EXCEPT ![w] = new]
  BY DEF Write
<1>3. /\ Shaped(writer[w]) /\ at \in Inodes /\ ~Idle(w)
      /\ writer[w].store \in Some /\ OpOver(writer[w].op, Range(taught))
  BY <1>2 DEF StoreInv, WriterType, OpOver, Asleep, Idle
<1>4. /\ Shaped(new) /\ new.pc = "rename" /\ new.fd = None
      /\ new.op = writer[w].op /\ new.store = writer[w].store
  BY <1>3 DEF Shaped
<1>5. Moves(w, new)
  BY <1>2 DEF Moves, StoreInv, StoreType
<1>. HIDE DEF new, at
<1>6. /\ text \in [form : {"blank", "torn", "yaml"}, rules : Some]
      /\ data[at] = Blank => text = Yaml(writer[w].store)
  <2>1. data[at] \in [form : {"blank", "torn", "yaml"}, rules : Seq(Range(taught))]
    BY <1>3 DEF StoreInv, StoreType, Some
  <2>2. writer[w].store \in Seq(Range(taught))
    BY <1>3 DEF Some
  <2>q. QED  BY <2>1, <2>2, OverwrittenFacts DEF Some
<1>7. /\ \A i \in Inodes : data'[i] = IF i = at THEN text ELSE data[i]
      /\ data' \in [Inodes -> [form : {"blank", "torn", "yaml"}, rules : Some]]
  BY <1>1, <1>3, <1>6 DEF StoreInv, StoreType
<1>8. StoreType'
  BY <1>2, <1>5, <1>7 DEF StoreInv, StoreType, Moves, Some
<1>9. WriterType'
  BY <1>2, <1>3, <1>4, <1>5 DEF StoreInv, WriterType, Moves, OpOver, Opened, Some
<1>10. \A v \in Writers : ~Idle(v)' => ~Idle(v)
  BY <1>3, <1>5 DEF Moves, Idle
<1>11. TasksTakeTurns' /\ WritersTakeTurns' /\ Apart' /\ LedgerFlipped'
  BY <1>2, <1>10 DEF StoreInv, TasksTakeTurns, WritersTakeTurns, Writers, Apart, LedgerFlipped
<1>12. ~overlapped => at = tmp /\ tmp # None /\ data[tmp] = Blank /\ at # file
  BY <1>2 DEF StoreInv, Undisturbed, Apart, at
<1>13. SerialStore'
  BY <1>2, <1>7, <1>12 DEF StoreInv, StoreType, SerialStore, Parses, Load
<1>14. Undisturbed'
  <2>. SUFFICES ASSUME ~overlapped', NEW v \in Writers, ~Idle(v)'
                PROVE  /\ writer'[v].store = Apply(writer'[v].op, ledger')
                       /\ writer'[v].pc = "rename"
                       /\ tmp' # None /\ data'[tmp'] = Yaml(writer'[v].store)
    BY DEF Undisturbed, Idle
  <2>1. v = w
    BY <1>2, <1>3, <1>10 DEF StoreInv, WritersTakeTurns
  <2>2. /\ writer'[v].store = writer[w].store /\ writer'[v].op = writer[w].op
        /\ writer'[v].pc = "rename"
    BY <1>4, <1>5, <2>1 DEF Moves
  <2>3. writer[w].store = Apply(writer[w].op, ledger)
    BY <1>2, <1>3 DEF StoreInv, Undisturbed
  <2>4. tmp' # None /\ data'[tmp'] = Yaml(writer[w].store)
    BY <1>2, <1>3, <1>6, <1>7, <1>12
  <2>q. QED  BY <1>2, <2>2, <2>3, <2>4
<1>q. QED  BY <1>8, <1>9, <1>11, <1>13, <1>14 DEF StoreInv

\* fs::rename puts the temp file in the place of the file, if it is still there.
LEMMA RenameStore ==
    ASSUME StoreInv, NEW w \in Writers, Rename(w)
    PROVE  StoreInv'
<1>0. /\ writer[w].pc = "rename" /\ writer' = [writer EXCEPT ![w] = Asleep]
      /\ UNCHANGED <<data, taught, overlapped>>
  BY DEF Rename
<1>1. Moves(w, Asleep)
  BY <1>0 DEF Moves, StoreInv, StoreType
<1>2. OpOver(writer[w].op, Range(taught)) /\ ~Idle(w)
  BY <1>0 DEF StoreInv, WriterType, OpOver, Asleep, Idle
<1>3. CASE tmp = None
  <2>1. UNCHANGED <<file, tmp, ledger, forgotten>>
    BY <1>3 DEF Rename
  <2>2. /\ DOMAIN writer' = Writers
        /\ \A v \in Writers : writer'[v] = IF v \in {w} THEN Asleep ELSE writer[v]
    BY <1>0 DEF StoreInv, StoreType
  <2>q. QED  BY <1>0, <2>1, <2>2, SleepStore
<1>4. CASE tmp # None
  <2>1. file' = tmp /\ tmp' = None /\ ledger' = Apply(writer[w].op, ledger)
    BY <1>4 DEF Rename
  <2>2. ledger' \in Some /\ LedgerFlipped'
    <3>1. ledger \in Seq(Range(taught)) /\ Flipped(ledger)
      BY DEF StoreInv, StoreType, Some, LedgerFlipped
    <3>q. QED  BY <1>2, <2>1, <3>1, ApplyFacts DEF Some, LedgerFlipped
  <2>3. StoreType'
    BY <1>0, <1>1, <1>4, <2>1, <2>2 DEF StoreInv, StoreType, Moves, Some
  <2>4. WriterType'
    BY <1>0, <1>1 DEF StoreInv, WriterType, Moves, Some
  <2>5. \A v \in Writers : ~Idle(v)' => ~Idle(v) /\ v # w
    BY <1>1 DEF Moves, Idle, Asleep
  <2>6. TasksTakeTurns' /\ WritersTakeTurns' /\ Apart'
    BY <1>0, <2>1, <2>5 DEF StoreInv, TasksTakeTurns, WritersTakeTurns, Writers, Apart
  <2>7. ASSUME ~overlapped' PROVE Parses' /\ Load' = ledger'
    <3>1. data[tmp] = Yaml(ledger')
      BY <1>0, <1>2, <2>1, <2>7 DEF StoreInv, Undisturbed
    <3>q. QED  BY <1>0, <1>4, <2>1, <3>1 DEF Parses, Load, Yaml, Torn
  <2>8. Undisturbed'
    <3>1. ~overlapped' => \A v \in Writers : Idle(v)'
      BY <1>0, <1>2, <2>5 DEF StoreInv, WritersTakeTurns
    <3>q. QED  BY <3>1 DEF Undisturbed, Idle
  <2>9. SerialStore'
    BY <2>7 DEF SerialStore
  <2>q. QED  BY <2>2, <2>3, <2>4, <2>6, <2>8, <2>9 DEF StoreInv
<1>q. QED  BY <1>3, <1>4

\* Every step preserves the invariant.
LEMMA StepStore ==
    ASSUME StoreInv, [Next]_vars
    PROVE  StoreInv'
<1>1. CASE UNCHANGED vars
  <2>1. StoreType' /\ WriterType' /\ Apart' /\ SerialStore' /\ LedgerFlipped'
    BY <1>1 DEF vars, StoreInv, StoreType, WriterType, Some, Apart, SerialStore, Parses, Load,
                LedgerFlipped
  <2>2. TasksTakeTurns' /\ WritersTakeTurns' /\ Undisturbed'
    BY <1>1 DEF vars, StoreInv, TasksTakeTurns, WritersTakeTurns, Undisturbed, Idle
  <2>q. QED  BY <2>1, <2>2 DEF StoreInv
<1>2. ASSUME NEW t \in Tasks, NEW c \in Commands, NEW d \in {"allow", "deny"}, Teach(t, c, d)
      PROVE  StoreInv'
  BY <1>2, TeachStore
<1>3. ASSUME NEW k \in Clis, NEW id \in 1..MaxRules, ForgetOne(k, id)
      PROVE  StoreInv'
  BY <1>3, ForgetStore
<1>4. ASSUME NEW k \in Clis, ForgetAll(k)
      PROVE  StoreInv'
  BY <1>4, ForgetStore
<1>5. ASSUME NEW w \in Writers, Create(w) \/ Write(w) \/ Rename(w)
      PROVE  StoreInv'
  BY <1>5, CreateStore, WriteStore, RenameStore
<1>6. ASSUME NEW w \in Writers, Fail(w)
      PROVE  StoreInv'
  <2>1. /\ DOMAIN writer' = Writers
        /\ \A v \in Writers : writer'[v] = IF v \in {w} THEN Asleep ELSE writer[v]
    BY <1>6 DEF Fail, StoreInv, StoreType
  <2>q. QED  BY <1>6, <2>1, SleepStore DEF Fail
<1>7. ASSUME NEW victims \in SUBSET Writers, Die(victims)
      PROVE  StoreInv'
  BY <1>7, SleepStore DEF Die
<1>8. Tasks \in SUBSET Writers /\ \A k \in Clis : {k} \in SUBSET Writers
  BY DEF Writers
<1>q. QED  BY <1>1, <1>2, <1>3, <1>4, <1>5, <1>6, <1>7, <1>8 DEF Next, WriterStep

-----------------------------------------------------------------------------
(* What the runs check, for every instance *)

\* The invariant holds in every reachable state: the lock makes daemon tasks
\* take turns, and as long as no command overlaps a writer the temp file has
\* one user and the file what the operations made of it in turn.
THEOREM StoreInvariant == Spec => []StoreInv
BY InitStore, StepStore, PTL DEF Spec

\* Whatever tasks race, fail or die half way, a reader finds exactly the rules
\* taught and not forgotten, as long as no command overlaps another writer.
THEOREM StoreIsSerial == Spec => []SerialStore
<1>1. StoreInv => SerialStore
  BY DEF StoreInv
<1>q. QED  BY <1>1, StoreInvariant, PTL

\* learn flips a rule and never stacks a second one for the same matcher in
\* the same project.
THEOREM StoreFlips == Spec => []FlipsNotStacks
<1>1. StoreInv => FlipsNotStacks
  <2>. SUFFICES ASSUME StoreInv, ~overlapped, NEW i \in DOMAIN Load, NEW j \in DOMAIN Load,
                       Load[i].project = Load[j].project, Load[i].matcher = Load[j].matcher
                PROVE  i = j
    BY DEF FlipsNotStacks
  <2>1. Load = ledger /\ Flipped(ledger) /\ ledger \in Seq(Range(taught))
    BY LoadFacts DEF StoreInv, StoreType, LedgerFlipped, Some
  <2>2. DOMAIN Load = 1..Len(ledger)
    BY <2>1
  <2>q. QED  BY <2>1, <2>2 DEF Flipped, Same
<1>q. QED  BY <1>1, StoreInvariant, PTL

\* However the writers overlap and tear the file, a rule that a reader finds is
\* one that a human taught.
THEOREM StoreInventsNothing == Spec => []NobodyInventsRules
<1>1. StoreInv => NobodyInventsRules
  BY LoadFacts DEF NobodyInventsRules, Range
<1>q. QED  BY <1>1, StoreInvariant, PTL

-----------------------------------------------------------------------------
(* What learned rules bear upon *)

\* The learned rules that bear upon c.
Bearing(c, rules) ==
    {r \in Range(rules) : r.project = ProjectOf[c] /\ r.matcher \in Passes[c]}

\* as_policy_rule matches by its matcher alone and keeps the decision.
LEMMA MatchesLearned ==
    ASSUME NEW r, NEW cmd
    PROVE  /\ Matches(AsPolicyRule(r), cmd) <=> r.matcher \in cmd.passes
           /\ AsPolicyRule(r).decision = r.decision
BY DEF Matches, AsPolicyRule

\* rules_for a command's project: the decisions of those that match the command
\* are those of the learned rules that bear upon it.
LEMMA KindsLearned ==
    ASSUME NEW c, NEW rules \in Seq(LearnedRule), NEW cmd, cmd.passes = Passes[c]
    PROVE  /\ RulesFor(rules, ProjectOf[c]) \in Seq({AsPolicyRule(r) : r \in LearnedRule})
           /\ Kinds(RulesFor(rules, ProjectOf[c]), cmd) = {r.decision : r \in Bearing(c, rules)}
<1>. DEFINE keep == {r \in Range(rules) : r.project = ProjectOf[c]}
            own == Retain(rules, keep)
            as == RulesFor(rules, ProjectOf[c])
<1>1. /\ own \in Seq(Range(rules)) /\ Range(rules) \subseteq LearnedRule
      /\ Range(rules) = {rules[i] : i \in 1..Len(rules)}
      /\ \A i \in 1..Len(own) : own[i] \in keep
      /\ \A j \in 1..Len(rules) : rules[j] \in keep => \E i \in 1..Len(own) : own[i] = rules[j]
  <2>1. RetainedFrom(own, rules, keep, Len(rules))
    BY Retains
  <2>. HIDE DEF own
  <2>2. Range(rules) \subseteq LearnedRule /\ Range(rules) = {rules[i] : i \in 1..Len(rules)}
    BY RangeOf
  <2>q. QED  BY <2>1, <2>2 DEF RetainedFrom
<1>2. as = [i \in DOMAIN own |-> AsPolicyRule(own[i])]
  BY DEF RulesFor
<1>. HIDE DEF own, as
<1>3. /\ Len(own) \in Nat /\ DOMAIN own = 1..Len(own)
      /\ \A i \in 1..Len(own) : own[i] \in LearnedRule
  BY <1>1
<1>4. /\ as \in Seq({AsPolicyRule(r) : r \in LearnedRule}) /\ Len(as) = Len(own)
      /\ \A i \in 1..Len(own) : as[i] = AsPolicyRule(own[i])
  BY <1>2, <1>3
<1>5. ASSUME NEW d \in Kinds(as, cmd) PROVE d \in {r.decision : r \in Bearing(c, rules)}
  <2>1. PICK i \in 1..Len(own) : Matches(as[i], cmd) /\ d = as[i].decision
    BY <1>4 DEF Kinds
  <2>2. own[i].matcher \in Passes[c] /\ d = own[i].decision
    BY <1>4, <2>1, MatchesLearned
  <2>q. QED  BY <1>1, <2>2 DEF Bearing
<1>6. ASSUME NEW r \in Bearing(c, rules) PROVE r.decision \in Kinds(as, cmd)
  <2>1. PICK i \in 1..Len(own) : own[i] = r
    BY <1>1 DEF Bearing
  <2>2. Matches(as[i], cmd) /\ as[i].decision = r.decision
    BY <1>4, <2>1, MatchesLearned DEF Bearing
  <2>q. QED  BY <1>4, <2>2 DEF Kinds
<1>q. QED  BY <1>4, <1>5, <1>6 DEF as

\* The decision on a command depends on the learned rules only by those that
\* bear upon it.
LEMMA DecisionByBearing ==
    ASSUME NEW c \in Commands, NEW a \in Seq(LearnedRule), NEW b \in Seq(LearnedRule),
           Bearing(c, a) = Bearing(c, b)
    PROVE  DecisionOn(c, a) = DecisionOn(c, b)
<1>. DEFINE project == ProjectRules[ProjectOf[c]]
            cmd == [passes |-> Passes[c], branch |-> None]
            learntAs == {AsPolicyRule(r) : r \in LearnedRule}
            S == Range(project) \cup learntAs
<1>1. project \in Seq(Range(project)) /\ \A r \in Range(project) : r.decision \in PolicyDecision
  BY CommandAttributes
<1>2. Rules(S)
  <2>1. \A r \in LearnedRule : AsPolicyRule(r).decision \in PolicyDecision
    BY DEF LearnedRule, AsPolicyRule, PolicyDecision
  <2>q. QED  BY <1>1, <2>1 DEF Rules
<1>3. cmd.passes = Passes[c]
  OBVIOUS
<1>4. project \in Seq(S)
  BY <1>1, SeqMono
<1>5. "medium" \in RiskLevel
  BY DEF RiskLevel
<1>. HIDE DEF cmd, project
<1>6. ASSUME NEW rules \in Seq(LearnedRule)
      PROVE  DecisionOn(c, rules) =
                 Verdict("medium", Kinds(project, cmd) \cup {r.decision : r \in Bearing(c, rules)},
                         BuiltinDefaults)
  <2>. DEFINE own == RulesFor(rules, ProjectOf[c])
  <2>1. /\ own \in Seq(learntAs)
        /\ Kinds(own, cmd) = {r.decision : r \in Bearing(c, rules)}
    BY <1>3, KindsLearned
  <2>2. DecisionOn(c, rules) =
            Evaluate(WithLearned(project, own), cmd, "medium", BuiltinDefaults).decision
    BY DEF DecisionOn, project, cmd
  <2>. HIDE DEF own, learntAs
  <2>3. own \in Seq(S)
    BY <2>1, SeqMono
  <2>. HIDE DEF S
  <2>4. Evaluate(WithLearned(project, own), cmd, "medium", BuiltinDefaults).decision =
            Verdict("medium", Kinds(project, cmd) \cup Kinds(own, cmd), BuiltinDefaults)
    BY <1>2, <1>4, <1>5, <2>3, LayeredVerdict
  <2>q. QED  BY <2>1, <2>2, <2>4, Zenon
<1>7. {r.decision : r \in Bearing(c, a)} = {r.decision : r \in Bearing(c, b)}
  OBVIOUS
<1>q. QED  BY <1>6, <1>7, Zenon

\* Whatever a step does to the file, overlapping writers included, it changes
\* the decision on a command only through a rule that came or went for the
\* command's project and with a matcher the command passes.
THEOREM StoreIsScoped == Spec => SimilarIsScoped
<1>. DEFINE ScopedStep ==
        \A c \in Commands :
            DecisionOn(c, LoadLearned') # DecisionOn(c, LoadLearned) =>
                \E r \in (Range(LoadLearned') \ Range(LoadLearned))
                         \cup (Range(LoadLearned) \ Range(LoadLearned')) :
                    r.project = ProjectOf[c] /\ r.matcher \in Passes[c]
<1>1. StoreInv => LoadLearned \in Seq(LearnedRule)
  <2>. SUFFICES ASSUME StoreInv PROVE LoadLearned \in Seq(LearnedRule)
    OBVIOUS
  <2>1. LoadLearned \in Some /\ Range(taught) \subseteq LearnedRule
    BY LoadFacts, RangeOf DEF StoreInv, StoreType
  <2>q. QED  BY <2>1, SeqMono DEF Some
<1>2. StoreInv' => (LoadLearned \in Seq(LearnedRule))'
  BY <1>1, PTL
<1>3. StoreInv /\ StoreInv' => ScopedStep
  <2>. SUFFICES ASSUME StoreInv, StoreInv', NEW c \in Commands,
                       ~\E r \in (Range(LoadLearned') \ Range(LoadLearned))
                                 \cup (Range(LoadLearned) \ Range(LoadLearned')) :
                           r.project = ProjectOf[c] /\ r.matcher \in Passes[c]
                PROVE  DecisionOn(c, LoadLearned') = DecisionOn(c, LoadLearned)
    OBVIOUS
  <2>1. Bearing(c, LoadLearned') = Bearing(c, LoadLearned)
    BY DEF Bearing
  <2>2. LoadLearned \in Seq(LearnedRule) /\ LoadLearned' \in Seq(LearnedRule)
    BY <1>1, <1>2 DEF LearnedRule
  <2>q. QED  BY <2>1, <2>2, DecisionByBearing
<1>q. QED  BY <1>3, StoreInvariant, PTL DEF SimilarIsScoped

=============================================================================
