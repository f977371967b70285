---------------------------- MODULE LearnedStore ----------------------------
(***************************************************************************)
(* learned-policy.yml and the processes that rewrite it: the daemon, whose *)
(* tasks serialise on learned_lock, and the command line's policy forget   *)
(* and forget-all, which share the file with the daemon but not the lock.  *)
(* Every save goes to the same sibling temp file, which is then renamed.   *)
(*                                                                         *)
(* Directory entries name inodes, since a writer keeps writing to the      *)
(* inode it opened whatever is renamed meanwhile.  The daemon reads the    *)
(* file for every request, so any state of it may be acted upon.           *)
(***************************************************************************)
EXTENDS Policy, Lists, SequencesExt

CONSTANTS
    Commands,      \* commands that agents submit
    ProjectOf,     \* ProjectOf[c]: the project c is run in
    MatcherOf,     \* MatcherOf[c]: derive_match of c
    Passes,        \* Passes[c]: the tests (matchers among them) that c passes
    ProjectRules,  \* ProjectRules[p]: the rules of p's .agent-gate.yml
    Tasks,         \* daemon tasks serving "similar" decisions
    Clis,          \* command line processes
    Inodes,        \* the inodes of the disk
    MaxRules       \* bound: how many rules are ever taught

Writers == Tasks \cup Clis

ASSUME CommandAttributes ==
    /\ \A c \in Commands : c \in DOMAIN ProjectOf /\ c \in DOMAIN MatcherOf
                           /\ c \in DOMAIN Passes /\ ProjectOf[c] \in DOMAIN ProjectRules
    /\ \A p \in DOMAIN ProjectRules :
          /\ ProjectRules[p] \in Seq(Range(ProjectRules[p]))
          /\ \A r \in Range(ProjectRules[p]) : r.decision \in PolicyDecision
    /\ Tasks \cap Clis = {}
    /\ None \notin Inodes
    /\ MaxRules \in Nat

VARIABLES
    file,       \* the inode named learned-policy.yml, or None
    tmp,        \* the inode named .learned-policy.yml.tmp, or None
    data,       \* data[i]: a Text
    writer,     \* writer[w]: what process or task w is doing
    taught,     \* history: the rules humans taught, in order; ids are positions
    ledger,     \* history: the rules if every operation took effect at once
    forgotten,  \* history: ids that a completed forget was to remove
    overlapped  \* history: a command ran while another writer was at work

vars == <<file, tmp, data, writer, taught, ledger, forgotten, overlapped>>

\* The text of a file: blank, torn (it does not parse), or that of some rules.
Blank == [form |-> "blank", rules |-> <<>>]
Torn == [form |-> "torn", rules |-> <<>>]
Yaml(rules) == [form |-> "yaml", rules |-> rules]

Asleep == [pc |-> "idle", op |-> None, store |-> <<>>, fd |-> None]

Init ==
    /\ file = None /\ tmp = None
    /\ data = [i \in Inodes |-> Blank]
    /\ writer = [w \in Writers |-> Asleep]
    /\ taught = <<>> /\ ledger = <<>> /\ forgotten = {}
    /\ overlapped = FALSE

-----------------------------------------------------------------------------
(* LearnedStore *)

\* LearnedStore::load, when it succeeds: a missing or a blank file has no rules.
Parses == file # None => data[file] # Torn
Load == IF file = None THEN <<>> ELSE data[file].rules

\* load_learned: a file that does not parse yields no rules.
LoadLearned == IF Parses THEN Load ELSE <<>>

\* Mutants of Learn: the older rule of the same shape is kept; the rule is an
\* allow whatever the human said.
LearnStacking(rules, rule) == Append(rules, rule)
LearnAllow(rules, rule) == Append(rules, [rule EXCEPT !.decision = "allow"])

\* LearnedStore::learn replaces the rule with the same project and matcher.
Learn(rules, rule) ==
    LET others == {r \in Range(rules) :
                      ~(r.project = rule.project /\ r.matcher = rule.matcher)}
    IN  Append(Retain(rules, others), rule)

\* LearnedStore::forget
Forget(rules, id) == Retain(rules, {r \in Range(rules) : r.id # id})

\* What a writer makes of the rules it loaded.
Apply(op, rules) ==
    CASE op.kind = "learn" -> Learn(rules, op.rule)
      [] op.kind = "forget" -> Forget(rules, op.id)
      [] op.kind = "forget_all" -> <<>>

\* LearnedRule::as_policy_rule
AsPolicyRule(r) ==
    [id |-> r.id, tests |-> {r.matcher}, branch |-> None, decision |-> r.decision]

\* Mutant of RulesFor: the rules of every project apply.
RulesOfAll(rules, project) == [i \in DOMAIN rules |-> AsPolicyRule(rules[i])]

\* LearnedStore::rules_for
RulesFor(rules, project) ==
    LET own == Retain(rules, {r \in Range(rules) : r.project = project})
    IN  [i \in DOMAIN own |-> AsPolicyRule(own[i])]

\* What approve decides about c while it reads the given learned rules.
DecisionOn(c, rules) ==
    Evaluate(WithLearned(ProjectRules[ProjectOf[c]], RulesFor(rules, ProjectOf[c])),
             [passes |-> Passes[c], branch |-> None], "medium", BuiltinDefaults).decision

-----------------------------------------------------------------------------
(* Writers: load and modify, create the temp file, write it, rename it *)

Idle(w) == writer[w].pc = "idle"

\* Mutant of LockFree: learned_lock is not taken.
LockIgnored == TRUE

LockFree == \A t \in Tasks : Idle(t)

\* w has loaded the rules it found, and is going to save what op makes of them.
Begin(w, op, rules) ==
    /\ Idle(w)
    /\ writer' = [writer EXCEPT ![w] =
                     [pc |-> "create", op |-> op, store |-> Apply(op, rules), fd |-> None]]
    /\ overlapped' = (overlapped \/ \E v \in Writers \ {w} :
                                       ~Idle(v) /\ (v \in Clis \/ w \in Clis))
    /\ UNCHANGED <<file, tmp, data, ledger, forgotten>>

\* decide_pending on a "similar" decision about c
Teach(t, c, d) ==
    LET rule == [id |-> Len(taught) + 1, project |-> ProjectOf[c],
                 matcher |-> MatcherOf[c], decision |-> d]
    IN  /\ LockFree
        /\ Len(taught) < MaxRules
        /\ Begin(t, [kind |-> "learn", rule |-> rule], LoadLearned)
        /\ taught' = Append(taught, rule)

\* policy forget: gives up on a file that does not parse, or without that id.
ForgetOne(k, id) ==
    /\ Parses
    /\ \E i \in DOMAIN Load : Load[i].id = id
    /\ Begin(k, [kind |-> "forget", id |-> id], Load)
    /\ UNCHANGED taught

\* policy forget-all: saves an empty store, and gives up on a file that does
\* not parse.
ForgetAll(k) ==
    /\ Parses
    /\ Begin(k, [kind |-> "forget_all", ids |-> {Load[i].id : i \in DOMAIN Load}], Load)
    /\ UNCHANGED taught

\* fs::write opens the temp file: an existing one is truncated, whoever else
\* has it open.  Without a free inode for a new one it can only Fail.
Create(w) ==
    LET unused == Inodes \ ({file, tmp} \cup {writer[v].fd : v \in Writers})
        i == IF tmp # None THEN tmp ELSE CHOOSE j \in unused : TRUE
    IN  /\ writer[w].pc = "create"
        /\ tmp = None => unused # {}
        /\ tmp' = i
        /\ data' = [data EXCEPT ![i] = Blank]
        /\ writer' = [writer EXCEPT ![w] = [@ EXCEPT !.pc = "write", !.fd = i]]
        /\ UNCHANGED <<file, taught, ledger, forgotten, overlapped>>

\* What an inode holds after new was written from its start over old: the end
\* of a longer old text remains, and may or may not parse.  The new text is whole, with
\* every key of its last rule, so what remains is rules of the old text, or no YAML (a
\* key given twice), or what no decision reads: an unknown key, or more lines of
\* learned_from, the last key of a rule.
Overwritten(old, new) ==
    IF old = Blank THEN {Yaml(new)}
    ELSE {Yaml(new), Torn} \cup
         {Yaml(new \o rest) : rest \in IF new = <<>> THEN {} ELSE Suffixes(old.rules)}

Write(w) ==
    /\ writer[w].pc = "write"
    /\ \E text \in Overwritten(data[writer[w].fd], writer[w].store) :
          data' = [data EXCEPT ![writer[w].fd] = text]
    /\ writer' = [writer EXCEPT ![w] = [@ EXCEPT !.pc = "rename", !.fd = None]]
    /\ UNCHANGED <<file, tmp, taught, ledger, forgotten, overlapped>>

\* The ids that op takes out of the store for good.
Removes(op) == CASE op.kind = "forget" -> {op.id}
                 [] op.kind = "forget_all" -> op.ids
                 [] OTHER -> {}

\* fs::rename: it fails if another writer has renamed the temp file already.
Rename(w) ==
    /\ writer[w].pc = "rename"
    /\ IF tmp # None
         THEN /\ file' = tmp /\ tmp' = None
              /\ ledger' = Apply(writer[w].op, ledger)
              /\ forgotten' = forgotten \cup Removes(writer[w].op)
         ELSE UNCHANGED <<file, tmp, ledger, forgotten>>
    /\ writer' = [writer EXCEPT ![w] = Asleep]
    /\ UNCHANGED <<data, taught, overlapped>>

\* Creating or writing the temp file fails: the daemon logs it, the command
\* line exits with the error.
Fail(w) ==
    /\ writer[w].pc \in {"create", "write"}
    /\ writer' = [writer EXCEPT ![w] = Asleep]
    /\ UNCHANGED <<file, tmp, data, taught, ledger, forgotten, overlapped>>

\* The daemon, or a command, dies; what is on the disk stays.
Die(victims) ==
    /\ \E w \in victims : ~Idle(w)
    /\ writer' = [w \in Writers |-> IF w \in victims THEN Asleep ELSE writer[w]]
    /\ UNCHANGED <<file, tmp, data, taught, ledger, forgotten, overlapped>>

WriterStep(w) == Create(w) \/ Write(w) \/ Rename(w) \/ Fail(w)

Next ==
    \/ \E t \in Tasks, c \in Commands, d \in {"allow", "deny"} : Teach(t, c, d)
    \/ \E k \in Clis, id \in 1..MaxRules : ForgetOne(k, id)
    \/ \E k \in Clis : ForgetAll(k)
    \/ \E w \in Writers : WriterStep(w)
    \/ Die(Tasks)
    \/ \E k \in Clis : Die({k})

Spec == Init /\ [][Next]_vars

-----------------------------------------------------------------------------
(* Properties *)

\* As long as no command overlaps another writer, every reader finds exactly
\* the rules taught and not yet forgotten: the lock and the rename make each
\* save take effect at once, whatever tasks race, fail or die half way.
SerialStore == ~overlapped => Parses /\ Load = ledger

\* Deciding the other way flips the rule rather than stacking a contradiction:
\* the file never has two rules for the same matcher in the same project.
FlipsNotStacks ==
    ~overlapped =>
        \A i, j \in DOMAIN Load :
            Load[i].project = Load[j].project /\ Load[i].matcher = Load[j].matcher => i = j

\* However writers overlap and tear the file, every rule that a reader finds
\* was taught by a human, with that decision and for that project.
NobodyInventsRules == \A i \in DOMAIN LoadLearned : LoadLearned[i] \in Range(taught)

\* What a step does to the file changes the decision on a command only if the
\* command is in a project, and passes the matcher, of a rule that came or went.
SimilarIsScoped ==
    [][\A c \in Commands :
        DecisionOn(c, LoadLearned') # DecisionOn(c, LoadLearned) =>
            \E r \in (Range(LoadLearned') \ Range(LoadLearned))
                     \cup (Range(LoadLearned) \ Range(LoadLearned')) :
                r.project = ProjectOf[c] /\ r.matcher \in Passes[c]]_vars

\* "Revocation takes effect on the next command" (README): once policy forget
\* has reported success, no reader finds the rule again.
ForgottenStaysForgotten ==
    \A i \in DOMAIN LoadLearned : LoadLearned[i].id \notin forgotten

=============================================================================
