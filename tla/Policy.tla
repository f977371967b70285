------------------------------- MODULE Policy -------------------------------
(***************************************************************************)
(* What the gate decides about a command before any human is involved:     *)
(* the policy engine of crates/agent-gate-policy.                          *)
(*                                                                         *)
(* The texts of commands and patterns are abstracted to which test passes: *)
(* a command is a record [passes, branch] of the textual tests (contains,  *)
(* starts-with, regex) it passes and the branch it runs on, and a rule a   *)
(* record [id, tests, branch, decision].  A regex that does not compile is *)
(* a test that no command passes.                                          *)
(***************************************************************************)
EXTENDS Naturals, Sequences

None == "none"

\* RiskLevel and PolicyDecision (types.rs)
RiskLevel == {"low", "medium", "high", "blocked"}
PolicyDecision == {"allow", "ask", "deny"}

\* The RiskDefaults a project without a policy file gets.
BuiltinDefaults == [low |-> "allow", medium |-> "ask", high |-> "ask"]
RiskDefaults == [low : PolicyDecision, medium : PolicyDecision, high : PolicyDecision]

\* The answer when no rule matches.
DefaultFor(defaults, risk) ==
    IF risk = "blocked" THEN "deny" ELSE defaults[risk]

\* RuleMatch::matches: every test the rule has, and its branch if it names one.
Matches(rule, cmd) ==
    /\ rule.tests \subseteq cmd.passes
    /\ rule.branch \in {None, cmd.branch}

\* PolicyConfig::with_learned: the learned rules ahead of the project's own.
WithLearned(project, learnedRules) == learnedRules \o project

\* PolicyConfig::evaluate: the catastrophic tier first, then every deny before
\* any allow before any ask, then the default of the risk tier.
Evaluate(rules, cmd, risk, defaults) ==
    LET matching(d) == {i \in 1..Len(rules) :
                            rules[i].decision = d /\ Matches(rules[i], cmd)}
        outcome(d) == [decision |-> d, matched |-> {rules[i].id : i \in matching(d)}]
    IN  IF risk = "blocked"
          THEN [decision |-> "deny", matched |-> {"builtin-catastrophic-deny"}]
        ELSE IF matching("deny") # {} THEN outcome("deny")
        ELSE IF matching("allow") # {} THEN outcome("allow")
        ELSE IF matching("ask") # {} THEN outcome("ask")
        ELSE [decision |-> DefaultFor(defaults, risk), matched |-> {}]

-----------------------------------------------------------------------------
(* What the decision depends on *)

\* The decisions of the rules that match.
Kinds(rules, cmd) ==
    {rules[i].decision : i \in {j \in 1..Len(rules) : Matches(rules[j], cmd)}}

\* Mutant of Verdict: rules are consulted before the catastrophic tier.
BlockedAfterRules(risk, kinds, defaults) ==
    CASE "deny" \in kinds -> "deny"
      [] "deny" \notin kinds /\ "allow" \in kinds -> "allow"
      [] kinds = {"ask"} -> "ask"
      [] OTHER -> DefaultFor(defaults, risk)

\* The decision of evaluate as a function of risk, matching rules' decisions
\* and defaults: which rules there are and in which order does not matter.
Verdict(risk, kinds, defaults) ==
    CASE risk = "blocked" \/ "deny" \in kinds -> "deny"
      [] risk # "blocked" /\ "deny" \notin kinds /\ "allow" \in kinds -> "allow"
      [] risk # "blocked" /\ kinds = {"ask"} -> "ask"
      [] OTHER -> DefaultFor(defaults, risk)

=============================================================================
