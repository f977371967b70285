-------------------------- MODULE ApprovalContract --------------------------
(***************************************************************************)
(* What the gate promises about a request, with no queue, channel, reaper  *)
(* or button in sight.  Its fate is settled once.  The audit log gets at   *)
(* most one row for it, after the fact and naming that fate.  The agent is *)
(* told at most one thing: either that there is no decision yet, or the    *)
(* fate, and that only when the row is already written.                    *)
(***************************************************************************)
EXTENDS Sequences

CONSTANTS Requests, HumanFates, AutoFates, None

VARIABLES
    fate,     \* fate[r]: None, a decision, "expired", or "lost" in a crash
    receipt,  \* receipt[r]: the rows of the audit log about r
    answer    \* answer[r]: what the agent was told

vars == <<fate, receipt, answer>>

Recordable == HumanFates \cup AutoFates \cup {"expired"}

Init ==
    /\ fate = [r \in Requests |-> None]
    /\ receipt = [r \in Requests |-> <<>>]
    /\ answer = [r \in Requests |-> None]

\* One or (a sweep, a crash) several open requests are settled at once.
Settle ==
    /\ \E S \in (SUBSET Requests) \ {{}}, f \in Recordable \cup {"lost"} :
          /\ \A r \in S : fate[r] = None
          /\ fate' = [r \in Requests |-> IF r \in S THEN f ELSE fate[r]]
    /\ UNCHANGED <<receipt, answer>>

Write(r) ==
    /\ fate[r] \in Recordable /\ receipt[r] = <<>>
    /\ receipt' = [receipt EXCEPT ![r] = <<fate[r]>>]
    /\ UNCHANGED <<fate, answer>>

Tell(r) ==
    /\ answer[r] = None
    /\ \/ /\ fate[r] \in HumanFates \cup AutoFates /\ receipt[r] = <<fate[r]>>
          /\ answer' = [answer EXCEPT ![r] = fate[r]]
       \/ answer' = [answer EXCEPT ![r] = "no_decision_yet"]
    /\ UNCHANGED <<fate, receipt>>

Next == Settle \/ \E r \in Requests : Write(r) \/ Tell(r)

Spec == Init /\ [][Next]_vars

=============================================================================
