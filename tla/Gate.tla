-------------------------------- MODULE Gate --------------------------------
(***************************************************************************)
(* The approval daemon (crates/agent-gate-daemon): the handler of          *)
(* POST /approve, the pending queue with its oneshot channels, the two     *)
(* ways a human answers (POST /pending/:id/decide and a notification       *)
(* button, /act/:token), the reaper, the grant store, the audit log, and   *)
(* the event stream that tells an approval page that the queue changed.    *)
(*                                                                         *)
(* The daemon runs on a multi-threaded runtime, so the unit of atomicity   *)
(* is one critical section, one channel operation or one disk write.       *)
(* Every submitted request has a handler (handler[r]); Callers are the     *)
(* tasks that serve decide and act calls; the reaper is a task of its own. *)
(***************************************************************************)
EXTENDS Policy, FiniteSets

CONSTANTS
    Requests,      \* the requests agents submit, each with its fresh id
    Callers,       \* tasks serving decide and act calls
    RiskOf,        \* RiskOf[r]: what classify said about r's command
    ProjectRules,  \* ProjectRules[r]: decisions of the project rules matching r
    Defaults,      \* the project's RiskDefaults
    Shapes,        \* (project, matcher) pairs a learned rule may have
    ShapeOf,       \* ShapeOf[r]: project and derive_match of r's command
    CoveredBy,     \* CoveredBy[r]: the shapes whose rule matches r
    Notified,      \* requests whose notification carries Allow/Deny buttons
    AgentWait,     \* agent_wait_seconds, in clock ticks
    RequestTtl,    \* request_ttl_seconds, in clock ticks
    DiskOutcomes,  \* results of a write to disk: {TRUE}, or {TRUE, FALSE}
    MaxCrashes     \* bound: how often the daemon process dies

ASSUME RequestAttributes ==
    /\ None \notin Requests
    /\ RiskOf \in [Requests -> RiskLevel]
    /\ ProjectRules \in [Requests -> SUBSET PolicyDecision]
    /\ Defaults \in RiskDefaults
    /\ ShapeOf \in [Requests -> Shapes]
    /\ CoveredBy \in [Requests -> SUBSET Shapes]
    /\ Notified \subseteq Requests

ASSUME ClocksAssumption == AgentWait \in Nat /\ RequestTtl \in Nat

ASSUME EnvironmentAssumption ==
    /\ TRUE \in DiskOutcomes /\ DiskOutcomes \subseteq BOOLEAN
    /\ MaxCrashes \in Nat

\* No write to disk fails.
DiskWorks == DiskOutcomes = {TRUE}

\* Decision (types.rs), split by who can produce it.
HumanDecision == {"allow_once", "deny_once", "allow_similar", "block_similar"}
AutoDecision == {"auto_allowed", "auto_blocked"}
Receipt == HumanDecision \cup AutoDecision \cup {"expired"}
Answer == HumanDecision \cup AutoDecision \cup {"no_decision_yet"}
IsAllowed(d) == d \in {"allow_once", "allow_similar", "auto_allowed"}

VARIABLES
    handler,   \* handler[r]: where the approve handler of r is
    verdict,   \* verdict[r]: the decision it is about to record and answer
    pending,   \* PendingStore: ids in the queue
    chan,      \* chan[r]: the oneshot channel between the queue entry and the handler
    age,       \* age[r]: wall-clock ticks since created_at, saturating at RequestTtl
    waited,    \* waited[r]: monotonic ticks in timeout(..), saturating at AgentWait
    grants,    \* GrantStore: live buttons <<request, decision>>
    call,      \* call[c]: the decide or act call that task c is serving
    sweep,     \* requests the current reap_at has removed and not yet handled
    reaping,   \* the request between revoke_for and its audit insert, or None
    audit,     \* audit[r]: AuditStore rows of r, in order
    learned,   \* learned-policy.yml: the rule of each shape, or None
    stream,    \* "open" while a page is subscribed to /events
    dirty,     \* a broadcast (or the initial item) the page's stream has not served
    shown,     \* the queue the page last received
    outcome,   \* history: what became of r, fixed when r leaves the queue
    crashes    \* history: crashes so far

clockVars  == <<age, waited>>
reaperVars == <<sweep, reaping>>
diskVars   == <<audit, learned>>
pageVars   == <<stream, dirty, shown>>
vars == <<handler, verdict, pending, chan, clockVars, grants, call, reaperVars,
          diskVars, pageVars, outcome, crashes>>

Idle == [pc |-> "idle", req |-> None, dec |-> None, via |-> None,
         entry |-> "absent"]

HandlerPc == {"new", "insert", "announce", "mint_allow", "mint_deny", "wait",
              "elapsed", "record", "respond", "done", "gone"}
CallerPc == {"idle", "press", "send", "notify", "revoke", "learn", "record"}
\* What a call has of the queue entry: not (or no longer) found, taken with its
\* sender, or consumed by a send that reached the handler or did not.
EntryState == {"absent", "held", "delivered", "undelivered"}
CallType == [pc : CallerPc, req : Requests \cup {None}, dec : HumanDecision \cup {None},
             via : {"api", "act", None}, entry : EntryState]
ChanState == {"none", "open", "closed", "hungup"} \cup HumanDecision

Init ==
    /\ handler = [r \in Requests |-> "new"]
    /\ verdict = [r \in Requests |-> None]
    /\ pending = {}
    /\ chan = [r \in Requests |-> "none"]
    /\ age = [r \in Requests |-> 0]
    /\ waited = [r \in Requests |-> 0]
    /\ grants = {}
    /\ call = [c \in Callers |-> Idle]
    /\ sweep = {}
    /\ reaping = None
    /\ audit = [r \in Requests |-> <<>>]
    /\ learned = [s \in Shapes |-> None]
    /\ stream = "closed"
    /\ dirty = FALSE
    /\ shown = {}
    /\ outcome = [r \in Requests |-> None]
    /\ crashes = 0

-----------------------------------------------------------------------------
(* Shared steps *)

\* AuditStore::insert.  Every caller only logs a failure.
AuditInsert(r, d) ==
    \E ok \in DiskOutcomes :
        audit' = IF ok THEN [audit EXCEPT ![r] = Append(@, d)] ELSE audit

\* AppState::notify_change: a broadcast nobody is subscribed to is dropped.
NotifyChange == dirty' = (dirty \/ stream = "open")

\* Mutant of RevokeFor: only the Allow button is revoked.
RevokeAllow(r) == grants' = grants \ {<<r, "allow_once">>}

\* GrantStore::revoke_for
RevokeFor(r) == grants' = {g \in grants : g[1] # r}

At(r, pc) == handler[r] = pc
GoTo(r, pc) == handler' = [handler EXCEPT ![r] = pc]

-----------------------------------------------------------------------------
(* The approve handler.  Its only await is the wait for a decision, so that *)
(* is the only point at which a client that disconnects can cancel it.      *)

\* The decisions of the rules in force for r: the project's and the learned.
MatchingRules(r) ==
    ProjectRules[r] \cup ({learned[s] : s \in CoveredBy[r]} \ {None})

\* classify, load the policy and the learned rules, evaluate.
Approve(r) ==
    LET answer == Verdict(RiskOf[r], MatchingRules(r), Defaults)
        auto   == IF answer = "allow" THEN "auto_allowed" ELSE "auto_blocked"
    IN  /\ At(r, "new")
        /\ IF answer = "ask"
             THEN GoTo(r, "insert") /\ UNCHANGED <<verdict, outcome>>
             ELSE /\ GoTo(r, "record")
                  /\ verdict' = [verdict EXCEPT ![r] = auto]
                  /\ outcome' = [outcome EXCEPT ![r] = auto]
        /\ UNCHANGED <<pending, chan, clockVars, grants, call, reaperVars,
                       diskVars, pageVars, crashes>>

\* PendingStore::insert: the entry holds the sender, the handler the receiver.
Insert(r) ==
    /\ At(r, "insert")
    /\ pending' = pending \cup {r}
    /\ chan' = [chan EXCEPT ![r] = "open"]
    /\ GoTo(r, "announce")
    /\ UNCHANGED <<verdict, clockVars, grants, call, reaperVars, diskVars,
                   pageVars, outcome, crashes>>

\* notify_change, then spawn_for decides whether this request gets buttons.
Announce(r) ==
    /\ At(r, "announce")
    /\ NotifyChange
    /\ GoTo(r, IF r \in Notified THEN "mint_allow" ELSE "wait")
    /\ UNCHANGED <<verdict, pending, chan, clockVars, grants, call, reaperVars,
                   diskVars, stream, shown, outcome, crashes>>

\* build_publish mints one grant per button, each under its own lock.
Mint(r) ==
    /\ \/ At(r, "mint_allow") /\ grants' = grants \cup {<<r, "allow_once">>}
                              /\ GoTo(r, "mint_deny")
       \/ At(r, "mint_deny")  /\ grants' = grants \cup {<<r, "deny_once">>}
                              /\ GoTo(r, "wait")
    /\ UNCHANGED <<verdict, pending, chan, clockVars, call, reaperVars, diskVars,
                   pageVars, outcome, crashes>>

\* Mutant of Wake: the decision is answered without its audit insert.
WakeUnrecorded(r) ==
    /\ At(r, "wait")
    /\ chan[r] \in HumanDecision \cup {"hungup"}
    /\ verdict' = [verdict EXCEPT ![r] =
                     IF chan[r] = "hungup" THEN "no_decision_yet" ELSE chan[r]]
    /\ GoTo(r, "respond")
    /\ UNCHANGED <<pending, chan, clockVars, grants, call, reaperVars, diskVars,
                   pageVars, outcome, crashes>>

\* Mutant of Wake: a dropped sender is taken for a denial.
WakeDenied(r) ==
    /\ At(r, "wait")
    /\ chan[r] \in HumanDecision \cup {"hungup"}
    /\ verdict' = [verdict EXCEPT ![r] = IF chan[r] = "hungup" THEN "deny_once" ELSE chan[r]]
    /\ GoTo(r, "record")
    /\ UNCHANGED <<pending, chan, clockVars, grants, call, reaperVars, diskVars,
                   pageVars, outcome, crashes>>

\* Mutant of Wake: a dropped sender wakes nobody.
WakeOnDecision(r) ==
    /\ At(r, "wait")
    /\ chan[r] \in HumanDecision
    /\ verdict' = [verdict EXCEPT ![r] = chan[r]]
    /\ GoTo(r, "record")
    /\ UNCHANGED <<pending, chan, clockVars, grants, call, reaperVars, diskVars,
                   pageVars, outcome, crashes>>

\* The receiver yields the decision, or an error once the sender is dropped.
Wake(r) ==
    /\ At(r, "wait")
    /\ \/ /\ chan[r] \in HumanDecision
          /\ verdict' = [verdict EXCEPT ![r] = chan[r]]
          /\ GoTo(r, "record")
       \/ /\ chan[r] = "hungup"
          /\ verdict' = [verdict EXCEPT ![r] = "no_decision_yet"]
          /\ GoTo(r, "respond")
    /\ UNCHANGED <<pending, chan, clockVars, grants, call, reaperVars, diskVars,
                   pageVars, outcome, crashes>>

\* timeout(..) polls the receiver first and its timer second: finding neither
\* a decision nor time left, it is going to return Elapsed ...
Elapse(r) ==
    /\ At(r, "wait") /\ chan[r] = "open" /\ waited[r] >= AgentWait
    /\ GoTo(r, "elapsed")
    /\ UNCHANGED <<verdict, pending, chan, clockVars, grants, call, reaperVars,
                   diskVars, pageVars, outcome, crashes>>

\* Dropping the receiver makes a later send fail; what was sent before is lost.
DropReceiver(r) ==
    chan' = [chan EXCEPT ![r] = IF @ = "open" THEN "closed" ELSE @]

\* Mutant of GiveUp: NoDecisionYet is audited like a decision.
GiveUpAudited(r) ==
    /\ At(r, "elapsed")
    /\ DropReceiver(r)
    /\ verdict' = [verdict EXCEPT ![r] = "no_decision_yet"]
    /\ GoTo(r, "record")
    /\ UNCHANGED <<pending, clockVars, grants, call, reaperVars, diskVars,
                   pageVars, outcome, crashes>>

\* ... and only when that future is dropped does the receiver go away.
GiveUp(r) ==
    /\ At(r, "elapsed")
    /\ DropReceiver(r)
    /\ verdict' = [verdict EXCEPT ![r] = "no_decision_yet"]
    /\ GoTo(r, "respond")
    /\ UNCHANGED <<pending, clockVars, grants, call, reaperVars, diskVars,
                   pageVars, outcome, crashes>>

\* The audit insert that precedes every answer but NoDecisionYet.
Record(r) ==
    /\ At(r, "record")
    /\ AuditInsert(r, verdict[r])
    /\ GoTo(r, "respond")
    /\ UNCHANGED <<verdict, pending, chan, clockVars, grants, call, reaperVars,
                   learned, pageVars, outcome, crashes>>

\* The client receives the answer, or is no longer there to receive it.
Respond(r) ==
    /\ At(r, "respond")
    /\ \E pc \in {"done", "gone"} : GoTo(r, pc)
    /\ UNCHANGED <<verdict, pending, chan, clockVars, grants, call, reaperVars,
                   diskVars, pageVars, outcome, crashes>>

\* The client of a waiting handler disconnects: the server drops the handler's
\* future, receiver included, and nothing after the await runs.
Disconnect(r) ==
    /\ At(r, "wait")
    /\ DropReceiver(r)
    /\ GoTo(r, "gone")
    /\ UNCHANGED <<verdict, pending, clockVars, grants, call, reaperVars,
                   diskVars, pageVars, outcome, crashes>>

-----------------------------------------------------------------------------
(* Answering: decide_pending and act.  Neither awaits, so a call that has   *)
(* started runs to its end unless the process dies.                         *)

Serving(c, pc) == call[c].pc = pc
Proceed(c, pc) ==
    call' = [call EXCEPT ![c] = IF pc = "idle" THEN Idle ELSE [@ EXCEPT !.pc = pc]]

\* The words a decide call may carry; any other word denies.
Words == {"allow", "allow_once", "allow_similar", "block_similar",
          "deny_similar", "deny_once", "unknown"}
DecisionOf(word) ==
    CASE word \in {"allow", "allow_once"} -> "allow_once"
      [] word = "allow_similar" -> "allow_similar"
      [] word \in {"block_similar", "deny_similar"} -> "block_similar"
      [] OTHER -> "deny_once"

\* Mutant of TakeEntry: the entry is looked up and left in the queue.
PeekEntry(r, d) ==
    /\ r \in pending
    /\ outcome' = [outcome EXCEPT ![r] = d]
    /\ UNCHANGED pending

\* The critical section of PendingStore::decide: whoever removes the entry owns
\* its sender, and nobody else will ever find it.
TakeEntry(r, d) ==
    /\ r \in pending
    /\ pending' = pending \ {r}
    /\ outcome' = [outcome EXCEPT ![r] = d]

\* POST /pending/:id/decide.  An id that is not in the queue changes nothing.
Decide(c, r, word) ==
    /\ Serving(c, "idle")
    /\ TakeEntry(r, DecisionOf(word))
    /\ call' = [call EXCEPT ![c] = [pc |-> "send", req |-> r, dec |-> DecisionOf(word),
                                    via |-> "api", entry |-> "held"]]
    /\ UNCHANGED <<handler, verdict, chan, clockVars, grants, reaperVars, diskVars,
                   pageVars, crashes>>

\* /act/:token, first half: GrantStore::redeem burns the button.  A token that
\* is not in the store changes nothing.
Redeem(c, g) ==
    /\ Serving(c, "idle")
    /\ g \in grants
    /\ grants' = grants \ {g}
    /\ call' = [call EXCEPT ![c] = [pc |-> "press", req |-> g[1], dec |-> g[2],
                                    via |-> "act", entry |-> "absent"]]
    /\ UNCHANGED <<handler, verdict, pending, chan, clockVars, reaperVars, diskVars,
                   pageVars, outcome, crashes>>

\* /act/:token, second half: the decision the button stands for, if the request
\* is still in the queue.
Press(c) ==
    LET r == call[c].req IN
    /\ Serving(c, "press")
    /\ \/ /\ TakeEntry(r, call[c].dec)
          /\ call' = [call EXCEPT ![c] = [@ EXCEPT !.pc = "send", !.entry = "held"]]
       \/ /\ r \notin pending
          /\ Proceed(c, "revoke")
          /\ UNCHANGED <<pending, outcome>>
    /\ UNCHANGED <<handler, verdict, chan, clockVars, grants, reaperVars, diskVars,
                   pageVars, crashes>>

\* responder.send: it fails exactly when the receiver is gone.
Send(c) ==
    LET r == call[c].req
        delivered == chan[r] = "open"
    IN  /\ Serving(c, "send")
        /\ chan' = [chan EXCEPT ![r] = IF delivered THEN call[c].dec ELSE @]
        /\ call' = [call EXCEPT ![c] =
                        [@ EXCEPT !.entry = IF delivered THEN "delivered" ELSE "undelivered",
                                  !.pc = IF call[c].via = "api" THEN "notify" ELSE "revoke"]]
        /\ UNCHANGED <<handler, verdict, pending, clockVars, grants, reaperVars,
                       diskVars, pageVars, outcome, crashes>>

\* Mutants of LastStep: every decision gets a late receipt; none does.
AlwaysRecord(c) == "record"
NeverRecord(c) == "idle"

\* What is left of a call once its side effects are done: the receipt of a
\* decision no handler was there to receive.
LastStep(c) == IF call[c].entry = "delivered" THEN "idle" ELSE "record"

\* Mutant of Notify: the answered entry is not broadcast.
NotifyNobody(c) ==
    /\ Serving(c, "notify")
    /\ Proceed(c, IF call[c].via = "api" THEN "revoke" ELSE LastStep(c))
    /\ UNCHANGED <<handler, verdict, pending, chan, clockVars, grants, reaperVars,
                   diskVars, pageVars, outcome, crashes>>

Notify(c) ==
    /\ Serving(c, "notify")
    /\ NotifyChange
    /\ Proceed(c, IF call[c].via = "api" THEN "revoke" ELSE LastStep(c))
    /\ UNCHANGED <<handler, verdict, pending, chan, clockVars, grants, reaperVars,
                   diskVars, stream, shown, outcome, crashes>>

\* Mutant of Revoke: every decision teaches, not only the "similar" ones.
RevokeAndTeach(c) ==
    /\ Serving(c, "revoke")
    /\ RevokeFor(call[c].req)
    /\ Proceed(c, CASE call[c].via = "act" /\ call[c].entry = "absent" -> "idle"
                    [] call[c].via = "act" /\ call[c].entry # "absent" -> "notify"
                    [] OTHER -> "learn")
    /\ UNCHANGED <<handler, verdict, pending, chan, clockVars, reaperVars, diskVars,
                   pageVars, outcome, crashes>>

\* revoke_for.  act revokes even for a request it did not find (410 Gone).
Revoke(c) ==
    /\ Serving(c, "revoke")
    /\ RevokeFor(call[c].req)
    /\ Proceed(c, CASE call[c].via = "act" /\ call[c].entry = "absent" -> "idle"
                    [] call[c].via = "act" /\ call[c].entry # "absent" -> "notify"
                    [] OTHER -> IF call[c].dec \in {"allow_similar", "block_similar"}
                                THEN "learn" ELSE LastStep(c))
    /\ UNCHANGED <<handler, verdict, pending, chan, clockVars, reaperVars, diskVars,
                   pageVars, outcome, crashes>>

\* Under learned_lock: load, learn (replacing the shape's rule), save.  A save
\* that fails is only logged.
Learn(c) ==
    LET rule == IF call[c].dec = "allow_similar" THEN "allow" ELSE "deny" IN
    /\ Serving(c, "learn")
    /\ \E ok \in DiskOutcomes :
          learned' = IF ok THEN [learned EXCEPT ![ShapeOf[call[c].req]] = rule]
                           ELSE learned
    /\ Proceed(c, LastStep(c))
    /\ UNCHANGED <<handler, verdict, pending, chan, clockVars, grants, reaperVars,
                   audit, pageVars, outcome, crashes>>

\* record_late_decision
RecordLate(c) ==
    /\ Serving(c, "record")
    /\ AuditInsert(call[c].req, call[c].dec)
    /\ Proceed(c, "idle")
    /\ UNCHANGED <<handler, verdict, pending, chan, clockVars, grants, reaperVars,
                   learned, pageVars, outcome, crashes>>

-----------------------------------------------------------------------------
(* The reaper *)

\* Mutant of Expired: a request whose handler is gone is left to that handler.
ExpiredAttended == {r \in pending : age[r] >= RequestTtl /\ chan[r] = "open"}

Expired == {r \in pending : age[r] >= RequestTtl}

\* PendingStore::reap_expired: one critical section, which also drops the
\* senders and so wakes any handler still waiting.  reap_at runs to its end
\* before the ticker fires again.
ReapExpired ==
    /\ sweep = {} /\ reaping = None
    /\ Expired # {}
    /\ pending' = pending \ Expired
    /\ chan' = [r \in Requests |->
                   IF r \in Expired /\ chan[r] = "open" THEN "hungup" ELSE chan[r]]
    /\ sweep' = Expired
    /\ outcome' = [r \in Requests |-> IF r \in Expired THEN "expired" ELSE outcome[r]]
    /\ UNCHANGED <<handler, verdict, clockVars, grants, call, reaping, diskVars,
                   pageVars, crashes>>

ReapRevoke(r) ==
    /\ r \in sweep /\ reaping = None
    /\ RevokeFor(r)
    /\ sweep' = sweep \ {r}
    /\ reaping' = r
    /\ UNCHANGED <<handler, verdict, pending, chan, clockVars, call, diskVars,
                   pageVars, outcome, crashes>>

ReapRecord ==
    /\ reaping # None
    /\ AuditInsert(reaping, "expired")
    /\ reaping' = None
    /\ UNCHANGED <<handler, verdict, pending, chan, clockVars, grants, call, sweep,
                   learned, pageVars, outcome, crashes>>

-----------------------------------------------------------------------------
(* An approval page on GET /events *)

\* Mutant of Subscribe: no initial item.
SubscribeOnly ==
    /\ stream = "closed"
    /\ stream' = "open"
    /\ UNCHANGED <<handler, verdict, pending, chan, clockVars, grants, call, reaperVars,
                   diskVars, dirty, shown, outcome, crashes>>

\* Subscribe first, then serve the queue once: no change falls in between.
Subscribe ==
    /\ stream = "closed"
    /\ stream' = "open"
    /\ dirty' = TRUE
    /\ UNCHANGED <<handler, verdict, pending, chan, clockVars, grants, call, reaperVars,
                   diskVars, shown, outcome, crashes>>

\* Broadcasts carry no data; each is served by listing the queue as it is now,
\* so several unread ones (or a lagged receiver) are as good as one.
Push ==
    /\ stream = "open" /\ dirty
    /\ shown' = pending
    /\ dirty' = FALSE
    /\ UNCHANGED <<handler, verdict, pending, chan, clockVars, grants, call, reaperVars,
                   diskVars, stream, outcome, crashes>>

\* The page goes away, and with it what it displayed.
Unsubscribe ==
    /\ stream = "open"
    /\ stream' = "closed"
    /\ dirty' = FALSE
    /\ shown' = {}
    /\ UNCHANGED <<handler, verdict, pending, chan, clockVars, grants, call, reaperVars,
                   diskVars, outcome, crashes>>

-----------------------------------------------------------------------------
(* Environment: two clocks, and the death of the process *)

Aging(r) == At(r, "insert") \/ r \in pending

\* A tick of the wall clock, which expiry is measured on, and unless the
\* machine is asleep of the monotonic clock, which the agent's wait is.
Elapsing(asleep) ==
    /\ age' = [r \in Requests |->
                  IF Aging(r) /\ age[r] < RequestTtl THEN age[r] + 1 ELSE age[r]]
    /\ waited' = [r \in Requests |->
                  IF ~asleep /\ At(r, "wait") /\ waited[r] < AgentWait
                  THEN waited[r] + 1 ELSE waited[r]]
    /\ <<age, waited>>' # <<age, waited>>
    /\ UNCHANGED <<handler, verdict, pending, chan, grants, call, reaperVars, diskVars,
                   pageVars, outcome, crashes>>

Tick == Elapsing(FALSE)
Sleep == Elapsing(TRUE)

\* The queue, the grants and every task die with the process; only the files
\* stay.  A client whose handler died sees a closed connection.
Crash ==
    /\ crashes < MaxCrashes
    /\ crashes' = crashes + 1
    /\ handler' = [r \in Requests |->
                      IF handler[r] \in {"new", "done"} THEN handler[r] ELSE "gone"]
    /\ outcome' = [r \in Requests |-> IF r \in pending THEN "lost" ELSE outcome[r]]
    /\ chan' = [r \in Requests |-> "none"]
    /\ pending' = {} /\ grants' = {}
    /\ call' = [c \in Callers |-> Idle]
    /\ sweep' = {} /\ reaping' = None
    /\ stream' = "closed" /\ dirty' = FALSE /\ shown' = {}
    /\ UNCHANGED <<verdict, clockVars, diskVars>>

-----------------------------------------------------------------------------
HandlerStep(r) == \/ Insert(r) \/ Announce(r) \/ Mint(r) \/ Wake(r) \/ Elapse(r)
                  \/ GiveUp(r) \/ Record(r) \/ Respond(r)
CallerStep(c) == \/ Press(c) \/ Send(c) \/ Notify(c) \/ Revoke(c) \/ Learn(c)
                 \/ RecordLate(c)
ReaperStep == ReapExpired \/ (\E r \in Requests : ReapRevoke(r)) \/ ReapRecord

Next ==
    \/ \E r \in Requests : Approve(r) \/ HandlerStep(r) \/ Disconnect(r)
    \/ \E c \in Callers, r \in Requests, word \in Words : Decide(c, r, word)
    \/ \E c \in Callers, g \in grants : Redeem(c, g)
    \/ \E c \in Callers : CallerStep(c)
    \/ ReaperStep
    \/ Subscribe \/ Push \/ Unsubscribe
    \/ Tick \/ Sleep \/ Crash

Spec == Init /\ [][Next]_vars

\* What the runtime guarantees: spawned tasks run, timers fire, the reaper's
\* ticker ticks.  Humans, clients and the machine's sleep are not scheduled.
Fairness ==
    /\ \A r \in Requests : WF_vars(HandlerStep(r))
    /\ \A c \in Callers : WF_vars(CallerStep(c))
    /\ WF_vars(ReaperStep)
    /\ WF_vars(Push)
    /\ WF_vars(Tick)

FairSpec == Spec /\ Fairness

-----------------------------------------------------------------------------
(* Properties *)

\* Every variable keeps its type.
TypeOK ==
    /\ handler \in [Requests -> HandlerPc]
    /\ verdict \in [Requests -> Answer \cup {None}]
    /\ pending \subseteq Requests
    /\ chan \in [Requests -> ChanState]
    /\ age \in [Requests -> 0..RequestTtl]
    /\ waited \in [Requests -> 0..AgentWait]
    /\ grants \subseteq Requests \X {"allow_once", "deny_once"}
    /\ call \in [Callers -> CallType]
    /\ sweep \subseteq Requests
    /\ reaping \in Requests \cup {None}
    /\ audit \in [Requests -> Seq(Receipt)]
    /\ learned \in [Shapes -> {"allow", "deny", None}]
    /\ stream \in {"open", "closed"}
    /\ dirty \in BOOLEAN
    /\ shown \subseteq Requests
    /\ outcome \in [Requests -> Receipt \cup {"lost", None}]
    /\ crashes \in 0..MaxCrashes

\* The first answer wins: once a surface, a button or the reaper has taken a
\* request out of the queue (or policy decided it), nothing changes what became
\* of it, however many surfaces answer at once.
FirstAnswerWins ==
    [][\A r \in Requests : outcome[r] # None => outcome'[r] = outcome[r]]_vars

\* A request has at most one row in the audit log, and the row says what became
\* of the request, whichever of the three writers (the handler, the surface that
\* answered late, the reaper) wrote it.
ReceiptIsOutcome ==
    \A r \in Requests : audit[r] = <<>> \/ audit[r] = <<outcome[r]>>

\* A decision the agent is told is the one that was taken.
AnswerIsOutcome ==
    \A r \in Requests :
        handler[r] \in {"respond", "done"} /\ verdict[r] # "no_decision_yet"
            => verdict[r] = outcome[r]

\* Provided the disk works, no agent is told a decision that is not yet in the
\* audit log: the receipt of a command precedes its execution, also when the
\* daemon dies right after answering.
AnsweredMeansRecorded ==
    DiskWorks =>
        \A r \in Requests :
            handler[r] \in {"respond", "done"} /\ verdict[r] # "no_decision_yet"
                => audit[r] = <<verdict[r]>>

\* Somebody is still going to write the receipt of r.
Owed(r) ==
    \/ handler[r] = "record"
    \/ /\ handler[r] \in {"announce", "mint_allow", "mint_deny", "wait"}
       /\ chan[r] \in HumanDecision
    \/ \E c \in Callers : call[c].req = r /\ call[c].entry \in {"held", "undelivered"}
    \/ r \in sweep \/ reaping = r

\* The decision was sent into the channel of a handler that had decided to give
\* up, or was dropped, before taking it out.
LostInHandoff(r) ==
    /\ chan[r] \in HumanDecision
    /\ handler[r] \in {"elapsed", "respond", "done", "gone"}
    /\ verdict[r] \notin HumanDecision

\* Absent crashes and disk errors, whatever became of a request is in the audit
\* log or somebody is about to write it, except for a decision lost in the
\* hand-off to a handler that was already leaving.
ReceiptAccounted ==
    crashes = 0 /\ DiskWorks =>
        \A r \in Requests : outcome[r] # None =>
            audit[r] = <<outcome[r]>> \/ Owed(r) \/ LostInHandoff(r)

\* The same without the exception: "a human decision must never go unrecorded
\* just because it arrived late" (decide_pending).
NoDecisionUnrecorded ==
    crashes = 0 /\ DiskWorks =>
        \A r \in Requests : outcome[r] # None =>
            audit[r] = <<outcome[r]>> \/ Owed(r)

\* A command of the catastrophic tier is never queued and never allowed, also
\* after a human allowed similar commands.
BlockedNeverRuns ==
    \A r \in Requests : RiskOf[r] = "blocked" =>
        r \notin pending /\ ~IsAllowed(verdict[r])

\* A learned rule stands for a "similar" decision a human took about a request
\* of that shape: buttons, denials by default and expiry teach nothing.
LearnedFromHuman ==
    \A s \in Shapes : learned[s] # None =>
        \E r \in Requests :
            /\ ShapeOf[r] = s
            /\ outcome[r] = IF learned[s] = "allow" THEN "allow_similar"
                                                   ELSE "block_similar"

\* A call that still has to broadcast the change it made.
OwesNotify(r) ==
    \E c \in Callers : /\ call[c].req = r /\ call[c].entry # "absent"
                       /\ \/ call[c].pc \in {"send", "notify"}
                          \/ call[c].pc = "revoke" /\ call[c].via = "act"

\* A page that has served every broadcast shows every request that waits for an
\* answer, but for one whose handler is just about to broadcast.
PageMissesNothing ==
    stream = "open" /\ ~dirty =>
        \A r \in pending : r \in shown \/ handler[r] = "announce"

\* The only cards such a page may keep of requests that cannot be answered any
\* more are those of requests that expired.
StaleCardsExpired ==
    stream = "open" /\ ~dirty =>
        \A r \in shown \ pending : outcome[r] = "expired" \/ OwesNotify(r)

\* What the agent of each request has been told: an answer counts once it has
\* arrived.
Told == [r \in Requests |-> IF handler[r] = "done" THEN verdict[r] ELSE None]

\* The contract, read off the daemon's state.
Contract == INSTANCE ApprovalContract WITH
    HumanFates <- HumanDecision, AutoFates <- AutoDecision,
    fate <- outcome, receipt <- audit, answer <- Told

\* With a disk that works the daemon implements the approval contract: the fate
\* of a request is settled once, its receipt is written at most once and names
\* the fate, and the agent is told no decision that is not already recorded.
ContractSpec == Contract!Spec

\* No request stays in the queue for ever, whatever happens to its agent.
LeavesQueue == \A r \in Requests : r \in pending ~> r \notin pending

\* A handler that is waiting returns: a decision, its timer or the reaper
\* dropping the sender wakes it, also if the machine sleeps.
HandlerReturns ==
    \A r \in Requests : handler[r] = "wait" ~> handler[r] \in {"done", "gone"}

\* The handler of r has queued it and is past minting its buttons.
ButtonsMinted(r) == r \in pending /\ handler[r] \notin {"announce", "mint_allow", "mint_deny"}

\* A notification button "dies when the request is answered or expires" (README):
\* every button that was minted while its request was still waiting is revoked in
\* the end, whoever answers.  (Buttons minted for a request that has already been
\* answered are the exception: revoke_for ran before they existed.)
ButtonsDie ==
    \A r \in Requests : ButtonsMinted(r) ~> \A g \in grants : g[1] # r

\* Absent crashes, whatever became of a request is eventually in the audit log,
\* except for a decision lost in the hand-off.
EventuallyRecorded ==
    \A r \in Requests : outcome[r] # None ~>
        (audit[r] = <<outcome[r]>> \/ LostInHandoff(r) \/ crashes > 0)

=============================================================================
