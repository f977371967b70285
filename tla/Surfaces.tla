------------------------------ MODULE Surfaces ------------------------------
(***************************************************************************)
(* The approval surfaces, each with its own idea of what is waiting: the   *)
(* page on a phone (approve.html), which follows the event stream and      *)
(* hides what was answered on it; the menu bar (AppDelegate.swift), whose  *)
(* polls run concurrently; and the terminal (approve.rs), which works      *)
(* through a list it fetched once.  The daemon is reduced to its queue:    *)
(* the first answer takes a request out of it (Gate has the details).      *)
(***************************************************************************)
EXTENDS Naturals

CONSTANTS
    Requests,
    Decisions,   \* the answers people give
    Similar,     \* those of them that teach a rule: two taps on the page
    Polls,       \* bound: polls of the menu bar that overlap
    MaxCrashes   \* bound: how often the daemon dies

None == "none"

ASSUME SimilarAssumption == Similar \subseteq Decisions
ASSUME DecisionsAssumption == None \notin Decisions

VARIABLES
    up,        \* the daemon is running
    queue,     \* the requests that wait in it
    outcome,   \* outcome[r]: None, a decision, "expired" or "lost"
    notified,  \* the stream has something to push
    crashes,
    pending,   \* page: what the last push listed
    settled,   \* page: answered here, not yet gone from the queue
    armed,     \* page: the similar button tapped once, [id, decision], or None
    posts,     \* page: requests to decide under way, [id, decision, at]
    menu,      \* menu bar: what the menu shows
    polls,     \* menu bar: polls[i]: how far i is and what it has read
    clicks,    \* menu bar: decisions on their way to the daemon, [id, decision]
    todo,      \* terminal: the fetched requests it has still to ask about
    said       \* terminal: what it printed, [id, decision, word]

daemonVars == <<up, queue, outcome, notified, crashes>>
pageVars == <<pending, settled, armed, posts>>
menuVars == <<menu, polls, clicks>>
termVars == <<todo, said>>
vars == <<daemonVars, pageVars, menuVars, termVars>>

Poll(state, found) == [state |-> state, found |-> found]
Idle == Poll("idle", {})
Started == Poll("started", {})

Init ==
    /\ up = TRUE /\ queue = {} /\ notified = FALSE /\ crashes = 0
    /\ outcome = [r \in Requests |-> None]
    /\ pending = {} /\ settled = {} /\ armed = [id |-> None, decision |-> None]
    /\ posts = {}
    /\ menu = {} /\ polls = [i \in Polls |-> Idle] /\ clicks = {}
    /\ todo = {} /\ said = {}

-----------------------------------------------------------------------------
(***************************************************************************)
(* The daemon.                                                             *)
(***************************************************************************)

\* approve: a request that a human has to answer is inserted and announced.
Submit(r) ==
    /\ up /\ r \notin queue /\ outcome[r] = None
    /\ queue' = queue \cup {r}
    /\ notified' = TRUE
    /\ UNCHANGED <<up, outcome, crashes, pageVars, menuVars, termVars>>

\* Mutant of Handle: the entry is looked up and not removed.
HandleKeeps(r, d) ==
    /\ up
    /\ outcome' = IF r \in queue THEN [outcome EXCEPT ![r] = d] ELSE outcome
    /\ notified' = (notified \/ r \in queue)
    /\ UNCHANGED <<up, queue, crashes>>

\* decide_pending: ok if the request was still waiting.
Handle(r, d) ==
    /\ up
    /\ queue' = queue \ {r}
    /\ outcome' = IF r \in queue THEN [outcome EXCEPT ![r] = d] ELSE outcome
    /\ notified' = (notified \/ r \in queue)
    /\ UNCHANGED <<up, crashes>>

\* reap_at: removed at its time to live, and not announced.
Expire(r) ==
    /\ r \in queue
    /\ queue' = queue \ {r}
    /\ outcome' = [outcome EXCEPT ![r] = "expired"]
    /\ UNCHANGED <<up, notified, crashes, pageVars, menuVars, termVars>>

\* The daemon dies with its queue.
Crash ==
    /\ up /\ crashes < MaxCrashes
    /\ up' = FALSE
    /\ crashes' = crashes + 1
    /\ queue' = {}
    /\ outcome' = [r \in Requests |-> IF r \in queue THEN "lost" ELSE outcome[r]]
    /\ notified' = FALSE
    /\ UNCHANGED <<pageVars, menuVars, termVars>>

\* It is started again; the page's EventSource reconnects and is sent the queue.
Restart ==
    /\ ~up /\ up' = TRUE
    /\ notified' = TRUE
    /\ UNCHANGED <<queue, outcome, crashes, pageVars, menuVars, termVars>>

-----------------------------------------------------------------------------
(***************************************************************************)
(* The page.                                                               *)
(***************************************************************************)

\* The listener of "pending": the queue replaces the page's list, and an id that
\* is gone is no longer remembered as answered.
Push ==
    /\ up /\ notified
    /\ notified' = FALSE
    /\ pending' = queue
    /\ settled' = settled \cap queue
    /\ UNCHANGED <<up, queue, outcome, crashes, armed, posts, menuVars, termVars>>

\* render: the cards with buttons.
Visible == pending \ settled

\* decide: the card is hidden and the answer sent.
Send(r, d) ==
    /\ settled' = settled \cup {r}
    /\ posts' = posts \cup {[id |-> r, decision |-> d, at |-> "sent"]}

\* Allow and Deny.
Tap(r, d) ==
    /\ r \in Visible /\ d \notin Similar
    /\ Send(r, d)
    /\ UNCHANGED <<pending, armed, daemonVars, menuVars, termVars>>

\* similarButton: the first tap arms the button, the second sends.
TapSimilar(r, d) ==
    /\ r \in Visible /\ d \in Similar
    /\ IF armed = [id |-> r, decision |-> d]
       THEN armed' = [id |-> None, decision |-> None] /\ Send(r, d)
       ELSE armed' = [id |-> r, decision |-> d] /\ UNCHANGED <<settled, posts>>
    /\ UNCHANGED <<pending, daemonVars, menuVars, termVars>>

\* The answer reaches the daemon.
Arrive(p) ==
    /\ p.at = "sent"
    /\ Handle(p.id, p.decision)
    /\ posts' = (posts \ {p}) \cup {[p EXCEPT !.at = "handled"]}
    /\ UNCHANGED <<pending, settled, armed, menuVars, termVars>>

\* The response reaches the page.  Its body, which may say ok: false, is not read.
Reply(p) ==
    /\ p.at = "handled"
    /\ posts' = posts \ {p}
    /\ UNCHANGED <<pending, settled, armed, daemonVars, menuVars, termVars>>

\* Mutant of Fail: a failed request is not distinguished from an answered one.
FailSilently(p) ==
    /\ posts' = posts \ {p}
    /\ UNCHANGED <<pending, settled, armed, daemonVars, menuVars, termVars>>

\* The request fails, before or after it was handled: refused, or the connection is
\* lost.  The card comes back.
Fail(p) ==
    /\ posts' = posts \ {p}
    /\ settled' = settled \ {p.id}
    /\ UNCHANGED <<pending, armed, daemonVars, menuVars, termVars>>

-----------------------------------------------------------------------------
(***************************************************************************)
(* The menu bar.                                                           *)
(***************************************************************************)

\* poll, every two seconds and after each decision, on a background queue that runs
\* several at once.
PollStart(i) ==
    /\ polls[i] = Idle
    /\ polls' = [polls EXCEPT ![i] = Started]
    /\ UNCHANGED <<menu, clicks, daemonVars, pageVars, termVars>>

\* The list is read; an unreachable daemon makes it empty.
PollRead(i) ==
    /\ polls[i] = Started
    /\ polls' = [polls EXCEPT ![i] = Poll("read", IF up THEN queue ELSE {})]
    /\ UNCHANGED <<menu, clicks, daemonVars, pageVars, termVars>>

\* Mutant of PollApply: an empty answer leaves the menu as it is.
PollApplyFound(i) ==
    /\ polls[i].state = "read"
    /\ menu' = IF polls[i].found = {} THEN menu ELSE polls[i].found
    /\ polls' = [polls EXCEPT ![i] = Idle]
    /\ UNCHANGED <<clicks, daemonVars, pageVars, termVars>>

\* Back on the main queue the list replaces the menu's, in whatever order the polls
\* come back.
PollApply(i) ==
    /\ polls[i].state = "read"
    /\ menu' = polls[i].found
    /\ polls' = [polls EXCEPT ![i] = Idle]
    /\ UNCHANGED <<clicks, daemonVars, pageVars, termVars>>

\* decide from the menu, on a background queue too: the menu may have changed by the
\* time the decision is sent.
Click(r, d) ==
    /\ r \in menu
    /\ clicks' = clicks \cup {[id |-> r, decision |-> d]}
    /\ UNCHANGED <<menu, polls, daemonVars, pageVars, termVars>>

\* The decision is sent, or fails, which is only logged.  The result is not read.
Deliver(c) ==
    /\ clicks' = clicks \ {c}
    /\ Handle(c.id, c.decision) \/ (~up /\ UNCHANGED daemonVars)
    /\ UNCHANGED <<menu, polls, pageVars, termVars>>

-----------------------------------------------------------------------------
(***************************************************************************)
(* The terminal.                                                           *)
(***************************************************************************)

\* run: the list is fetched once.
Fetch ==
    /\ up /\ todo = {}
    /\ todo' = queue
    /\ UNCHANGED <<said, daemonVars, pageVars, menuVars>>

\* Mutant of Choose: the result of the request is not looked at.
ChooseBlind(r, d) ==
    /\ r \in todo
    /\ Handle(r, d)
    /\ todo' = todo \ {r}
    /\ said' = said \cup {[id |-> r, decision |-> d, word |-> "Recorded"]}
    /\ UNCHANGED <<pageVars, menuVars>>

\* The user is asked about the next one, and its decision is sent and reported.
Choose(r, d) ==
    /\ r \in todo
    /\ Handle(r, d)
    /\ todo' = todo \ {r}
    /\ said' = said \cup {[id |-> r, decision |-> d,
                           word |-> IF r \in queue THEN "Recorded" ELSE "elsewhere"]}
    /\ UNCHANGED <<pageVars, menuVars>>

\* The decision is handled and the answer is lost on its way back: nothing is reported
\* and the command ends.
Unheard(r, d) ==
    /\ r \in todo
    /\ Handle(r, d)
    /\ todo' = {}
    /\ UNCHANGED <<said, pageVars, menuVars>>

\* A request that fails ends the command; the rest of the list is not asked about.
GiveUp ==
    /\ ~up /\ todo # {}
    /\ todo' = {}
    /\ UNCHANGED <<said, daemonVars, pageVars, menuVars>>

Next ==
    \/ \E r \in Requests : Submit(r) \/ Expire(r)
    \/ Crash \/ Restart \/ Push \/ Fetch \/ GiveUp
    \/ \E r \in Requests, d \in Decisions :
          Tap(r, d) \/ TapSimilar(r, d) \/ Click(r, d) \/ Choose(r, d) \/ Unheard(r, d)
    \/ \E p \in posts : Arrive(p) \/ Reply(p) \/ Fail(p)
    \/ \E c \in clicks : Deliver(c)
    \/ \E i \in Polls : PollStart(i) \/ PollRead(i) \/ PollApply(i)

\* The menu bar's timer repeats and its polls finish; requests do not outlive their
\* time to live.
Fairness ==
    /\ \A i \in Polls : WF_vars(PollStart(i)) /\ WF_vars(PollRead(i)) /\ WF_vars(PollApply(i))
    /\ \A r \in Requests : WF_vars(Expire(r))

Spec == Init /\ [][Next]_vars /\ Fairness

-----------------------------------------------------------------------------
TypeOK ==
    /\ up \in BOOLEAN /\ notified \in BOOLEAN
    /\ queue \subseteq {r \in Requests : outcome[r] = None}
    /\ outcome \in [Requests -> Decisions \cup {None, "expired", "lost"}]
    /\ pending \subseteq Requests /\ settled \subseteq Requests
    /\ menu \subseteq Requests /\ todo \subseteq Requests

\* A failed answer is never hidden ("the one failure this page must never hide"): a
\* request that still waits is missing from the page's cards only while an answer to
\* it is on its way, or while the page has not heard of it yet.
NeverHidden ==
    \A r \in settled \cap queue : \E p \in posts : p.id = r

\* The terminal tells the truth although other surfaces and the reaper have worked
\* on the queue since it fetched its list: Recorded names the outcome of the request,
\* and it is printed for one answer only.
TerminalTruthful ==
    \A s \in said :
        IF s.word = "Recorded" THEN outcome[s.id] = s.decision
        ELSE outcome[s.id] # None

\* Stale polls are overtaken: the menu comes to agree with the queue and stays so.
MenuConverges == <>[](menu = queue)

=============================================================================
