--------------------------- MODULE SurfacesProofs ---------------------------
(***************************************************************************)
(* The surfaces tell the truth, for any numbers of requests, answers and   *)
(* overlapping polls.  Each surface works on a list that may be out of     *)
(* date; what saves it is that a request it has ever heard of is in the    *)
(* queue or settled for good, and never comes back.                        *)
(***************************************************************************)
EXTENDS Surfaces, TLAPS

\* Requests a surface may have heard of.
Known == {r \in Requests : r \in queue \/ outcome[r] # None}

PostsType == posts \subseteq [id : Requests, decision : Decisions, at : {"sent", "handled"}]
ClicksType == clicks \subseteq [id : Requests, decision : Decisions]
PollsType ==
    polls \in [Polls -> [state : {"idle", "started", "read"}, found : SUBSET Requests]]
SaidType ==
    said \subseteq [id : Requests, decision : Decisions, word : {"Recorded", "elsewhere"}]

\* What the page and the terminal remember they once saw in the queue.
OnceQueued ==
    /\ pending \subseteq Known /\ settled \subseteq Known /\ todo \subseteq Known
    /\ \A p \in posts : p.id \in Known

\* An answer that the daemon has handled found its request gone or took it out.
HandledIsGone == \A p \in posts : p.at = "handled" => p.id \notin queue

SInv ==
    /\ TypeOK
    /\ PostsType
    /\ ClicksType
    /\ PollsType
    /\ SaidType
    /\ OnceQueued
    /\ HandledIsGone
    /\ NeverHidden
    /\ TerminalTruthful

USE DEF None, daemonVars, pageVars, menuVars, termVars

\* What any step of the daemon or of a surface may do to the queue: bring in a
\* request nobody has heard of, or settle requests that wait.
Moves ==
    /\ up' \in BOOLEAN /\ notified' \in BOOLEAN
    /\ queue' \subseteq {r \in Requests : outcome'[r] = None}
    /\ outcome' \in [Requests -> Decisions \cup {None, "expired", "lost"}]
    /\ \A r \in Requests : r \in queue' => r \in queue \/ r \notin Known
    /\ \A r \in Requests : r \in queue => r \in queue' \/ outcome'[r] # None
    /\ \A r \in Requests : r \notin queue => outcome'[r] = outcome[r]

\* An answer that reaches the daemon settles the request if it still waits.
LEMMA HandleMoves ==
    ASSUME TypeOK, NEW r \in Requests, NEW d \in Decisions, Handle(r, d)
    PROVE  /\ Moves
           /\ r \notin queue'
           /\ r \in queue => outcome'[r] = d
BY DecisionsAssumption DEF TypeOK, Handle, Moves, Known

\* A step of a surface alone leaves the queue as it is.
LEMMA RestMoves ==
    ASSUME TypeOK, UNCHANGED daemonVars
    PROVE  Moves
BY DEF TypeOK, Moves

\* The daemon's own steps bring in requests or settle them.
LEMMA DaemonMoves ==
    ASSUME TypeOK,
           (\E r \in Requests : Submit(r) \/ Expire(r)) \/ Crash \/ Restart \/ Push
    PROVE  Moves
<1>1. ASSUME NEW r \in Requests, Submit(r) PROVE Moves
  BY <1>1 DEF TypeOK, Submit, Moves, Known
<1>2. ASSUME NEW r \in Requests, Expire(r) PROVE Moves
  BY <1>2 DEF TypeOK, Expire, Moves, Known
<1>3. CASE Crash
  BY <1>3 DEF TypeOK, Crash, Moves, Known
<1>4. CASE Restart \/ Push
  BY <1>4 DEF TypeOK, Restart, Push, Moves, Known
<1>q. QED  BY <1>1, <1>2, <1>3, <1>4

\* A request a surface has heard of stays settled, or waits until it is settled.
LEMMA KnownStays ==
    ASSUME TypeOK, Moves
    PROVE  /\ Known \subseteq Known'
           /\ \A r \in Known : r \notin queue => r \notin queue' /\ outcome'[r] = outcome[r]
           /\ queue \subseteq Known
           /\ \A r \in Known : r \in queue' => r \in queue
BY DEF TypeOK, Moves, Known

\* What was once settled is what it was, so what was once said remains true.
LEMMA SaidStaysTrue ==
    ASSUME SInv, Moves, NEW s \in said
    PROVE  IF s.word = "Recorded" THEN outcome'[s.id] = s.decision
           ELSE outcome'[s.id] # None
<1>1. s.id \in Requests /\ s.decision \in Decisions
  BY DEF SInv, SaidType
<1>2. outcome[s.id] # None
  BY <1>1, DecisionsAssumption DEF SInv, TerminalTruthful
<1>3. outcome'[s.id] = outcome[s.id]
  BY <1>1, <1>2 DEF SInv, TypeOK, Moves
<1>q. QED  BY <1>2, <1>3 DEF SInv, TerminalTruthful

\* A step of the daemon, or of another surface, as the page, the menu bar and
\* the terminal live through it.
LEMMA SurfacesIdle ==
    ASSUME SInv, Moves, UNCHANGED <<pageVars, termVars>>,
           menu' \subseteq Requests, ClicksType', PollsType'
    PROVE  SInv'
<1>1. TypeOK'
  BY DEF SInv, TypeOK, Moves
<1>2. PostsType' /\ SaidType'
  BY DEF SInv, PostsType, SaidType
<1>3. OnceQueued'
  BY KnownStays DEF SInv, OnceQueued
<1>4. HandledIsGone'
  <2>. SUFFICES ASSUME NEW p \in posts, p.at = "handled", p.id \in queue' PROVE FALSE
    BY DEF HandledIsGone
  <2>q. QED  BY KnownStays DEF SInv, HandledIsGone, OnceQueued
<1>5. NeverHidden'
  BY KnownStays DEF SInv, NeverHidden, OnceQueued
<1>6. TerminalTruthful'
  BY SaidStaysTrue DEF TerminalTruthful
<1>q. QED  BY <1>1, <1>2, <1>3, <1>4, <1>5, <1>6 DEF SInv

\* The page sends an answer.
LEMMA SendKeeps ==
    ASSUME SInv, NEW r \in Visible, NEW d \in Decisions, Send(r, d),
           UNCHANGED <<pending, daemonVars, menuVars, termVars>>
    PROVE  SInv'
<1>1. r \in Requests /\ r \in Known
  BY DEF SInv, TypeOK, OnceQueued, Visible
<1>. DEFINE new == [id |-> r, decision |-> d, at |-> "sent"]
<1>2. /\ posts' = posts \cup {new} /\ settled' = settled \cup {r}
      /\ new \in [id : Requests, decision : Decisions, at : {"sent", "handled"}]
      /\ new.id = r /\ new.at = "sent"
  BY <1>1 DEF Send
<1>3. Known' = Known
  BY DEF Known
<1>. HIDE DEF new
<1>4. TypeOK' /\ ClicksType' /\ PollsType' /\ SaidType'
  BY <1>1, <1>2 DEF SInv, TypeOK, ClicksType, PollsType, SaidType
<1>5. PostsType'
  BY <1>2 DEF SInv, PostsType
<1>6. OnceQueued'
  BY <1>1, <1>2, <1>3 DEF SInv, OnceQueued
<1>7. HandledIsGone'
  BY <1>2 DEF SInv, HandledIsGone
<1>8. NeverHidden'
  BY <1>2 DEF SInv, NeverHidden
<1>9. TerminalTruthful'
  BY DEF SInv, TerminalTruthful
<1>q. QED  BY <1>4, <1>5, <1>6, <1>7, <1>8, <1>9 DEF SInv

\* The answer is handled.
LEMMA ArriveKeeps ==
    ASSUME SInv, NEW p \in posts, Arrive(p)
    PROVE  SInv'
<1>1. /\ p \in [id : Requests, decision : Decisions, at : {"sent", "handled"}]
      /\ p.id \in Requests /\ p.decision \in Decisions /\ p.id \in Known
  BY DEF SInv, PostsType, OnceQueued
<1>2. Moves /\ p.id \notin queue'
  BY <1>1, HandleMoves DEF SInv, Arrive
<1>. DEFINE now == [p EXCEPT !.at = "handled"]
<1>3. /\ posts' = (posts \ {p}) \cup {now}
      /\ now \in [id : Requests, decision : Decisions, at : {"sent", "handled"}]
      /\ now.id = p.id
      /\ UNCHANGED <<pending, settled, armed, menuVars, termVars>>
  BY <1>1 DEF Arrive
<1>. HIDE DEF now
<1>4. TypeOK'
  BY <1>2, <1>3 DEF SInv, TypeOK, Moves
<1>5. ClicksType' /\ PollsType' /\ SaidType'
  BY <1>3 DEF SInv, ClicksType, PollsType, SaidType
<1>6. PostsType'
  BY <1>3 DEF SInv, PostsType
<1>7. OnceQueued'
  BY <1>1, <1>2, <1>3, KnownStays DEF SInv, OnceQueued
<1>8. HandledIsGone'
  BY <1>2, <1>3, KnownStays DEF SInv, HandledIsGone, OnceQueued
<1>9. NeverHidden'
  BY <1>2, <1>3, KnownStays DEF SInv, NeverHidden, OnceQueued
<1>10. TerminalTruthful'
  BY <1>2, <1>3, SaidStaysTrue DEF TerminalTruthful
<1>q. QED  BY <1>4, <1>5, <1>6, <1>7, <1>8, <1>9, <1>10 DEF SInv

\* The page learns how an answer ended: it forgets it if it was handled, and
\* shows the card again if it failed.
LEMMA ReplyFailKeep ==
    ASSUME SInv, NEW p \in posts, Reply(p) \/ Fail(p)
    PROVE  SInv'
<1>1. /\ posts' = posts \ {p}
      /\ settled' \subseteq settled
      /\ p.id \in settled' => p.id \notin queue
      /\ UNCHANGED <<pending, armed, daemonVars, menuVars, termVars>>
  BY DEF SInv, HandledIsGone, Reply, Fail
<1>2. Known' = Known
  BY <1>1 DEF Known
<1>3. TypeOK' /\ ClicksType' /\ PollsType' /\ SaidType' /\ PostsType'
  BY <1>1 DEF SInv, TypeOK, ClicksType, PollsType, SaidType, PostsType
<1>4. OnceQueued' /\ HandledIsGone'
  BY <1>1, <1>2 DEF SInv, OnceQueued, HandledIsGone
<1>5. NeverHidden'
  BY <1>1 DEF SInv, NeverHidden
<1>6. TerminalTruthful'
  BY <1>1 DEF SInv, TerminalTruthful
<1>q. QED  BY <1>3, <1>4, <1>5, <1>6 DEF SInv

\* The page is sent the queue.
LEMMA PushKeeps ==
    ASSUME SInv, Push
    PROVE  SInv'
<1>1. /\ pending' = queue /\ settled' = settled \cap queue
      /\ UNCHANGED <<up, queue, outcome, crashes, armed, posts, menuVars, termVars>>
      /\ notified' \in BOOLEAN
  BY DEF Push
<1>2. Known' = Known /\ queue \subseteq Known
  BY <1>1 DEF SInv, TypeOK, Known
<1>q. QED
  BY <1>1, <1>2 DEF SInv, TypeOK, ClicksType, PollsType, SaidType, PostsType, OnceQueued,
     HandledIsGone, NeverHidden, TerminalTruthful

\* The terminal fetches its list, or gives it up.
LEMMA ListKeeps ==
    ASSUME SInv, Fetch \/ GiveUp
    PROVE  SInv'
<1>1. todo' \subseteq queue /\ UNCHANGED <<said, daemonVars, pageVars, menuVars>>
  BY DEF Fetch, GiveUp
<1>2. Known' = Known /\ queue \subseteq Known
  BY <1>1 DEF SInv, TypeOK, Known
<1>q. QED
  BY <1>1, <1>2 DEF SInv, TypeOK, ClicksType, PollsType, SaidType, PostsType, OnceQueued,
     HandledIsGone, NeverHidden, TerminalTruthful

\* The terminal sends one decision and reports it.
LEMMA ChooseKeeps ==
    ASSUME SInv, NEW r \in Requests, NEW d \in Decisions, Choose(r, d)
    PROVE  SInv'
<1>. DEFINE word == IF r \in queue THEN "Recorded" ELSE "elsewhere"
            new == [id |-> r, decision |-> d, word |-> word]
<1>1. Moves /\ (r \in queue => outcome'[r] = d)
  BY HandleMoves DEF SInv, Choose
<1>2. /\ r \in todo /\ todo' \subseteq todo /\ said' = said \cup {new}
      /\ UNCHANGED <<pageVars, menuVars>>
  BY DEF Choose
<1>3. /\ new \in [id : Requests, decision : Decisions, word : {"Recorded", "elsewhere"}]
      /\ new.id = r /\ new.decision = d /\ new.word = word
  OBVIOUS
<1>. HIDE DEF new
<1>4. IF new.word = "Recorded" THEN outcome'[new.id] = new.decision
      ELSE outcome'[new.id] # None
  <2>1. CASE r \in queue
    BY <1>1, <1>3, <2>1
  <2>2. CASE r \notin queue
    <3>1. r \in Known /\ outcome[r] # None
      BY <1>2, <2>2 DEF SInv, OnceQueued, Known
    <3>q. QED  BY <1>1, <1>3, <2>2, <3>1, KnownStays DEF SInv
  <2>q. QED  BY <2>1, <2>2
<1>5. TypeOK'
  BY <1>1, <1>2 DEF SInv, TypeOK, Moves
<1>6. PostsType' /\ ClicksType' /\ PollsType'
  BY <1>2 DEF SInv, ClicksType, PollsType, PostsType
<1>7. SaidType'
  BY <1>2, <1>3 DEF SInv, SaidType
<1>8. OnceQueued'
  BY <1>1, <1>2, KnownStays DEF SInv, OnceQueued
<1>9. HandledIsGone' /\ NeverHidden'
  BY <1>1, <1>2, KnownStays DEF SInv, HandledIsGone, NeverHidden, OnceQueued
<1>10. TerminalTruthful'
  BY <1>1, <1>2, <1>4, SaidStaysTrue DEF TerminalTruthful
<1>q. QED  BY <1>5, <1>6, <1>7, <1>8, <1>9, <1>10 DEF SInv

\* The terminal's decision is handled and its answer is lost.
LEMMA UnheardKeeps ==
    ASSUME SInv, NEW r \in Requests, NEW d \in Decisions, Unheard(r, d)
    PROVE  SInv'
<1>1. Moves
  BY HandleMoves DEF SInv, Unheard
<1>2. todo' \subseteq todo /\ UNCHANGED <<said, pageVars, menuVars>>
  BY DEF Unheard
<1>3. TypeOK'
  BY <1>1, <1>2 DEF SInv, TypeOK, Moves
<1>4. PostsType' /\ ClicksType' /\ PollsType' /\ SaidType'
  BY <1>2 DEF SInv, ClicksType, PollsType, PostsType, SaidType
<1>5. OnceQueued'
  BY <1>1, <1>2, KnownStays DEF SInv, OnceQueued
<1>6. HandledIsGone' /\ NeverHidden'
  BY <1>1, <1>2, KnownStays DEF SInv, HandledIsGone, NeverHidden, OnceQueued
<1>7. TerminalTruthful'
  BY <1>1, <1>2, SaidStaysTrue DEF TerminalTruthful
<1>q. QED  BY <1>3, <1>4, <1>5, <1>6, <1>7 DEF SInv

\* The menu bar: overlapping polls and clicks, which concern only its own list.
LEMMA MenuKeeps ==
    ASSUME SInv,
           \/ \E i \in Polls : PollStart(i) \/ PollRead(i) \/ PollApply(i)
           \/ \E r \in Requests, d \in Decisions : Click(r, d)
           \/ \E c \in clicks : Deliver(c)
    PROVE  SInv'
<1>1. ASSUME NEW i \in Polls, PollStart(i) \/ PollRead(i) \/ PollApply(i)
      PROVE  SInv'
  <2>1. /\ UNCHANGED <<clicks, daemonVars, pageVars, termVars>>
        /\ menu' \subseteq Requests
    BY <1>1 DEF SInv, TypeOK, PollsType, PollStart, PollRead, PollApply
  <2>2. PollsType'
    BY <1>1 DEF SInv, TypeOK, PollsType, PollStart, PollRead, PollApply, Poll, Idle, Started
  <2>q. QED  BY <2>1, <2>2, RestMoves, SurfacesIdle DEF SInv, ClicksType
<1>2. ASSUME NEW r \in Requests, NEW d \in Decisions, Click(r, d)
      PROVE  SInv'
  <2>1. /\ UNCHANGED <<menu, polls, daemonVars, pageVars, termVars>>
        /\ ClicksType'
    BY <1>2 DEF SInv, ClicksType, Click
  <2>q. QED  BY <2>1, RestMoves, SurfacesIdle DEF SInv, TypeOK, PollsType
<1>3. ASSUME NEW c \in clicks, Deliver(c)
      PROVE  SInv'
  <2>1. c.id \in Requests /\ c.decision \in Decisions
    BY DEF SInv, ClicksType
  <2>2. /\ UNCHANGED <<menu, polls, pageVars, termVars>>
        /\ ClicksType'
    BY <1>3 DEF SInv, ClicksType, Deliver
  <2>3. Moves
    BY <1>3, <2>1, HandleMoves, RestMoves DEF SInv, Deliver
  <2>q. QED  BY <2>2, <2>3, SurfacesIdle DEF SInv, TypeOK, PollsType
<1>q. QED  BY <1>1, <1>2, <1>3

\* The invariant holds before any surface has polled.
LEMMA InitSurfaces == Init => SInv
<1>. SUFFICES ASSUME Init PROVE SInv
  OBVIOUS
<1>1. TypeOK /\ PostsType /\ ClicksType /\ SaidType
  BY DEF Init, TypeOK, PostsType, ClicksType, SaidType
<1>2. PollsType
  BY DEF Init, PollsType, Idle, Poll
<1>3. OnceQueued /\ HandledIsGone /\ NeverHidden /\ TerminalTruthful
  BY DEF Init, OnceQueued, HandledIsGone, NeverHidden, TerminalTruthful
<1>q. QED  BY <1>1, <1>2, <1>3 DEF SInv

\* Every step of the daemon or of a surface keeps the invariant.
LEMMA NextSurfaces == SInv /\ [Next]_vars => SInv'
<1>. SUFFICES ASSUME SInv, [Next]_vars PROVE SInv'
  OBVIOUS
<1>1. CASE (\E r \in Requests : Submit(r) \/ Expire(r)) \/ Crash \/ Restart
  <2>1. UNCHANGED <<pageVars, menuVars, termVars>>
    BY <1>1 DEF Submit, Expire, Crash, Restart
  <2>2. Moves
    BY <1>1, DaemonMoves DEF SInv
  <2>q. QED  BY <2>1, <2>2, SurfacesIdle DEF SInv, TypeOK, ClicksType, PollsType
<1>2. ASSUME NEW r \in Requests, NEW d \in Decisions, Tap(r, d)
      PROVE  SInv'
  BY <1>2, SendKeeps DEF Tap
<1>3. ASSUME NEW r \in Requests, NEW d \in Decisions, TapSimilar(r, d)
      PROVE  SInv'
  <2>1. CASE Send(r, d)
    BY <1>3, <2>1, SendKeeps DEF TapSimilar
  <2>2. CASE UNCHANGED <<settled, posts>>
    <3>1. UNCHANGED <<pending, settled, posts, daemonVars, menuVars, termVars>>
      BY <1>3, <2>2 DEF TapSimilar
    <3>2. Known' = Known
      BY <3>1 DEF Known
    <3>q. QED
      BY <3>1, <3>2 DEF SInv, TypeOK, ClicksType, PollsType, SaidType, PostsType, OnceQueued,
         HandledIsGone, NeverHidden, TerminalTruthful
  <2>q. QED  BY <1>3, <2>1, <2>2 DEF TapSimilar
<1>4. CASE UNCHANGED vars
  BY <1>4, RestMoves, SurfacesIdle DEF SInv, TypeOK, ClicksType, PollsType, vars
<1>q. QED
  BY <1>1, <1>2, <1>3, <1>4, PushKeeps, ListKeeps, ChooseKeeps, UnheardKeeps,
     ArriveKeeps, ReplyFailKeep, MenuKeeps DEF Next

\* What the surfaces remember stays consistent with the queue.
THEOREM SurfacesInvariant == Spec => []SInv
BY InitSurfaces, NextSurfaces, PTL DEF Spec

\* The surfaces' variables keep their types, and the queue holds only requests
\* nobody has settled.
THEOREM SurfacesTypes == Spec => []TypeOK
BY SurfacesInvariant, PTL DEF SInv

\* The page never hides a failed answer: a request that waits and has no card has
\* an answer under way, whatever the other surfaces, the reaper and crashes do.
THEOREM NothingHidden == Spec => []NeverHidden
BY SurfacesInvariant, PTL DEF SInv

\* The terminal reports Recorded only for the decision that became the outcome.
THEOREM TerminalTellsTheTruth == Spec => []TerminalTruthful
BY SurfacesInvariant, PTL DEF SInv

=============================================================================
