----------------------------- MODULE GateProofs -----------------------------
(***************************************************************************)
(* Safety of the daemon for any number of requests and callers, any wait   *)
(* and time to live, any sequence of crashes and disk errors.              *)
(*                                                                         *)
(* The argument is one of ownership.  Whoever takes a request's entry out  *)
(* of the queue fixes its outcome; from then on at most one of the         *)
(* handler, the caller and the reaper has the right to write its receipt.  *)
(* The channel passes that right from the caller to the handler: a caller  *)
(* keeps it exactly when its send failed.                                  *)
(*                                                                         *)
(* The second part shows that the daemon implements ApprovalContract, the  *)
(* third that nothing goes missing: receipts, cards, learned rules.        *)
(***************************************************************************)
EXTENDS Gate, TLAPS

\* What a call in progress knows about itself.
CallsWellFormed ==
    \A c \in Callers :
        /\ call[c].pc = "idle" => call[c].entry = "absent"
        /\ call[c].pc # "idle" => /\ call[c].req \in Requests
                                  /\ call[c].dec \in HumanDecision
        /\ call[c].pc \in {"notify", "learn", "record"} =>
              call[c].entry \in {"delivered", "undelivered"}
        /\ call[c].pc = "press" => call[c].entry = "absent" /\ call[c].via = "act"
        /\ call[c].pc = "send" <=> call[c].entry = "held"
        /\ call[c].pc = "revoke" /\ call[c].entry = "absent" => call[c].via = "act"
        /\ call[c].pc = "record" => call[c].entry = "undelivered"

\* A handler that has not inserted its request yet.
Fresh ==
    \A r \in Requests : handler[r] \in {"new", "insert"} =>
        outcome[r] = None /\ r \notin pending /\ chan[r] = "none"

\* While a request is open nobody holds it and nothing has been said about it.
Unsettled ==
    \A r \in Requests : outcome[r] = None =>
        /\ audit[r] = <<>>
        /\ chan[r] \in {"none", "open", "closed"}
        /\ handler[r] # "record"
        /\ r \notin sweep /\ reaping # r
        /\ \A c \in Callers : call[c].entry # "absent" => call[c].req # r

\* The queue holds open requests only.
QueueOpen == \A r \in pending : outcome[r] = None

\* At most one call holds, or has sent, a request's entry.
OneHolder ==
    \A c, d \in Callers :
        call[c].entry # "absent" /\ call[d].entry # "absent" /\ call[c].req = call[d].req
            => c = d

\* The caller that took an entry: its decision is the outcome, and until its
\* send succeeds the receipt is its to write.
Owns(c, r) ==
    /\ outcome[r] = call[c].dec
    /\ call[c].entry # "delivered" =>
          audit[r] = <<>> /\ chan[r] \notin HumanDecision /\ handler[r] # "record"
    /\ call[c].entry = "undelivered" => chan[r] # "open"
CallerOwns == \A c \in Callers : call[c].entry # "absent" => Owns(c, call[c].req)

\* A decision in the channel is the outcome; a handler that may still take it
\* out has yet to write the receipt.
ChannelCarries ==
    \A r \in Requests : chan[r] \in HumanDecision =>
        /\ outcome[r] = chan[r]
        /\ handler[r] \in {"announce", "mint_allow", "mint_deny", "wait"} => audit[r] = <<>>

\* A handler about to record owns the receipt: policy decided, or the decision
\* came through its channel.
HandlerOwns ==
    \A r \in Requests : handler[r] = "record" =>
        /\ verdict[r] = outcome[r]
        /\ verdict[r] \in AutoDecision \/ (verdict[r] \in HumanDecision /\ chan[r] = verdict[r])
        /\ audit[r] = <<>>

\* The reaper owns the receipts of what it removed.
ReaperOwns ==
    /\ reaping \notin sweep
    /\ \A r \in Requests : r \in sweep \/ reaping = r =>
          outcome[r] = "expired" /\ audit[r] = <<>>

\* What an answered handler said, and had recorded if the disk works.
Answered ==
    \A r \in Requests :
        handler[r] \in {"respond", "done"} /\ verdict[r] # "no_decision_yet" =>
            /\ verdict[r] = outcome[r] /\ verdict[r] # None
            /\ DiskWorks => audit[r] = <<verdict[r]>>

IInv ==
    /\ TypeOK
    /\ CallsWellFormed
    /\ Fresh
    /\ Unsettled
    /\ QueueOpen
    /\ OneHolder
    /\ CallerOwns
    /\ ChannelCarries
    /\ HandlerOwns
    /\ ReaperOwns
    /\ ReceiptIsOutcome
    /\ Answered

USE DEF None, HumanDecision, AutoDecision, Receipt, Answer, HandlerPc, ChanState,
        Idle, clockVars, reaperVars, diskVars, pageVars, At, GoTo, Serving

\* What Proceed does to the calls.
LEMMA Proceeds ==
    ASSUME call \in [Callers -> CallType], NEW c \in Callers, NEW pc \in CallerPc,
           Proceed(c, pc)
    PROVE  /\ call' \in [Callers -> CallType]
           /\ \A d \in Callers : d # c => call'[d] = call[d]
           /\ call'[c].pc = pc
           /\ pc = "idle" => call'[c].entry = "absent"
           /\ pc # "idle" => /\ call'[c].req = call[c].req /\ call'[c].dec = call[c].dec
                             /\ call'[c].via = call[c].via /\ call'[c].entry = call[c].entry
<1>1. CASE pc = "idle"
  BY <1>1 DEF Proceed, CallType, EntryState
<1>2. CASE pc # "idle"
  BY <1>2 DEF Proceed, CallType
<1>q. QED  BY <1>1, <1>2

\* An insert into an empty log either leaves it empty, which a working disk
\* does not do, or makes it the log of that one row; other logs stay.
LEMMA AuditWritten ==
    ASSUME TypeOK, NEW r \in Requests, NEW d \in Receipt,
           AuditInsert(r, d), audit[r] = <<>>
    PROVE  /\ audit' \in [Requests -> Seq(Receipt)]
           /\ audit'[r] = <<>> \/ audit'[r] = <<d>>
           /\ DiskWorks => audit'[r] = <<d>>
           /\ \A q \in Requests : q # r => audit'[q] = audit[q]
<1>1. PICK ok \in DiskOutcomes :
          audit' = IF ok THEN [audit EXCEPT ![r] = Append(@, d)] ELSE audit
  BY DEF AuditInsert
<1>2. DiskWorks => ok = TRUE
  BY Zenon DEF DiskWorks
<1>3. Append(<<>>, d) = <<d>> /\ <<d>> \in Seq(Receipt)
  OBVIOUS
<1>q. QED  BY <1>1, <1>2, <1>3 DEF TypeOK

\* approve up to the policy's verdict
LEMMA ApproveStep ==
    ASSUME IInv, NEW r \in Requests, Approve(r)
    PROVE  IInv'
<1>1. TypeOK'
  BY DEF IInv, TypeOK, Approve
<1>2. Fresh'
  BY DEF IInv, TypeOK, Fresh, Approve
<1>3. Unsettled'
  BY DEF IInv, TypeOK, Unsettled, Fresh, Approve
<1>4. QueueOpen'
  BY DEF IInv, TypeOK, QueueOpen, Fresh, Approve
<1>5. CallerOwns'
  <2>. SUFFICES ASSUME NEW k \in Callers, call[k].entry # "absent"
                PROVE  Owns(k, call[k].req)'
    BY DEF CallerOwns, Approve
  <2>1. /\ call[k].req \in Requests /\ call[k].dec \in HumanDecision
        /\ Owns(k, call[k].req) /\ call' = call
    BY DEF IInv, CallsWellFormed, CallerOwns, Approve
  <2>2. CASE call[k].req = r
    BY <2>1, <2>2 DEF IInv, TypeOK, Owns, Fresh, Unsettled, Approve
  <2>3. CASE call[k].req # r
    BY <2>1, <2>3 DEF IInv, TypeOK, Owns, Approve
  <2>q. QED  BY <2>2, <2>3
<1>6. ChannelCarries'
  BY DEF IInv, TypeOK, ChannelCarries, Fresh, Approve
<1>7. HandlerOwns'
  BY DEF IInv, TypeOK, HandlerOwns, Fresh, Unsettled, Approve
<1>8. ReaperOwns'
  BY DEF IInv, TypeOK, ReaperOwns, Fresh, Unsettled, Approve
<1>9. ReceiptIsOutcome'
  BY DEF IInv, TypeOK, ReceiptIsOutcome, Fresh, Unsettled, Approve
<1>10. Answered'
  BY DEF IInv, TypeOK, Answered, Fresh, Approve
<1>11. CallsWellFormed' /\ OneHolder'
  BY DEF IInv, CallsWellFormed, OneHolder, Approve
<1>q. QED  BY <1>1, <1>2, <1>3, <1>4, <1>5, <1>6, <1>7, <1>8, <1>9, <1>10, <1>11 DEF IInv

\* pending.insert
LEMMA InsertStep ==
    ASSUME IInv, NEW r \in Requests, Insert(r)
    PROVE  IInv'
<1>1. TypeOK'
  BY DEF IInv, TypeOK, Insert
<1>2. Fresh'
  BY DEF IInv, TypeOK, Fresh, Insert
<1>3. Unsettled'
  BY DEF IInv, TypeOK, Unsettled, Fresh, Insert
<1>4. QueueOpen'
  BY DEF IInv, TypeOK, QueueOpen, Fresh, Insert
<1>5. CallerOwns'
  BY DEF IInv, TypeOK, CallerOwns, Owns, Fresh, Unsettled, CallsWellFormed, Insert
<1>6. ChannelCarries'
  BY DEF IInv, TypeOK, ChannelCarries, Insert
<1>7. HandlerOwns'
  BY DEF IInv, TypeOK, HandlerOwns, Insert
<1>8. Answered'
  BY DEF IInv, TypeOK, Answered, Insert
<1>9.   /\ CallsWellFormed'
      /\ OneHolder'
      /\ ReaperOwns'
      /\ ReceiptIsOutcome'
  BY DEF IInv, CallsWellFormed, OneHolder, ReaperOwns, ReceiptIsOutcome, Insert
<1>q. QED  BY <1>1, <1>2, <1>3, <1>4, <1>5, <1>6, <1>7, <1>8, <1>9 DEF IInv

\* notify_change and spawn_for
LEMMA AnnounceStep ==
    ASSUME IInv, NEW r \in Requests, Announce(r)
    PROVE  IInv'
<1>1. TypeOK'
  BY DEF IInv, TypeOK, Announce, NotifyChange
<1>2. Fresh'
  BY DEF IInv, TypeOK, Fresh, Announce, NotifyChange
<1>3. Unsettled'
  BY DEF IInv, TypeOK, Unsettled, Announce, NotifyChange
<1>4. CallerOwns'
  BY DEF IInv, TypeOK, CallerOwns, Owns, CallsWellFormed, Announce, NotifyChange
<1>5. ChannelCarries'
  BY DEF IInv, TypeOK, ChannelCarries, Announce, NotifyChange
<1>6. HandlerOwns'
  BY DEF IInv, TypeOK, HandlerOwns, Announce, NotifyChange
<1>7. Answered'
  BY DEF IInv, TypeOK, Answered, Announce, NotifyChange
<1>8.   /\ CallsWellFormed'
      /\ QueueOpen'
      /\ OneHolder'
      /\ ReaperOwns'
      /\ ReceiptIsOutcome'
  BY DEF IInv, CallsWellFormed, QueueOpen, OneHolder, ReaperOwns, ReceiptIsOutcome,
     Announce, NotifyChange
<1>q. QED  BY <1>1, <1>2, <1>3, <1>4, <1>5, <1>6, <1>7, <1>8 DEF IInv

\* build_publish
LEMMA MintStep ==
    ASSUME IInv, NEW r \in Requests, Mint(r)
    PROVE  IInv'
<1>1. TypeOK'
  <2>1. grants' \subseteq Requests \X {"allow_once", "deny_once"}
    BY DEF IInv, TypeOK, Mint
  <2>2. handler' \in [Requests -> HandlerPc]
    BY DEF IInv, TypeOK, Mint
  <2>q. QED  BY <2>1, <2>2 DEF IInv, TypeOK, Mint
<1>2. Fresh'
  BY DEF IInv, TypeOK, Fresh, Mint
<1>3. Unsettled'
  BY DEF IInv, TypeOK, Unsettled, Mint
<1>4. CallerOwns'
  <2>. SUFFICES ASSUME NEW k \in Callers, call[k].entry # "absent"
                PROVE  Owns(k, call[k].req)'
    BY DEF CallerOwns, Mint
  <2>1. /\ call[k].req \in Requests /\ call[k].dec \in HumanDecision
        /\ Owns(k, call[k].req) /\ call' = call
    BY DEF IInv, CallsWellFormed, CallerOwns, Mint
  <2>2. CASE call[k].req = r
    BY <2>1, <2>2 DEF IInv, TypeOK, Owns, Mint
  <2>3. CASE call[k].req # r
    BY <2>1, <2>3 DEF IInv, TypeOK, Owns, Mint
  <2>q. QED  BY <2>2, <2>3
<1>5. ChannelCarries'
  BY DEF IInv, TypeOK, ChannelCarries, Mint
<1>6. HandlerOwns'
  BY DEF IInv, TypeOK, HandlerOwns, Mint
<1>7. Answered'
  BY DEF IInv, TypeOK, Answered, Mint
<1>8.   /\ CallsWellFormed'
      /\ QueueOpen'
      /\ OneHolder'
      /\ ReaperOwns'
      /\ ReceiptIsOutcome'
  BY DEF IInv, CallsWellFormed, QueueOpen, OneHolder, ReaperOwns, ReceiptIsOutcome, Mint
<1>q. QED  BY <1>1, <1>2, <1>3, <1>4, <1>5, <1>6, <1>7, <1>8 DEF IInv

\* the receiver resolves
LEMMA WakeStep ==
    ASSUME IInv, NEW r \in Requests, Wake(r)
    PROVE  IInv'
<1>1. TypeOK'
  BY DEF IInv, TypeOK, Wake
<1>2. Fresh'
  BY DEF IInv, TypeOK, Fresh, Wake
<1>3. Unsettled'
  BY DEF IInv, TypeOK, Unsettled, Wake
<1>4. CallerOwns'
  <2>. SUFFICES ASSUME NEW k \in Callers, call[k].entry # "absent"
                PROVE  Owns(k, call[k].req)'
    BY DEF CallerOwns, Wake
  <2>1. /\ call[k].req \in Requests /\ call[k].dec \in HumanDecision
        /\ Owns(k, call[k].req) /\ call' = call
    BY DEF IInv, CallsWellFormed, CallerOwns, Wake
  <2>2. CASE call[k].req = r
    BY <2>1, <2>2 DEF IInv, TypeOK, Owns, Wake
  <2>3. CASE call[k].req # r
    BY <2>1, <2>3 DEF IInv, TypeOK, Owns, Wake
  <2>q. QED  BY <2>2, <2>3
<1>5. ChannelCarries'
  BY DEF IInv, TypeOK, ChannelCarries, Wake
<1>6. HandlerOwns'
  BY DEF IInv, TypeOK, HandlerOwns, ChannelCarries, Wake
<1>7. Answered'
  <2>. SUFFICES ASSUME NEW q \in Requests, handler'[q] \in {"respond", "done"},
                      verdict'[q] # "no_decision_yet"
                PROVE  /\ verdict'[q] = outcome'[q] /\ verdict'[q] # None
                       /\ DiskWorks => audit'[q] = <<verdict'[q]>>
    BY DEF Answered
  <2>1. q # r
    BY DEF IInv, TypeOK, Wake
  <2>2. handler'[q] = handler[q] /\ verdict'[q] = verdict[q]
    BY <2>1 DEF IInv, TypeOK, Wake
  <2>q. QED  BY <2>2 DEF IInv, Answered, Wake
<1>8.   /\ CallsWellFormed'
      /\ QueueOpen'
      /\ OneHolder'
      /\ ReaperOwns'
      /\ ReceiptIsOutcome'
  BY DEF IInv, CallsWellFormed, QueueOpen, OneHolder, ReaperOwns, ReceiptIsOutcome, Wake
<1>q. QED  BY <1>1, <1>2, <1>3, <1>4, <1>5, <1>6, <1>7, <1>8 DEF IInv

\* the timer fires
LEMMA ElapseStep ==
    ASSUME IInv, NEW r \in Requests, Elapse(r)
    PROVE  IInv'
<1>1. TypeOK'
  BY DEF IInv, TypeOK, Elapse
<1>2. Fresh'
  BY DEF IInv, TypeOK, Fresh, Elapse
<1>3. Unsettled'
  BY DEF IInv, TypeOK, Unsettled, Elapse
<1>4. CallerOwns'
  BY DEF IInv, TypeOK, CallerOwns, Owns, CallsWellFormed, Elapse
<1>5. ChannelCarries'
  BY DEF IInv, TypeOK, ChannelCarries, Elapse
<1>6. HandlerOwns'
  BY DEF IInv, TypeOK, HandlerOwns, Elapse
<1>7. Answered'
  BY DEF IInv, TypeOK, Answered, Elapse
<1>8.   /\ CallsWellFormed'
      /\ QueueOpen'
      /\ OneHolder'
      /\ ReaperOwns'
      /\ ReceiptIsOutcome'
  BY DEF IInv, CallsWellFormed, QueueOpen, OneHolder, ReaperOwns, ReceiptIsOutcome,
     Elapse
<1>q. QED  BY <1>1, <1>2, <1>3, <1>4, <1>5, <1>6, <1>7, <1>8 DEF IInv

\* the receiver is dropped
LEMMA GiveUpStep ==
    ASSUME IInv, NEW r \in Requests, GiveUp(r)
    PROVE  IInv'
<1>1. TypeOK'
  BY DEF IInv, TypeOK, GiveUp, DropReceiver
<1>2. Fresh'
  BY DEF IInv, TypeOK, Fresh, GiveUp, DropReceiver
<1>3. Unsettled'
  BY DEF IInv, TypeOK, Unsettled, GiveUp, DropReceiver
<1>4. CallerOwns'
  BY DEF IInv, TypeOK, CallerOwns, Owns, CallsWellFormed, GiveUp, DropReceiver
<1>5. ChannelCarries'
  BY DEF IInv, TypeOK, ChannelCarries, GiveUp, DropReceiver
<1>6. HandlerOwns'
  BY DEF IInv, TypeOK, HandlerOwns, GiveUp, DropReceiver
<1>7. Answered'
  BY DEF IInv, TypeOK, Answered, GiveUp, DropReceiver
<1>8.   /\ CallsWellFormed'
      /\ QueueOpen'
      /\ OneHolder'
      /\ ReaperOwns'
      /\ ReceiptIsOutcome'
  BY DEF IInv, CallsWellFormed, QueueOpen, OneHolder, ReaperOwns, ReceiptIsOutcome,
     GiveUp, DropReceiver
<1>q. QED  BY <1>1, <1>2, <1>3, <1>4, <1>5, <1>6, <1>7, <1>8 DEF IInv

\* the handler is cancelled
LEMMA DisconnectStep ==
    ASSUME IInv, NEW r \in Requests, Disconnect(r)
    PROVE  IInv'
<1>1. TypeOK'
  BY DEF IInv, TypeOK, Disconnect, DropReceiver
<1>2. Fresh'
  BY DEF IInv, TypeOK, Fresh, Disconnect, DropReceiver
<1>3. Unsettled'
  BY DEF IInv, TypeOK, Unsettled, Disconnect, DropReceiver
<1>4. CallerOwns'
  BY DEF IInv, TypeOK, CallerOwns, Owns, CallsWellFormed, Disconnect, DropReceiver
<1>5. ChannelCarries'
  BY DEF IInv, TypeOK, ChannelCarries, Disconnect, DropReceiver
<1>6. HandlerOwns'
  BY DEF IInv, TypeOK, HandlerOwns, Disconnect, DropReceiver
<1>7. Answered'
  BY DEF IInv, TypeOK, Answered, Disconnect, DropReceiver
<1>8.   /\ CallsWellFormed'
      /\ QueueOpen'
      /\ OneHolder'
      /\ ReaperOwns'
      /\ ReceiptIsOutcome'
  BY DEF IInv, CallsWellFormed, QueueOpen, OneHolder, ReaperOwns, ReceiptIsOutcome,
     Disconnect, DropReceiver
<1>q. QED  BY <1>1, <1>2, <1>3, <1>4, <1>5, <1>6, <1>7, <1>8 DEF IInv

\* the handler's audit insert
LEMMA RecordStep ==
    ASSUME IInv, NEW r \in Requests, Record(r)
    PROVE  IInv'
<1>a. handler[r] = "record" /\ verdict[r] \in Receipt /\ audit[r] = <<>>
  BY DEF IInv, TypeOK, HandlerOwns, Record
<1>b. /\ audit' \in [Requests -> Seq(Receipt)]
      /\ audit'[r] = <<>> \/ audit'[r] = <<verdict[r]>>
      /\ DiskWorks => audit'[r] = <<verdict[r]>>
      /\ \A q \in Requests : q # r => audit'[q] = audit[q]
  BY <1>a, AuditWritten DEF IInv, Record
<1>1. TypeOK'
  BY <1>a, <1>b DEF IInv, TypeOK, HandlerOwns, Record
<1>2. Fresh'
  BY <1>a, <1>b DEF IInv, TypeOK, Fresh, Record
<1>3. Unsettled'
  BY <1>a, <1>b DEF IInv, TypeOK, Unsettled, HandlerOwns, Record
<1>4. CallerOwns'
  <2>. SUFFICES ASSUME NEW k \in Callers, call[k].entry # "absent"
                PROVE  Owns(k, call[k].req)'
    BY DEF CallerOwns, Record
  <2>1. /\ call[k].req \in Requests /\ call[k].dec \in HumanDecision
        /\ Owns(k, call[k].req) /\ call' = call
    BY DEF IInv, CallsWellFormed, CallerOwns, Record
  <2>2. CASE call[k].req = r
    BY <1>a, <1>b, <2>1, <2>2 DEF IInv, TypeOK, Owns, Record
  <2>3. CASE call[k].req # r
    BY <1>a, <1>b, <2>1, <2>3 DEF IInv, TypeOK, Owns, Record
  <2>q. QED  BY <2>2, <2>3
<1>5. ChannelCarries'
  BY <1>a, <1>b DEF IInv, TypeOK, ChannelCarries, Record
<1>6. HandlerOwns'
  BY <1>a, <1>b DEF IInv, TypeOK, HandlerOwns, Record
<1>7. ReaperOwns'
  BY <1>a, <1>b DEF IInv, TypeOK, ReaperOwns, HandlerOwns, Record
<1>8. ReceiptIsOutcome'
  BY <1>a, <1>b DEF IInv, TypeOK, ReceiptIsOutcome, HandlerOwns, Record
<1>9. Answered'
  BY <1>a, <1>b DEF IInv, TypeOK, Answered, HandlerOwns, Record
<1>10. CallsWellFormed' /\ QueueOpen' /\ OneHolder'
  BY DEF IInv, CallsWellFormed, QueueOpen, OneHolder, Record
<1>q. QED  BY <1>1, <1>2, <1>3, <1>4, <1>5, <1>6, <1>7, <1>8, <1>9, <1>10 DEF IInv

\* the answer
LEMMA RespondStep ==
    ASSUME IInv, NEW r \in Requests, Respond(r)
    PROVE  IInv'
<1>1. TypeOK'
  BY DEF IInv, TypeOK, Respond
<1>2. Fresh'
  BY DEF IInv, TypeOK, Fresh, Respond
<1>3. Unsettled'
  BY DEF IInv, TypeOK, Unsettled, Respond
<1>4. CallerOwns'
  BY DEF IInv, TypeOK, CallerOwns, Owns, CallsWellFormed, Respond
<1>5. ChannelCarries'
  BY DEF IInv, TypeOK, ChannelCarries, Respond
<1>6. HandlerOwns'
  BY DEF IInv, TypeOK, HandlerOwns, Respond
<1>7. Answered'
  BY DEF IInv, TypeOK, Answered, Respond
<1>8.   /\ CallsWellFormed'
      /\ QueueOpen'
      /\ OneHolder'
      /\ ReaperOwns'
      /\ ReceiptIsOutcome'
  BY DEF IInv, CallsWellFormed, QueueOpen, OneHolder, ReaperOwns, ReceiptIsOutcome,
     Respond
<1>q. QED  BY <1>1, <1>2, <1>3, <1>4, <1>5, <1>6, <1>7, <1>8 DEF IInv

\* A call takes an entry out of the queue: it becomes the request's one holder,
\* and its decision the outcome.
LEMMA EntryTaken ==
    ASSUME IInv, NEW c \in Callers, NEW r \in pending, TypeOK', TakeEntry(r, call'[c].dec),
           UNCHANGED <<handler, verdict, chan, sweep, reaping, audit>>,
           \A d \in Callers : d # c => call'[d] = call[d],
           call'[c].pc = "send", call'[c].req = r, call'[c].entry = "held",
           call'[c].dec \in HumanDecision
    PROVE  IInv'
<1>t. /\ r \in Requests /\ outcome[r] = None /\ audit[r] = <<>>
      /\ chan[r] \in {"none", "open", "closed"}
      /\ handler[r] \notin {"new", "insert", "record"} /\ r \notin sweep /\ reaping # r
      /\ \A d \in Callers : call[d].entry # "absent" => call[d].req # r
  BY DEF IInv, TypeOK, QueueOpen, Fresh, Unsettled
<1>o. /\ outcome'[r] = call'[c].dec
      /\ \A q \in Requests : q # r => outcome'[q] = outcome[q]
      /\ pending' = pending \ {r} /\ pending \subseteq Requests
  BY DEF IInv, TypeOK, TakeEntry
<1>2. CallsWellFormed'
  BY <1>t DEF IInv, CallsWellFormed
<1>3. Fresh'
  BY <1>t, <1>o DEF IInv, Fresh
<1>4. Unsettled'
  BY <1>t, <1>o DEF IInv, Unsettled
<1>5. QueueOpen'
  BY <1>t, <1>o DEF IInv, QueueOpen
<1>6. OneHolder'
  BY <1>t DEF IInv, OneHolder
<1>7. CallerOwns'
  <2>. SUFFICES ASSUME NEW k \in Callers, call'[k].entry # "absent"
                PROVE  Owns(k, call[k].req)'
    BY DEF CallerOwns
  <2>1. CASE k = c
    BY <1>t, <1>o, <2>1 DEF Owns
  <2>2. CASE k # c
    <3>1. /\ call'[k] = call[k] /\ call[k].req # r /\ call[k].req \in Requests
          /\ Owns(k, call[k].req)
      BY <1>t, <2>2 DEF IInv, CallsWellFormed, CallerOwns
    <3>q. QED  BY <1>o, <3>1 DEF Owns
  <2>q. QED  BY <2>1, <2>2
<1>8. ChannelCarries'
  BY <1>t, <1>o DEF IInv, ChannelCarries
<1>9. HandlerOwns'
  BY <1>t, <1>o DEF IInv, HandlerOwns
<1>10. ReaperOwns'
  BY <1>t, <1>o DEF IInv, ReaperOwns
<1>11. ReceiptIsOutcome'
  BY <1>t, <1>o DEF IInv, ReceiptIsOutcome
<1>12. Answered'
  BY <1>t, <1>o DEF IInv, Answered
<1>q. QED  BY <1>2, <1>3, <1>4, <1>5, <1>6, <1>7, <1>8, <1>9, <1>10, <1>11, <1>12 DEF IInv

\* A call moves on to pc without touching the queue, the channels or the log.
LEMMA CallAdvances ==
    ASSUME IInv, NEW c \in Callers, NEW pc \in CallerPc, Proceed(c, pc), TypeOK',
           UNCHANGED <<handler, verdict, pending, chan, sweep, reaping, audit, outcome>>,
           call[c].pc # "idle", pc \notin {"press", "send"}, call[c].entry # "held",
           pc \in {"notify", "learn"} => call[c].entry # "absent",
           pc = "revoke" /\ call[c].entry = "absent" => call[c].via = "act",
           pc = "record" => call[c].entry = "undelivered"
    PROVE  IInv'
<1>a. /\ \A d \in Callers : d # c => call'[d] = call[d]
      /\ call'[c].pc = pc
      /\ pc = "idle" => call'[c].entry = "absent"
      /\ pc # "idle" => /\ call'[c].req = call[c].req /\ call'[c].dec = call[c].dec
                        /\ call'[c].via = call[c].via /\ call'[c].entry = call[c].entry
  BY Proceeds DEF IInv, TypeOK
<1>b. call[c].entry \in {"absent", "delivered", "undelivered"}
  BY DEF IInv, TypeOK, CallType, EntryState
<1>1. CallsWellFormed'
  BY <1>a, <1>b DEF IInv, CallsWellFormed
<1>2. Unsettled'
  BY <1>a DEF IInv, Unsettled
<1>3. OneHolder'
  BY <1>a DEF IInv, OneHolder
<1>4. CallerOwns'
  BY <1>a DEF IInv, CallerOwns, Owns
<1>5. Fresh' /\ QueueOpen' /\ ChannelCarries' /\ HandlerOwns' /\ ReaperOwns'
  BY DEF IInv, Fresh, QueueOpen, ChannelCarries, HandlerOwns, ReaperOwns
<1>6. ReceiptIsOutcome' /\ Answered'
  BY DEF IInv, ReceiptIsOutcome, Answered
<1>q. QED  BY <1>1, <1>2, <1>3, <1>4, <1>5, <1>6 DEF IInv

\* decide_pending takes the entry
LEMMA DecideStep ==
    ASSUME IInv, NEW c \in Callers, NEW r \in Requests, NEW word \in Words,
           Decide(c, r, word)
    PROVE  IInv'
<1>a. /\ call' \in [Callers -> CallType]
      /\ \A d \in Callers : d # c => call'[d] = call[d]
      /\ call'[c].pc = "send" /\ call'[c].req = r /\ call'[c].entry = "held"
      /\ call'[c].dec = DecisionOf(word) /\ DecisionOf(word) \in HumanDecision
  BY DEF IInv, TypeOK, Decide, DecisionOf, CallType, CallerPc, EntryState
<1>1. TypeOK'
  BY <1>a DEF IInv, TypeOK, Decide, TakeEntry
<1>2. /\ TakeEntry(r, call'[c].dec) /\ r \in pending
      /\ UNCHANGED <<handler, verdict, chan, sweep, reaping, audit>>
  BY <1>a DEF Decide, TakeEntry
<1>q. QED  BY <1>a, <1>1, <1>2, EntryTaken

\* act burns the button
LEMMA RedeemStep ==
    ASSUME IInv, NEW c \in Callers, NEW g \in grants, Redeem(c, g)
    PROVE  IInv'
<1>a. /\ call' \in [Callers -> CallType]
      /\ \A d \in Callers : d # c => call'[d] = call[d]
      /\ call'[c].pc = "press" /\ call'[c].entry = "absent" /\ call'[c].via = "act"
      /\ call'[c].req \in Requests /\ call'[c].dec \in HumanDecision
  BY DEF IInv, TypeOK, Redeem, CallType, CallerPc, EntryState
<1>1. TypeOK'
  BY <1>a DEF IInv, TypeOK, Redeem
<1>2. CallsWellFormed'
  BY <1>a DEF IInv, TypeOK, CallsWellFormed, Redeem
<1>3. Unsettled'
  BY <1>a DEF IInv, TypeOK, Unsettled, Redeem
<1>4. OneHolder'
  BY <1>a DEF IInv, TypeOK, OneHolder, Redeem
<1>5. CallerOwns'
  BY <1>a DEF IInv, TypeOK, CallerOwns, Owns, Redeem
<1>6.   /\ Fresh'
      /\ QueueOpen'
      /\ ChannelCarries'
      /\ HandlerOwns'
      /\ ReaperOwns'
      /\ ReceiptIsOutcome'
      /\ Answered'
  BY DEF IInv, Fresh, QueueOpen, ChannelCarries, HandlerOwns, ReaperOwns,
     ReceiptIsOutcome, Answered, Redeem
<1>q. QED  BY <1>1, <1>2, <1>3, <1>4, <1>5, <1>6 DEF IInv

\* act takes the entry
LEMMA PressTakesStep ==
    ASSUME IInv, NEW c \in Callers, Press(c), call[c].req \in pending
    PROVE  IInv'
<1>1. /\ call' = [call EXCEPT ![c] = [@ EXCEPT !.pc = "send", !.entry = "held"]]
      /\ TakeEntry(call[c].req, call[c].dec)
      /\ UNCHANGED <<handler, verdict, chan, sweep, reaping, audit>>
  BY DEF Press, TakeEntry
<1>2. call[c] \in CallType /\ call \in [Callers -> CallType] /\ call[c].dec \in HumanDecision
  BY DEF IInv, TypeOK, CallsWellFormed, Press
<1>3. call'[c] = [call[c] EXCEPT !.pc = "send", !.entry = "held"]
  BY <1>1, <1>2
<1>4. /\ call'[c] \in CallType
      /\ call'[c].pc = "send" /\ call'[c].req = call[c].req
      /\ call'[c].entry = "held" /\ call'[c].dec = call[c].dec
  BY <1>2, <1>3 DEF CallType, CallerPc, EntryState
<1>5. /\ call' \in [Callers -> CallType]
      /\ \A d \in Callers : d # c => call'[d] = call[d]
  BY <1>1, <1>2, <1>3, <1>4
<1>6. TypeOK'
  BY <1>1, <1>2, <1>5 DEF IInv, TypeOK, Press, TakeEntry
<1>q. QED  BY <1>1, <1>2, <1>4, <1>5, <1>6, EntryTaken

\* act finds nothing to answer
LEMMA PressGoneStep ==
    ASSUME IInv, NEW c \in Callers, Press(c), call[c].req \notin pending
    PROVE  IInv'
<1>1. /\ Proceed(c, "revoke")
      /\ UNCHANGED <<handler, verdict, pending, chan, sweep, reaping, audit, outcome>>
  BY DEF Press, TakeEntry
<1>2. call[c].pc = "press" /\ call[c].entry = "absent" /\ call[c].via = "act"
  BY DEF IInv, CallsWellFormed, Press
<1>3. call' \in [Callers -> CallType]
  BY <1>1, Proceeds DEF IInv, TypeOK, CallerPc
<1>4. TypeOK'
  BY <1>3 DEF IInv, TypeOK, Press, TakeEntry
<1>q. QED  BY <1>1, <1>2, <1>4, CallAdvances DEF CallerPc

\* responder.send
LEMMA SendStep ==
    ASSUME IInv, NEW c \in Callers, Send(c)
    PROVE  IInv'
<1>a. /\ call' \in [Callers -> CallType]
      /\ \A d \in Callers : d # c => call'[d] = call[d]
      /\ call'[c].req = call[c].req /\ call'[c].dec = call[c].dec /\ call'[c].via = call[c].via
      /\ call'[c].pc \in {"notify", "revoke"}
      /\ call'[c].entry = IF chan[call[c].req] = "open" THEN "delivered" ELSE "undelivered"
  <2> DEFINE sent == IF chan[call[c].req] = "open" THEN "delivered" ELSE "undelivered"
             next == IF call[c].via = "api" THEN "notify" ELSE "revoke"
  <2>1. call \in [Callers -> CallType] /\ call[c] \in CallType
    BY DEF IInv, TypeOK
  <2>2. call' = [call EXCEPT ![c] = [call[c] EXCEPT !.entry = sent, !.pc = next]]
    BY <2>1 DEF Send
  <2>3. sent \in EntryState /\ next \in {"notify", "revoke"} /\ next \in CallerPc
    BY DEF EntryState, CallerPc
  <2> HIDE DEF sent, next
  <2>4. [call[c] EXCEPT !.entry = sent, !.pc = next] \in CallType
    BY <2>1, <2>3 DEF CallType
  <2>5. call'[c] = [call[c] EXCEPT !.entry = sent, !.pc = next]
    BY <2>1, <2>2
  <2>6. /\ call'[c].req = call[c].req /\ call'[c].dec = call[c].dec
        /\ call'[c].via = call[c].via /\ call'[c].pc = next /\ call'[c].entry = sent
    BY <2>1, <2>5 DEF CallType
  <2>7. call' \in [Callers -> CallType] /\ \A d \in Callers : d # c => call'[d] = call[d]
    BY <2>1, <2>2, <2>4
  <2>q. QED  BY <2>3, <2>6, <2>7 DEF sent
<1>r. PICK r \in Requests : r = call[c].req
  BY DEF IInv, CallsWellFormed, Send
<1>o. /\ call[c].entry = "held" /\ outcome[r] = call[c].dec /\ call[c].dec \in HumanDecision
      /\ audit[r] = <<>> /\ chan[r] \notin HumanDecision /\ handler[r] # "record"
  BY <1>r DEF IInv, CallsWellFormed, CallerOwns, Owns, Send
<1>s. /\ chan'[r] = IF chan[r] = "open" THEN call[c].dec ELSE chan[r]
      /\ \A q \in Requests : q # r => chan'[q] = chan[q]
  BY <1>r DEF IInv, TypeOK, Send
<1>u. UNCHANGED <<handler, verdict, pending, sweep, reaping, audit, outcome>>
  BY DEF Send
<1>1. TypeOK'
  BY <1>a DEF IInv, TypeOK, CallsWellFormed, Send
<1>2. CallsWellFormed'
  BY <1>a, <1>r, <1>o, <1>s, <1>u DEF IInv, CallsWellFormed
<1>3. Fresh'
  BY <1>a, <1>r, <1>o, <1>s, <1>u DEF IInv, Fresh
<1>4. Unsettled'
  BY <1>a, <1>r, <1>o, <1>s, <1>u DEF IInv, Unsettled
<1>5. OneHolder'
  BY <1>a, <1>r, <1>o, <1>s, <1>u DEF IInv, OneHolder
<1>6. CallerOwns'
  BY <1>a, <1>r, <1>o, <1>s, <1>u DEF IInv, CallerOwns, CallsWellFormed, OneHolder, Owns
<1>7. ChannelCarries'
  BY <1>a, <1>r, <1>o, <1>s, <1>u DEF IInv, ChannelCarries
<1>8. HandlerOwns'
  BY <1>a, <1>r, <1>o, <1>s, <1>u DEF IInv, HandlerOwns
<1>9.   /\ QueueOpen'
      /\ ReaperOwns'
      /\ ReceiptIsOutcome'
      /\ Answered'
  BY <1>u DEF IInv, QueueOpen, ReaperOwns, ReceiptIsOutcome, Answered
<1>q. QED  BY <1>1, <1>2, <1>3, <1>4, <1>5, <1>6, <1>7, <1>8, <1>9 DEF IInv

\* notify_change
LEMMA NotifyStep ==
    ASSUME IInv, NEW c \in Callers, Notify(c)
    PROVE  IInv'
<1>. DEFINE next == IF call[c].via = "api" THEN "revoke" ELSE LastStep(c)
<1>1. /\ call[c].pc = "notify" /\ Proceed(c, next)
      /\ UNCHANGED <<handler, verdict, pending, chan, sweep, reaping, audit, outcome>>
  BY DEF Notify
<1>2. call[c].entry \in EntryState /\ call[c].entry # "held" /\ call[c].entry # "absent"
  BY <1>1 DEF IInv, TypeOK, CallType, CallsWellFormed
<1>3. /\ next \in CallerPc \ {"press", "send"}
      /\ next \in {"notify", "learn"} => call[c].entry # "absent"
      /\ next = "revoke" => call[c].entry # "absent"
      /\ next = "record" => call[c].entry = "undelivered"
  BY <1>1, <1>2 DEF IInv, CallsWellFormed, LastStep, CallerPc, EntryState
<1>. HIDE DEF next
<1>4. call' \in [Callers -> CallType]
  BY <1>1, <1>3, Proceeds DEF IInv, TypeOK
<1>5. TypeOK'
  BY <1>4 DEF IInv, TypeOK, Notify, NotifyChange
<1>q. QED  BY <1>1, <1>2, <1>3, <1>5, CallAdvances

\* revoke_for
LEMMA RevokeStep ==
    ASSUME IInv, NEW c \in Callers, Revoke(c)
    PROVE  IInv'
<1>. DEFINE next == CASE call[c].via = "act" /\ call[c].entry = "absent" -> "idle"
                   [] call[c].via = "act" /\ call[c].entry # "absent" -> "notify"
                   [] OTHER -> IF call[c].dec \in {"allow_similar", "block_similar"}
                               THEN "learn" ELSE LastStep(c)
<1>1. /\ call[c].pc = "revoke" /\ Proceed(c, next)
      /\ UNCHANGED <<handler, verdict, pending, chan, sweep, reaping, audit, outcome>>
  BY DEF Revoke
<1>2. call[c].entry \in EntryState /\ call[c].entry # "held"
  BY <1>1 DEF IInv, TypeOK, CallType, CallsWellFormed
<1>3. /\ next \in CallerPc \ {"press", "send"}
      /\ next \in {"notify", "learn"} => call[c].entry # "absent"
      /\ next = "revoke" => call[c].entry # "absent"
      /\ next = "record" => call[c].entry = "undelivered"
  BY <1>1, <1>2 DEF IInv, CallsWellFormed, LastStep, CallerPc, EntryState
<1>. HIDE DEF next
<1>4. call' \in [Callers -> CallType]
  BY <1>1, <1>3, Proceeds DEF IInv, TypeOK
<1>5. TypeOK'
  BY <1>4 DEF IInv, TypeOK, Revoke, RevokeFor
<1>q. QED  BY <1>1, <1>2, <1>3, <1>5, CallAdvances

\* learn and save
LEMMA LearnStep ==
    ASSUME IInv, NEW c \in Callers, Learn(c)
    PROVE  IInv'
<1>. DEFINE next == LastStep(c)
<1>1. /\ call[c].pc = "learn" /\ Proceed(c, next)
      /\ UNCHANGED <<handler, verdict, pending, chan, sweep, reaping, audit, outcome>>
  BY DEF Learn
<1>2. call[c].entry \in EntryState /\ call[c].entry # "held" /\ call[c].entry # "absent"
  BY <1>1 DEF IInv, TypeOK, CallType, CallsWellFormed
<1>3. /\ next \in CallerPc \ {"press", "send"}
      /\ next \in {"notify", "learn"} => call[c].entry # "absent"
      /\ next = "revoke" => call[c].entry # "absent"
      /\ next = "record" => call[c].entry = "undelivered"
  BY <1>1, <1>2 DEF IInv, CallsWellFormed, LastStep, CallerPc, EntryState
<1>. HIDE DEF next
<1>4. call' \in [Callers -> CallType]
  BY <1>1, <1>3, Proceeds DEF IInv, TypeOK
<1>5. TypeOK'
  BY <1>4, RequestAttributes DEF IInv, TypeOK, CallsWellFormed, Learn
<1>q. QED  BY <1>1, <1>2, <1>3, <1>5, CallAdvances

\* record_late_decision
LEMMA RecordLateStep ==
    ASSUME IInv, NEW c \in Callers, RecordLate(c)
    PROVE  IInv'
<1>a. /\ call' \in [Callers -> CallType]
      /\ \A d \in Callers : d # c => call'[d] = call[d]
      /\ call'[c].pc = "idle" /\ call'[c].entry = "absent" /\ call[c].entry = "undelivered"
  BY Proceeds DEF IInv, TypeOK, CallsWellFormed, RecordLate, CallerPc
<1>b. PICK r \in Requests : r = call[c].req
  BY DEF IInv, CallsWellFormed, RecordLate
<1>c. /\ outcome[r] = call[c].dec /\ call[c].dec \in HumanDecision
      /\ audit[r] = <<>> /\ chan[r] \notin HumanDecision /\ handler[r] # "record"
  BY <1>a, <1>b DEF IInv, CallsWellFormed, CallerOwns, Owns, RecordLate
<1>d. /\ audit' \in [Requests -> Seq(Receipt)]
      /\ audit'[r] = <<>> \/ audit'[r] = <<call[c].dec>>
      /\ DiskWorks => audit'[r] = <<call[c].dec>>
      /\ \A q \in Requests : q # r => audit'[q] = audit[q]
  BY <1>b, <1>c, AuditWritten DEF IInv, RecordLate
<1>u. UNCHANGED <<handler, verdict, pending, chan, sweep, reaping, outcome>>
  BY DEF RecordLate
<1>1. TypeOK'
  BY <1>a, <1>b, <1>c, <1>d, <1>u DEF IInv, TypeOK, RecordLate
<1>2. CallsWellFormed'
  BY <1>a DEF IInv, CallsWellFormed
<1>3. Unsettled'
  <2>. SUFFICES ASSUME NEW q \in Requests, outcome[q] = None
                PROVE  /\ audit'[q] = <<>>
                       /\ \A k \in Callers : call'[k].entry # "absent" => call'[k].req # q
    BY <1>u DEF IInv, Unsettled
  <2>1. q # r
    BY <1>c
  <2>2. \A k \in Callers : call'[k].entry # "absent" => call'[k] = call[k]
    BY <1>a
  <2>q. QED  BY <1>d, <2>1, <2>2 DEF IInv, Unsettled
<1>4. OneHolder'
  BY <1>a DEF IInv, OneHolder
<1>5. CallerOwns'
  BY <1>a, <1>b, <1>c, <1>d, <1>u DEF IInv, CallerOwns, Owns, CallsWellFormed, OneHolder
<1>6. ChannelCarries'
  BY <1>a, <1>b, <1>c, <1>d, <1>u DEF IInv, ChannelCarries
<1>7. HandlerOwns'
  BY <1>a, <1>b, <1>c, <1>d, <1>u DEF IInv, HandlerOwns
<1>8. ReaperOwns'
  BY <1>a, <1>b, <1>c, <1>d, <1>u DEF IInv, ReaperOwns
<1>9. ReceiptIsOutcome'
  BY <1>a, <1>b, <1>c, <1>d, <1>u DEF IInv, ReceiptIsOutcome
<1>10. Answered'
  BY <1>a, <1>b, <1>c, <1>d, <1>u DEF IInv, Answered
<1>11. Fresh' /\ QueueOpen'
  BY <1>u DEF IInv, Fresh, QueueOpen
<1>q. QED  BY <1>1, <1>2, <1>3, <1>4, <1>5, <1>6, <1>7, <1>8, <1>9, <1>10, <1>11 DEF IInv

\* the reaper's critical section
LEMMA ReapExpiredStep ==
    ASSUME IInv, ReapExpired
    PROVE  IInv'
<1>1. TypeOK'
  BY DEF IInv, TypeOK, ReapExpired, Expired
<1>2. Fresh'
  BY DEF IInv, TypeOK, Fresh, ReapExpired, Expired
<1>3. Unsettled'
  BY DEF IInv, TypeOK, Unsettled, QueueOpen, ReapExpired, Expired
<1>4. QueueOpen'
  BY DEF IInv, TypeOK, QueueOpen, ReapExpired, Expired
<1>5. CallerOwns'
  BY DEF IInv, TypeOK, CallerOwns, Owns, QueueOpen, Unsettled, CallsWellFormed,
     ReapExpired, Expired
<1>6. ChannelCarries'
  BY DEF IInv, TypeOK, ChannelCarries, QueueOpen, Unsettled, ReapExpired, Expired
<1>7. HandlerOwns'
  BY DEF IInv, TypeOK, HandlerOwns, QueueOpen, Unsettled, ReapExpired, Expired
<1>8. ReaperOwns'
  BY RequestAttributes DEF IInv, TypeOK, ReaperOwns, QueueOpen, Unsettled, ReapExpired,
     Expired
<1>9. ReceiptIsOutcome'
  BY DEF IInv, TypeOK, ReceiptIsOutcome, QueueOpen, Unsettled, ReapExpired, Expired
<1>10. Answered'
  BY DEF IInv, TypeOK, Answered, QueueOpen, ReapExpired, Expired
<1>11. CallsWellFormed' /\ OneHolder'
  BY DEF IInv, CallsWellFormed, OneHolder, ReapExpired, Expired
<1>q. QED  BY <1>1, <1>2, <1>3, <1>4, <1>5, <1>6, <1>7, <1>8, <1>9, <1>10, <1>11 DEF IInv

\* the reaper's revoke_for
LEMMA ReapRevokeStep ==
    ASSUME IInv, NEW r \in Requests, ReapRevoke(r)
    PROVE  IInv'
<1>1. TypeOK'
  BY DEF IInv, TypeOK, ReapRevoke, RevokeFor
<1>2. Unsettled'
  BY DEF IInv, TypeOK, Unsettled, ReaperOwns, ReapRevoke, RevokeFor
<1>3. ReaperOwns'
  BY DEF IInv, TypeOK, ReaperOwns, ReapRevoke, RevokeFor
<1>4.   /\ CallsWellFormed'
      /\ Fresh'
      /\ QueueOpen'
      /\ OneHolder'
      /\ CallerOwns'
      /\ ChannelCarries'
      /\ HandlerOwns'
      /\ ReceiptIsOutcome'
      /\ Answered'
  BY DEF IInv, CallsWellFormed, Fresh, QueueOpen, OneHolder, CallerOwns, ChannelCarries,
     HandlerOwns, ReceiptIsOutcome, Answered, Owns, ReapRevoke, RevokeFor
<1>q. QED  BY <1>1, <1>2, <1>3, <1>4 DEF IInv

\* the reaper's audit insert
LEMMA ReapRecordStep ==
    ASSUME IInv, ReapRecord
    PROVE  IInv'
<1>a. reaping \in Requests /\ audit[reaping] = <<>> /\ outcome[reaping] = "expired"
  BY DEF IInv, TypeOK, ReaperOwns, ReapRecord
<1>b. /\ audit' \in [Requests -> Seq(Receipt)]
      /\ audit'[reaping] = <<>> \/ audit'[reaping] = <<"expired">>
      /\ \A q \in Requests : q # reaping => audit'[q] = audit[q]
  BY <1>a, AuditWritten DEF IInv, ReapRecord
<1>1. TypeOK'
  BY <1>a, <1>b DEF IInv, TypeOK, ReaperOwns, ReapRecord
<1>2. Unsettled'
  BY <1>a, <1>b, RequestAttributes DEF IInv, TypeOK, Unsettled, ReaperOwns, ReapRecord
<1>3. CallerOwns'
  <2>. SUFFICES ASSUME NEW k \in Callers, call[k].entry # "absent"
                PROVE  Owns(k, call[k].req)'
    BY DEF CallerOwns, ReapRecord
  <2>1. /\ call[k].req \in Requests /\ call[k].dec \in HumanDecision
        /\ Owns(k, call[k].req) /\ call' = call
    BY DEF IInv, CallsWellFormed, CallerOwns, ReapRecord
  <2>2. CASE call[k].req = reaping
    BY <1>a, <1>b, <2>1, <2>2 DEF IInv, TypeOK, Owns, ReapRecord
  <2>3. CASE call[k].req # reaping
    BY <1>a, <1>b, <2>1, <2>3 DEF IInv, TypeOK, Owns, ReapRecord
  <2>q. QED  BY <2>2, <2>3
<1>4. ChannelCarries'
  BY <1>a, <1>b DEF IInv, TypeOK, ChannelCarries, ReaperOwns, ReapRecord
<1>5. HandlerOwns'
  BY <1>a, <1>b DEF IInv, TypeOK, HandlerOwns, ReaperOwns, ReapRecord
<1>6. ReaperOwns'
  BY <1>a, <1>b, RequestAttributes DEF IInv, TypeOK, ReaperOwns, ReapRecord
<1>7. ReceiptIsOutcome'
  BY <1>a, <1>b DEF IInv, TypeOK, ReceiptIsOutcome, ReaperOwns, ReapRecord
<1>8. Answered'
  BY <1>a, <1>b DEF IInv, TypeOK, Answered, ReaperOwns, ReapRecord
<1>9.   /\ CallsWellFormed'
      /\ Fresh'
      /\ QueueOpen'
      /\ OneHolder'
  BY DEF IInv, CallsWellFormed, Fresh, QueueOpen, OneHolder, ReapRecord
<1>q. QED  BY <1>1, <1>2, <1>3, <1>4, <1>5, <1>6, <1>7, <1>8, <1>9 DEF IInv

\* time passes
LEMMA ElapsingStep ==
    ASSUME IInv, NEW asleep \in BOOLEAN, Elapsing(asleep)
    PROVE  IInv'
<1>1. TypeOK'
  <2>1. age' \in [Requests -> 0..RequestTtl]
    BY ClocksAssumption DEF IInv, TypeOK, Elapsing
  <2>2. waited' \in [Requests -> 0..AgentWait]
    BY ClocksAssumption DEF IInv, TypeOK, Elapsing
  <2>q. QED  BY <2>1, <2>2 DEF IInv, TypeOK, Elapsing
<1>2.   /\ CallsWellFormed'
      /\ Fresh'
      /\ Unsettled'
      /\ QueueOpen'
      /\ OneHolder'
      /\ CallerOwns'
      /\ ChannelCarries'
      /\ HandlerOwns'
      /\ ReaperOwns'
      /\ ReceiptIsOutcome'
      /\ Answered'
  BY DEF IInv, CallsWellFormed, Fresh, Unsettled, QueueOpen, OneHolder, CallerOwns,
     ChannelCarries, HandlerOwns, ReaperOwns, ReceiptIsOutcome, Answered, Owns, Elapsing
<1>q. QED  BY <1>1, <1>2 DEF IInv

\* the page
LEMMA PageStep ==
    ASSUME IInv, Subscribe \/ Push \/ Unsubscribe
    PROVE  IInv'
<1>1. TypeOK'
  BY DEF IInv, TypeOK, Subscribe, Push, Unsubscribe
<1>2.   /\ CallsWellFormed'
      /\ Fresh'
      /\ Unsettled'
      /\ QueueOpen'
      /\ OneHolder'
      /\ CallerOwns'
      /\ ChannelCarries'
      /\ HandlerOwns'
      /\ ReaperOwns'
      /\ ReceiptIsOutcome'
      /\ Answered'
  BY DEF IInv, CallsWellFormed, Fresh, Unsettled, QueueOpen, OneHolder, CallerOwns,
     ChannelCarries, HandlerOwns, ReaperOwns, ReceiptIsOutcome, Answered, Owns,
     Subscribe, Push, Unsubscribe
<1>q. QED  BY <1>1, <1>2 DEF IInv

\* the process dies
LEMMA CrashStep ==
    ASSUME IInv, Crash
    PROVE  IInv'
<1>1. TypeOK'
  <2>1. crashes' \in 0..MaxCrashes
    BY EnvironmentAssumption DEF IInv, TypeOK, Crash
  <2>2. call' \in [Callers -> CallType]
    BY DEF Crash, CallType, CallerPc, EntryState
  <2>q. QED  BY <2>1, <2>2 DEF IInv, TypeOK, Crash
<1>2. CallsWellFormed'
  BY DEF IInv, TypeOK, CallsWellFormed, Crash
<1>3. Fresh'
  BY DEF IInv, TypeOK, Fresh, Crash
<1>4. Unsettled'
  BY RequestAttributes DEF IInv, TypeOK, Unsettled, QueueOpen, Crash
<1>5. QueueOpen'
  BY DEF IInv, TypeOK, QueueOpen, Crash
<1>6. OneHolder'
  BY DEF IInv, TypeOK, OneHolder, Crash
<1>7. CallerOwns'
  BY DEF IInv, TypeOK, CallerOwns, Owns, Crash
<1>8. ChannelCarries'
  BY DEF IInv, TypeOK, ChannelCarries, Crash
<1>9. HandlerOwns'
  BY DEF IInv, TypeOK, HandlerOwns, Crash
<1>10. ReaperOwns'
  BY RequestAttributes DEF IInv, TypeOK, ReaperOwns, Crash
<1>11. ReceiptIsOutcome'
  BY DEF IInv, TypeOK, ReceiptIsOutcome, QueueOpen, Unsettled, Crash
<1>12. Answered'
  BY DEF IInv, TypeOK, Answered, QueueOpen, Crash
<1>q. QED  BY <1>1, <1>2, <1>3, <1>4, <1>5, <1>6, <1>7, <1>8, <1>9, <1>10, <1>11, <1>12 DEF IInv

-----------------------------------------------------------------------------
(* The theorems *)

\* The daemon starts with an empty queue and nobody owning anything.
LEMMA InitInv == Init => IInv
<1>. SUFFICES ASSUME Init PROVE IInv
  OBVIOUS
<1>1. call \in [Callers -> CallType]
  BY DEF Init, CallType, CallerPc, EntryState
<1>2. TypeOK
  <2>1. 0 \in 0..RequestTtl /\ 0 \in 0..AgentWait /\ 0 \in 0..MaxCrashes
    BY ClocksAssumption, EnvironmentAssumption
  <2>2. audit \in [Requests -> Seq(Receipt)]
    BY DEF Init
  <2>q. QED  BY <1>1, <2>1, <2>2 DEF Init, TypeOK
<1>3. CallsWellFormed /\ OneHolder /\ CallerOwns
  BY DEF Init, CallsWellFormed, OneHolder, CallerOwns
<1>4. Fresh /\ Unsettled /\ QueueOpen /\ ChannelCarries /\ HandlerOwns
  BY RequestAttributes DEF Init, Fresh, Unsettled, QueueOpen, ChannelCarries, HandlerOwns
<1>5. ReaperOwns /\ ReceiptIsOutcome /\ Answered
  BY RequestAttributes DEF Init, ReaperOwns, ReceiptIsOutcome, Answered
<1>q. QED  BY <1>2, <1>3, <1>4, <1>5 DEF IInv

\* Every step of the daemon and of its environment preserves the invariant.
LEMMA NextInv == IInv /\ [Next]_vars => IInv'
<1>. SUFFICES ASSUME IInv, [Next]_vars PROVE IInv'
  OBVIOUS
<1>1. ASSUME NEW r \in Requests, Approve(r) \/ HandlerStep(r) \/ Disconnect(r)
      PROVE  IInv'
  BY <1>1, ApproveStep, InsertStep, AnnounceStep, MintStep, WakeStep, ElapseStep,
     GiveUpStep, RecordStep, RespondStep, DisconnectStep DEF HandlerStep
<1>2. ASSUME NEW c \in Callers, NEW r \in Requests, NEW word \in Words, Decide(c, r, word)
      PROVE  IInv'
  BY <1>2, DecideStep
<1>3. ASSUME NEW c \in Callers, NEW g \in grants, Redeem(c, g)
      PROVE  IInv'
  BY <1>3, RedeemStep
<1>4. ASSUME NEW c \in Callers, CallerStep(c)
      PROVE  IInv'
  BY <1>4, PressTakesStep, PressGoneStep, SendStep, NotifyStep, RevokeStep, LearnStep,
     RecordLateStep DEF CallerStep
<1>5. ASSUME ReaperStep
      PROVE  IInv'
  BY <1>5, ReapExpiredStep, ReapRevokeStep, ReapRecordStep DEF ReaperStep
<1>6. ASSUME Subscribe \/ Push \/ Unsubscribe
      PROVE  IInv'
  BY <1>6, PageStep
<1>7. ASSUME Tick \/ Sleep
      PROVE  IInv'
  <2>1. PICK asleep \in BOOLEAN : Elapsing(asleep)
    BY <1>7, Zenon DEF Tick, Sleep
  <2>q. QED  BY <2>1, ElapsingStep
<1>8. ASSUME Crash
      PROVE  IInv'
  BY <1>8, CrashStep
<1>9. ASSUME UNCHANGED vars
      PROVE  IInv'
  BY <1>9 DEF vars, IInv, TypeOK, CallsWellFormed, Fresh, Unsettled, QueueOpen, OneHolder,
     CallerOwns, Owns, ChannelCarries, HandlerOwns, ReaperOwns, ReceiptIsOutcome, Answered
<1>q. QED
  BY <1>1, <1>2, <1>3, <1>4, <1>5, <1>6, <1>7, <1>8, <1>9 DEF Next

\* Ownership of the receipt is never shared: the invariant holds throughout,
\* for any interleaving of handlers, surfaces, buttons, reaper and crashes.
THEOREM OwnershipInvariant == Spec => []IInv
<1>1. Init => IInv
  BY InitInv
<1>2. IInv /\ [Next]_vars => IInv'
  BY NextInv
<1>q. QED  BY <1>1, <1>2, PTL DEF Spec

\* Every variable keeps its type, for any numbers of requests and callers.
THEOREM TypeCorrect == Spec => []TypeOK
<1>1. IInv => TypeOK
  BY DEF IInv
<1>q. QED  BY <1>1, OwnershipInvariant, PTL

\* The handler, the late answer and the reaper together write at most one row
\* per request, and the row is what became of the request.
THEOREM OneTruthfulReceipt == Spec => []ReceiptIsOutcome
<1>1. IInv => ReceiptIsOutcome
  BY DEF IInv
<1>q. QED  BY <1>1, OwnershipInvariant, PTL

\* approve answers no decision but the one that was taken.
THEOREM TruthfulAnswer == Spec => []AnswerIsOutcome
<1>1. IInv => AnswerIsOutcome
  BY DEF IInv, Answered, AnswerIsOutcome
<1>q. QED  BY <1>1, OwnershipInvariant, PTL

\* With a working disk approve answers a decision only once it is recorded,
\* crashes included.
THEOREM RecordedBeforeAnswered == Spec => []AnsweredMeansRecorded
<1>1. IInv => AnsweredMeansRecorded
  BY DEF IInv, Answered, AnsweredMeansRecorded
<1>q. QED  BY <1>1, OwnershipInvariant, PTL

-----------------------------------------------------------------------------
(***************************************************************************)
(* The daemon implements ApprovalContract: step by step, what it does to   *)
(* outcomes, receipts and answers is a step of the contract or a stutter.  *)
(***************************************************************************)

USE DEF None, HumanDecision, AutoDecision, Receipt, Answer, HandlerPc, ChanState,
        Idle, clockVars, reaperVars, diskVars, pageVars, At, GoTo, Serving,
        Contract!vars

\* Steps that neither complete nor touch a delivered answer leave Told alone.
LEMMA ToldKept ==
    ASSUME \A r \in Requests :
              \/ handler'[r] = handler[r] /\ verdict'[r] = verdict[r]
              \/ handler[r] # "done" /\ handler'[r] # "done"
    PROVE  Told' = Told
BY DEF Told

\* Steps that the contract does not see.
LEMMA Stutters ==
    ASSUME Told' = Told, outcome' = outcome, audit' = audit
    PROVE  [Contract!Next]_(Contract!vars)
OBVIOUS

\* Taking one open request out of the queue, or deciding it by policy, settles
\* it.
LEMMA SettlesOne ==
    ASSUME IInv, NEW r \in Requests, NEW d \in Receipt, outcome[r] = None,
           outcome' = [outcome EXCEPT ![r] = d], Told' = Told, audit' = audit
    PROVE  Contract!Next
<1>1. outcome' = [q \in Requests |-> IF q \in {r} THEN d ELSE outcome[q]]
  BY DEF IInv, TypeOK
<1>2. {r} \in (SUBSET Requests) \ {{}} /\ \A q \in {r} : outcome[q] = None
  OBVIOUS
<1>3. d \in Contract!Recordable \cup {"lost"}
  BY DEF Contract!Recordable
<1>q. QED  BY <1>1, <1>2, <1>3 DEF Contract!Next, Contract!Settle

\* An audit insert that the disk accepts is the contract's Write.
LEMMA Writes ==
    ASSUME IInv, DiskWorks, NEW r \in Requests, audit[r] = <<>>, outcome[r] \in Receipt,
           AuditInsert(r, outcome[r]), outcome' = outcome, Told' = Told
    PROVE  Contract!Next
<1>1. audit' = [audit EXCEPT ![r] = Append(@, outcome[r])]
  <2>1. PICK ok \in DiskOutcomes :
            audit' = IF ok THEN [audit EXCEPT ![r] = Append(@, outcome[r])] ELSE audit
    BY DEF AuditInsert
  <2>2. ok = TRUE
    BY Zenon DEF DiskWorks
  <2>q. QED  BY <2>1, <2>2
<1>2. audit' = [audit EXCEPT ![r] = <<outcome[r]>>]
  BY <1>1
<1>3. outcome[r] \in Contract!Recordable
  BY DEF Contract!Recordable
<1>q. QED  BY <1>2, <1>3 DEF Contract!Next, Contract!Write

\* Steps of the approve handler of r.
LEMMA HandlerContract ==
    ASSUME IInv, DiskWorks, NEW r \in Requests,
           Approve(r) \/ HandlerStep(r) \/ Disconnect(r)
    PROVE  [Contract!Next]_(Contract!vars)
<1>1. CASE Approve(r)
  <2>1. Told' = Told
    BY <1>1, ToldKept DEF IInv, TypeOK, Approve
  <2>2. outcome[r] = None /\ audit' = audit
    BY <1>1 DEF IInv, Fresh, Approve
  <2>3. outcome' = outcome \/ \E d \in AutoDecision : outcome' = [outcome EXCEPT ![r] = d]
    BY <1>1 DEF Approve
  <2>q. QED  BY <2>1, <2>2, <2>3, Stutters, SettlesOne
<1>2. CASE Insert(r) \/ Announce(r) \/ Mint(r) \/ Wake(r) \/ Elapse(r) \/ GiveUp(r)
            \/ Disconnect(r)
  <2>1. /\ outcome' = outcome /\ audit' = audit
        /\ handler[r] # "done" /\ handler'[r] # "done"
        /\ \A q \in Requests : q # r => handler'[q] = handler[q] /\ verdict'[q] = verdict[q]
    BY <1>2 DEF IInv, TypeOK, Insert, Announce, Mint, Wake, Elapse, GiveUp, Disconnect
  <2>q. QED  BY <2>1, ToldKept, Stutters
<1>3. CASE Record(r)
  <2>1. Told' = Told
    BY <1>3, ToldKept DEF IInv, TypeOK, Record
  <2>2. /\ audit[r] = <<>> /\ verdict[r] = outcome[r] /\ outcome[r] \in Receipt
        /\ AuditInsert(r, outcome[r]) /\ outcome' = outcome
    BY <1>3 DEF IInv, HandlerOwns, Record
  <2>q. QED  BY <2>1, <2>2, Writes
<1>4. CASE Respond(r)
  <2>1. PICK pc \in {"done", "gone"} : handler' = [handler EXCEPT ![r] = pc]
    BY <1>4 DEF Respond
  <2>2. handler[r] = "respond" /\ UNCHANGED <<verdict, outcome, audit>>
    BY <1>4 DEF Respond
  <2>3. CASE pc = "gone"
    <3>1. Told' = Told
      BY <2>1, <2>2, <2>3, ToldKept DEF IInv, TypeOK
    <3>q. QED  BY <3>1, <2>2, Stutters
  <2>4. CASE pc = "done"
    <3>1. Told[r] = None /\ Told' = [Told EXCEPT ![r] = verdict[r]]
      BY <2>1, <2>2, <2>4 DEF IInv, TypeOK, Told
    <3>2. CASE verdict[r] = "no_decision_yet"
      BY <2>2, <3>1, <3>2 DEF Contract!Next, Contract!Tell
    <3>3. CASE verdict[r] # "no_decision_yet"
      <4>1. verdict[r] = outcome[r] /\ audit[r] = <<outcome[r]>>
        BY <2>2, <3>3 DEF IInv, Answered
      <4>2. outcome[r] \in HumanDecision \cup AutoDecision
        BY <2>2, <3>3, <4>1 DEF IInv, TypeOK, Answered
      <4>q. QED  BY <2>2, <3>1, <4>1, <4>2 DEF Contract!Next, Contract!Tell
    <3>q. QED  BY <3>2, <3>3
  <2>q. QED  BY <2>3, <2>4
<1>q. QED  BY <1>1, <1>2, <1>3, <1>4 DEF HandlerStep

\* A surface answers: only taking the entry and the late receipt show.
LEMMA CallerContract ==
    ASSUME IInv, DiskWorks, NEW c \in Callers,
           \/ CallerStep(c)
           \/ \E r \in Requests, word \in Words : Decide(c, r, word)
           \/ \E g \in grants : Redeem(c, g)
    PROVE  [Contract!Next]_(Contract!vars)
<1>1. UNCHANGED <<handler, verdict>>
  BY DEF CallerStep, Press, Send, Notify, Revoke, Learn, RecordLate, Decide, Redeem
<1>2. Told' = Told
  BY <1>1 DEF Told
<1>3. ASSUME NEW r \in pending, NEW d \in HumanDecision, TakeEntry(r, d), audit' = audit
      PROVE  Contract!Next
  <2>1. outcome[r] = None /\ r \in Requests
    BY DEF IInv, TypeOK, QueueOpen
  <2>q. QED  BY <1>2, <1>3, <2>1, SettlesOne DEF TakeEntry
<1>4. ASSUME NEW r \in Requests, NEW word \in Words, Decide(c, r, word)
      PROVE  Contract!Next
  <2>1. /\ r \in pending /\ audit' = audit /\ DecisionOf(word) \in HumanDecision
        /\ TakeEntry(r, DecisionOf(word))
    BY <1>4 DEF Decide, TakeEntry, DecisionOf
  <2>q. QED  BY <1>3, <2>1
<1>5. CASE Press(c)
  <2>1. audit' = audit /\ call[c].dec \in HumanDecision
    BY <1>5 DEF IInv, CallsWellFormed, Press
  <2>2. CASE call[c].req \in pending
    <3>1. TakeEntry(call[c].req, call[c].dec)
      BY <1>5, <2>2 DEF Press
    <3>q. QED  BY <1>3, <2>1, <2>2, <3>1
  <2>3. CASE call[c].req \notin pending
    <3>1. outcome' = outcome
      BY <1>5, <2>3 DEF Press, TakeEntry
    <3>q. QED  BY <1>2, <2>1, <3>1, Stutters
  <2>q. QED  BY <2>2, <2>3
<1>6. CASE RecordLate(c)
  <2>1. PICK r \in Requests : r = call[c].req
    BY <1>6 DEF IInv, CallsWellFormed, RecordLate
  <2>2. call[c].pc = "record" /\ call[c].entry = "undelivered" /\ call[c].dec \in HumanDecision
    BY <1>6 DEF IInv, CallsWellFormed, RecordLate
  <2>3. audit[r] = <<>> /\ outcome[r] = call[c].dec
    BY <2>1, <2>2 DEF IInv, CallerOwns, Owns
  <2>4. AuditInsert(r, outcome[r]) /\ outcome' = outcome
    BY <1>6, <2>1, <2>3 DEF RecordLate
  <2>q. QED  BY <1>2, <2>2, <2>3, <2>4, Writes
<1>7. CASE Send(c) \/ Notify(c) \/ Revoke(c) \/ Learn(c) \/ \E g \in grants : Redeem(c, g)
  <2>1. outcome' = outcome /\ audit' = audit
    BY <1>7 DEF Send, Notify, Revoke, Learn, Redeem
  <2>q. QED  BY <1>2, <2>1, Stutters
<1>q. QED  BY <1>4, <1>5, <1>6, <1>7 DEF CallerStep

\* The reaper settles a whole sweep at once and writes the receipts one by one.
LEMMA ReaperContract ==
    ASSUME IInv, DiskWorks, ReaperStep
    PROVE  [Contract!Next]_(Contract!vars)
<1>1. Told' = Told
  BY DEF ReaperStep, ReapExpired, ReapRevoke, ReapRecord, Told
<1>2. CASE ReapExpired
  <2>1. Expired \in (SUBSET Requests) \ {{}} /\ \A q \in Expired : outcome[q] = None
    BY <1>2 DEF IInv, TypeOK, QueueOpen, ReapExpired, Expired
  <2>2. /\ outcome' = [q \in Requests |-> IF q \in Expired THEN "expired" ELSE outcome[q]]
        /\ audit' = audit
    BY <1>2 DEF ReapExpired
  <2>3. "expired" \in Contract!Recordable
    BY DEF Contract!Recordable
  <2>q. QED  BY <1>1, <2>1, <2>2, <2>3 DEF Contract!Next, Contract!Settle
<1>3. ASSUME NEW r \in Requests, ReapRevoke(r)
      PROVE  [Contract!Next]_(Contract!vars)
  BY <1>1, <1>3, Stutters DEF ReapRevoke
<1>4. CASE ReapRecord
  <2>1. reaping \in Requests /\ audit[reaping] = <<>> /\ outcome[reaping] = "expired"
    BY <1>4 DEF IInv, TypeOK, ReaperOwns, ReapRecord
  <2>2. AuditInsert(reaping, "expired") /\ outcome' = outcome
    BY <1>4 DEF ReapRecord
  <2>q. QED  BY <1>1, <2>1, <2>2, Writes
<1>q. QED  BY <1>2, <1>3, <1>4 DEF ReaperStep

\* A crash settles as lost what was still in the queue.
LEMMA CrashContract ==
    ASSUME IInv, Crash
    PROVE  [Contract!Next]_(Contract!vars)
<1>1. Told' = Told
  BY DEF IInv, TypeOK, Crash, Told
<1>2. /\ outcome' = [q \in Requests |-> IF q \in pending THEN "lost" ELSE outcome[q]]
      /\ audit' = audit
  BY DEF Crash
<1>3. \A q \in pending : outcome[q] = None
  BY DEF IInv, QueueOpen
<1>4. CASE pending = {}
  <2>1. outcome' = outcome
    BY <1>2, <1>4 DEF IInv, TypeOK
  <2>q. QED  BY <1>1, <1>2, <2>1, Stutters
<1>5. CASE pending # {}
  <2>1. pending \in (SUBSET Requests) \ {{}}
    BY <1>5 DEF IInv, TypeOK
  <2>q. QED  BY <1>1, <1>2, <1>3, <2>1 DEF Contract!Next, Contract!Settle
<1>q. QED  BY <1>4, <1>5

\* Every step of the daemon is a step of the contract or changes nothing in it.
LEMMA StepContract ==
    ASSUME IInv, DiskWorks, [Next]_vars
    PROVE  [Contract!Next]_(Contract!vars)
<1>1. ASSUME NEW r \in Requests, Approve(r) \/ HandlerStep(r) \/ Disconnect(r)
      PROVE  [Contract!Next]_(Contract!vars)
  BY <1>1, HandlerContract
<1>2. ASSUME NEW c \in Callers,
             \/ CallerStep(c)
             \/ \E r \in Requests, word \in Words : Decide(c, r, word)
             \/ \E g \in grants : Redeem(c, g)
      PROVE  [Contract!Next]_(Contract!vars)
  BY <1>2, CallerContract
<1>3. CASE Subscribe \/ Push \/ Unsubscribe \/ Tick \/ Sleep \/ UNCHANGED vars
  <2>1. UNCHANGED <<handler, verdict, outcome, audit>>
    BY <1>3 DEF Subscribe, Push, Unsubscribe, Tick, Sleep, Elapsing, vars
  <2>2. Told' = Told
    BY <2>1 DEF Told
  <2>q. QED  BY <2>1, <2>2, Stutters
<1>q. QED  BY <1>1, <1>2, <1>3, ReaperContract, CrashContract DEF Next

\* The daemon, with a disk that accepts its writes, implements the approval
\* contract for any numbers of requests and callers: handlers, surfaces, buttons,
\* reaper and crashes together never settle a request twice, never write a
\* second or an untrue receipt, and never answer an unrecorded decision.
THEOREM ImplementsContract == DiskWorks => (Spec => ContractSpec)
<1>. SUFFICES ASSUME DiskWorks PROVE Spec => ContractSpec
  OBVIOUS
<1>1. Init => Contract!Init
  BY DEF Init, Contract!Init, Told
<1>2. IInv /\ [Next]_vars => [Contract!Next]_(Contract!vars)
  BY StepContract
<1>q. QED  BY <1>1, <1>2, OwnershipInvariant, PTL DEF Spec, ContractSpec, Contract!Spec

\* What any step does to an outcome, in terms of the contract: a settled fate
\* stays.  This needs no disk that works.
LEMMA OutcomeStays ==
    ASSUME IInv, [Next]_vars, NEW q \in Requests, outcome[q] # None
    PROVE  outcome'[q] = outcome[q]
<1>1. ASSUME NEW r \in Requests, Approve(r)
      PROVE  outcome'[q] = outcome[q]
  BY <1>1 DEF IInv, TypeOK, Fresh, Approve
<1>2. ASSUME NEW r \in Requests, HandlerStep(r) \/ Disconnect(r)
      PROVE  outcome' = outcome
  BY <1>2 DEF HandlerStep, Insert, Announce, Mint, Wake, Elapse, GiveUp, Record, Respond,
     Disconnect
<1>3. ASSUME NEW r, NEW d, TakeEntry(r, d)
      PROVE  outcome'[q] = outcome[q]
  BY <1>3 DEF IInv, TypeOK, QueueOpen, TakeEntry
<1>4. ASSUME NEW c \in Callers, NEW r \in Requests, NEW word \in Words, Decide(c, r, word)
      PROVE  outcome'[q] = outcome[q]
  BY <1>3, <1>4 DEF Decide
<1>5. ASSUME NEW c \in Callers, NEW g \in grants, Redeem(c, g)
      PROVE  outcome' = outcome
  BY <1>5 DEF Redeem
<1>6. ASSUME NEW c \in Callers, CallerStep(c)
      PROVE  outcome'[q] = outcome[q]
  <2>1. CASE Press(c)
    BY <1>3, <2>1 DEF Press
  <2>2. CASE Send(c) \/ Notify(c) \/ Revoke(c) \/ Learn(c) \/ RecordLate(c)
    BY <2>2 DEF Send, Notify, Revoke, Learn, RecordLate
  <2>q. QED  BY <1>6, <2>1, <2>2 DEF CallerStep
<1>7. CASE ReaperStep
  <2>1. CASE ReapExpired
    BY <2>1 DEF IInv, QueueOpen, ReapExpired, Expired
  <2>2. CASE (\E r \in Requests : ReapRevoke(r)) \/ ReapRecord
    BY <2>2 DEF ReapRevoke, ReapRecord
  <2>q. QED  BY <1>7, <2>1, <2>2 DEF ReaperStep
<1>8. CASE Crash
  BY <1>8 DEF IInv, QueueOpen, Crash
<1>9. CASE Subscribe \/ Push \/ Unsubscribe \/ Tick \/ Sleep \/ UNCHANGED vars
  BY <1>9 DEF Subscribe, Push, Unsubscribe, Tick, Sleep, Elapsing, vars
<1>q. QED
  BY <1>1, <1>2, <1>4, <1>5, <1>6, <1>7, <1>8, <1>9 DEF Next

\* However many surfaces answer at once, and whatever the reaper and crashes do
\* in between, the first answer wins.
THEOREM FirstAnswerStands == Spec => FirstAnswerWins
<1>1. IInv /\ [Next]_vars =>
          [\A r \in Requests : outcome[r] # None => outcome'[r] = outcome[r]]_vars
  BY OutcomeStays
<1>q. QED  BY <1>1, OwnershipInvariant, PTL DEF Spec, FirstAnswerWins

-----------------------------------------------------------------------------
(***************************************************************************)
(* The accounts.  The ownership invariant says who may write a receipt;    *)
(* here it is that somebody will, or that the decision was lost in the     *)
(* hand-off; and the like for the cards on the page and the learned rules. *)
(***************************************************************************)

\* A handler has no verdict before it has a decision or has given up.
Undecided ==
    \A r \in Requests :
        handler[r] \in {"new", "insert", "announce", "mint_allow", "mint_deny", "wait",
                        "elapsed"}
            => verdict[r] = None

\* An open channel has its handler at the other end.
Attended ==
    \A r \in Requests : chan[r] = "open" =>
        handler[r] \in {"announce", "mint_allow", "mint_deny", "wait", "elapsed"}

\* A call came over the interface or from a button, and learns only from a
\* "similar" decision.
Purposeful ==
    \A c \in Callers :
        /\ call[c].pc # "idle" => call[c].via \in {"api", "act"}
        /\ call[c].pc = "learn" => call[c].dec \in {"allow_similar", "block_similar"}

\* The handler of a catastrophic command never gets to the queue.
BlockedAtOnce ==
    \A r \in Requests : RiskOf[r] = "blocked" =>
        /\ r \notin pending
        /\ handler[r] \in {"new", "record", "respond", "done", "gone"}
        /\ verdict[r] \in {None, "auto_blocked"}

AInv ==
    /\ Undecided
    /\ Attended
    /\ Purposeful
    /\ BlockedAtOnce
    /\ ReceiptAccounted
    /\ PageMissesNothing
    /\ StaleCardsExpired
    /\ LearnedFromHuman

USE DEF None, HumanDecision, AutoDecision, Receipt, Answer, HandlerPc, ChanState,
        Idle, clockVars, reaperVars, diskVars, pageVars, At, GoTo, Serving

\* What a surface's call, the reaper, a page and the clocks leave alone.
LEMMA Frames ==
    /\ \A c \in Callers :
          CallerStep(c) \/ (\E r \in Requests, word \in Words : Decide(c, r, word))
                        \/ (\E g \in grants : Redeem(c, g))
              => UNCHANGED <<handler, verdict, crashes>>
    /\ ReaperStep => UNCHANGED <<handler, verdict, call, learned, pageVars, crashes>>
    /\ Subscribe \/ Push \/ Unsubscribe \/ Tick \/ Sleep
         => UNCHANGED <<handler, verdict, pending, chan, call, reaperVars, diskVars,
                        outcome, crashes>>
    /\ Tick \/ Sleep => UNCHANGED pageVars
    /\ \A r \in Requests : Approve(r) \/ HandlerStep(r) \/ Disconnect(r)
         => UNCHANGED <<call, reaperVars, learned, stream, shown, crashes>>
<1>1. ASSUME NEW c \in Callers,
             CallerStep(c) \/ (\E r \in Requests, word \in Words : Decide(c, r, word))
                           \/ (\E g \in grants : Redeem(c, g))
      PROVE  UNCHANGED <<handler, verdict, crashes>>
  BY <1>1 DEF CallerStep, Press, Send, Notify, Revoke, Learn, RecordLate, Decide, Redeem
<1>2. ReaperStep => UNCHANGED <<handler, verdict, call, learned, pageVars, crashes>>
  BY DEF ReaperStep, ReapExpired, ReapRevoke, ReapRecord
<1>3. Subscribe \/ Push \/ Unsubscribe \/ Tick \/ Sleep
         => UNCHANGED <<handler, verdict, pending, chan, call, reaperVars, diskVars,
                        outcome, crashes>>
  BY DEF Subscribe, Push, Unsubscribe, Tick, Sleep, Elapsing
<1>4. Tick \/ Sleep => UNCHANGED pageVars
  BY DEF Tick, Sleep, Elapsing
<1>5. ASSUME NEW r \in Requests, Approve(r) \/ HandlerStep(r) \/ Disconnect(r)
      PROVE  UNCHANGED <<call, reaperVars, learned, stream, shown, crashes>>
  BY <1>5 DEF Approve, HandlerStep, Insert, Announce, Mint, Wake, Elapse, GiveUp, Record,
     Respond, Disconnect
<1>q. QED  BY <1>1, <1>2, <1>3, <1>4, <1>5

\* A step of r's handler leaves the handlers and verdicts of the others alone.
LEMMA OneHandler ==
    ASSUME IInv, NEW r \in Requests, Approve(r) \/ HandlerStep(r) \/ Disconnect(r)
    PROVE  /\ \A q \in Requests \ {r} :
                 /\ handler'[q] = handler[q] /\ verdict'[q] = verdict[q]
                 /\ outcome'[q] = outcome[q] /\ chan'[q] = chan[q]
                 /\ q \in pending' <=> q \in pending
<1>1. CASE Approve(r)
  BY <1>1 DEF IInv, TypeOK, Approve
<1>2. CASE Insert(r) \/ Announce(r) \/ Mint(r) \/ Elapse(r) \/ Record(r) \/ Respond(r)
  BY <1>2 DEF IInv, TypeOK, Insert, Announce, Mint, Elapse, Record, Respond
<1>3. CASE Wake(r) \/ GiveUp(r) \/ Disconnect(r)
  BY <1>3 DEF IInv, TypeOK, Wake, GiveUp, Disconnect, DropReceiver
<1>q. QED  BY <1>1, <1>2, <1>3 DEF HandlerStep

\* No step gives a handler a verdict before its decision or its deadline.
LEMMA UndecidedKept == IInv /\ Undecided /\ [Next]_vars => Undecided'
<1>. SUFFICES ASSUME IInv, Undecided, [Next]_vars PROVE Undecided'
  OBVIOUS
<1>1. ASSUME NEW r \in Requests, Approve(r) \/ HandlerStep(r) \/ Disconnect(r)
      PROVE  Undecided'
  <2>1. \/ /\ verdict'[r] = verdict[r]
           /\ handler[r] \in {"new", "insert", "announce", "mint_allow", "mint_deny", "wait"}
        \/ handler'[r] \in {"record", "respond", "done", "gone"}
    BY <1>1 DEF IInv, TypeOK, Approve, HandlerStep, Insert, Announce, Mint, Wake, Elapse,
       GiveUp, Record, Respond, Disconnect
  <2>2. \A q \in Requests \ {r} : handler'[q] = handler[q] /\ verdict'[q] = verdict[q]
    BY <1>1, OneHandler
  <2>q. QED  BY <2>1, <2>2 DEF Undecided
<1>2. CASE UNCHANGED <<handler, verdict>>
  BY <1>2 DEF Undecided
<1>3. CASE Crash
  BY <1>3 DEF IInv, TypeOK, Undecided, Crash
<1>q. QED  BY <1>1, <1>2, <1>3, Frames DEF Next, vars

\* No step lets a handler leave while its channel is open.
LEMMA AttendedKept == IInv /\ Attended /\ [Next]_vars => Attended'
<1>. SUFFICES ASSUME IInv, Attended, [Next]_vars PROVE Attended'
  OBVIOUS
<1>1. ASSUME NEW r \in Requests, Approve(r) \/ HandlerStep(r) \/ Disconnect(r)
      PROVE  Attended'
  <2>1. chan'[r] = "open" =>
            \/ handler'[r] \in {"announce", "mint_allow", "mint_deny", "wait", "elapsed"}
            \/ chan[r] = "open" /\ handler[r] \in {"new", "record", "respond"}
    BY <1>1 DEF IInv, TypeOK, Approve, HandlerStep, Insert, Announce, Mint, Wake, Elapse,
       GiveUp, Record, Respond, Disconnect, DropReceiver
  <2>2. \A q \in Requests \ {r} : handler'[q] = handler[q] /\ chan'[q] = chan[q]
    BY <1>1, OneHandler
  <2>q. QED  BY <2>1, <2>2 DEF Attended
<1>2. ASSUME NEW c \in Callers,
             CallerStep(c) \/ (\E r \in Requests, word \in Words : Decide(c, r, word))
                           \/ (\E g \in grants : Redeem(c, g))
      PROVE  Attended'
  <2>1. \A r \in Requests : chan'[r] = "open" => chan[r] = "open"
    BY <1>2 DEF IInv, TypeOK, CallsWellFormed, CallerStep, Press, Send, Notify, Revoke,
       Learn, RecordLate, Decide, Redeem
  <2>q. QED  BY <1>2, <2>1, Frames DEF Attended
<1>3. CASE ReaperStep
  <2>1. \A r \in Requests : chan'[r] = "open" => chan[r] = "open"
    BY <1>3 DEF ReaperStep, ReapExpired, ReapRevoke, ReapRecord
  <2>q. QED  BY <1>3, <2>1, Frames DEF Attended
<1>4. CASE Crash
  BY <1>4 DEF Attended, Crash
<1>5. CASE UNCHANGED <<handler, chan>>
  BY <1>5 DEF Attended
<1>q. QED  BY <1>1, <1>2, <1>3, <1>4, <1>5, Frames DEF Next, vars

\* How a call that was accepted proceeds: it keeps what it is about until it
\* ends, and ends with an unwritten receipt only in record_late_decision.
LEMMA CallMoves ==
    ASSUME IInv, NEW c \in Callers, CallerStep(c)
    PROVE  /\ call[c].pc # "idle"
           /\ \A d \in Callers \ {c} : call'[d] = call[d]
           /\ call'[c].pc # "idle" => /\ call'[c].req = call[c].req
                                      /\ call'[c].dec = call[c].dec
                                      /\ call'[c].via = call[c].via
           /\ Press(c) => \/ call'[c].pc = "send" /\ call'[c].entry = "held"
                          \/ call'[c].pc = "revoke" /\ call'[c].entry = "absent"
           /\ Send(c) =>
                 /\ call'[c].pc = IF call[c].via = "api" THEN "notify" ELSE "revoke"
                 /\ call'[c].entry = IF chan[call[c].req] = "open"
                                     THEN "delivered" ELSE "undelivered"
           /\ Notify(c) \/ Revoke(c) \/ Learn(c) =>
                 \/ call'[c].pc # "idle" /\ call'[c].entry = call[c].entry
                 \/ call'[c].pc = "idle" /\ call[c].entry \in {"absent", "delivered"}
           /\ Revoke(c) /\ call[c].via = "act" /\ call[c].entry # "absent" =>
                 call'[c].pc = "notify"
           /\ call'[c].pc = "learn" => call[c].dec \in {"allow_similar", "block_similar"}
           /\ RecordLate(c) => call'[c].pc = "idle"
<1>. USE DEF CallerPc
<1>1. call \in [Callers -> CallType] /\ call[c] \in CallType /\ call[c].entry \in EntryState
  BY DEF IInv, TypeOK, CallType
<1>2. CASE Press(c)
  <2>1. call[c].entry = "absent" /\ call[c].pc = "press"
    BY <1>2 DEF IInv, CallsWellFormed, Press
  <2>2. CASE call' = [call EXCEPT ![c] = [call[c] EXCEPT !.pc = "send", !.entry = "held"]]
    <3>1. call'[c] = [call[c] EXCEPT !.pc = "send", !.entry = "held"]
      BY <1>1, <2>2
    <3>2. \A d \in Callers \ {c} : call'[d] = call[d]
      BY <1>1, <2>2
    <3>3. /\ call'[c].pc = "send" /\ call'[c].entry = "held" /\ call'[c].req = call[c].req
          /\ call'[c].dec = call[c].dec /\ call'[c].via = call[c].via
      BY <1>1, <3>1 DEF CallType
    <3>q. QED
      BY <1>2, <2>1, <3>2, <3>3 DEF Press, Send, Notify, Revoke, Learn, RecordLate
  <2>3. CASE Proceed(c, "revoke")
    BY <1>1, <1>2, <2>1, <2>3, Proceeds DEF Press, Send, Notify, Revoke, Learn, RecordLate
  <2>q. QED  BY <1>2, <2>2, <2>3 DEF Press
<1>3. CASE Send(c)
  <2>. DEFINE sent == IF chan[call[c].req] = "open" THEN "delivered" ELSE "undelivered"
              next == IF call[c].via = "api" THEN "notify" ELSE "revoke"
  <2>1. call' = [call EXCEPT ![c] = [call[c] EXCEPT !.entry = sent, !.pc = next]]
    BY <1>1, <1>3 DEF Send
  <2>2. next \in {"notify", "revoke"}
    OBVIOUS
  <2>. HIDE DEF sent, next
  <2>3. /\ \A d \in Callers \ {c} : call'[d] = call[d]
        /\ call'[c] = [call[c] EXCEPT !.entry = sent, !.pc = next]
    BY <1>1, <2>1
  <2>4. /\ call'[c].req = call[c].req /\ call'[c].dec = call[c].dec
        /\ call'[c].via = call[c].via /\ call'[c].pc = next /\ call'[c].entry = sent
    BY <1>1, <2>3 DEF CallType
  <2>q. QED
    BY <1>3, <2>2, <2>3, <2>4
    DEF sent, next, Press, Send, Notify, Revoke, Learn, RecordLate
<1>5. LastStep(c) \in {"idle", "record"} /\ (LastStep(c) = "idle" => call[c].entry = "delivered")
  BY DEF LastStep
<1>6. CASE Notify(c)
  <2>1. PICK pc \in CallerPc :
            /\ Proceed(c, pc)
            /\ pc = "idle" => call[c].entry \in {"absent", "delivered"}
            /\ pc = "learn" => call[c].dec \in {"allow_similar", "block_similar"}
    BY <1>5, <1>6 DEF Notify
  <2>2. /\ \A d \in Callers \ {c} : call'[d] = call[d]
        /\ call'[c].pc = pc
        /\ pc # "idle" => /\ call'[c].req = call[c].req /\ call'[c].dec = call[c].dec
                          /\ call'[c].via = call[c].via
                          /\ call'[c].entry = call[c].entry
    BY <1>1, <2>1, Proceeds
  <2>q. QED
    BY <1>6, <2>1, <2>2 DEF Press, Send, Notify, Revoke, Learn, RecordLate
<1>7. CASE Revoke(c)
  <2>1. PICK pc \in CallerPc :
            /\ Proceed(c, pc)
            /\ pc = "idle" => call[c].entry \in {"absent", "delivered"}
            /\ pc = "learn" => call[c].dec \in {"allow_similar", "block_similar"}
            /\ call[c].via = "act" /\ call[c].entry # "absent" => pc = "notify"
    BY <1>5, <1>7 DEF Revoke
  <2>2. /\ \A d \in Callers \ {c} : call'[d] = call[d]
        /\ call'[c].pc = pc
        /\ pc # "idle" => /\ call'[c].req = call[c].req /\ call'[c].dec = call[c].dec
                          /\ call'[c].via = call[c].via
                          /\ call'[c].entry = call[c].entry
    BY <1>1, <2>1, Proceeds
  <2>q. QED
    BY <1>7, <2>1, <2>2 DEF Press, Send, Notify, Revoke, Learn, RecordLate
<1>8. CASE Learn(c)
  <2>1. PICK pc \in CallerPc :
            /\ Proceed(c, pc)
            /\ pc = "idle" => call[c].entry \in {"absent", "delivered"}
            /\ pc = "learn" => call[c].dec \in {"allow_similar", "block_similar"}
    BY <1>5, <1>8 DEF Learn
  <2>2. /\ \A d \in Callers \ {c} : call'[d] = call[d]
        /\ call'[c].pc = pc
        /\ pc # "idle" => /\ call'[c].req = call[c].req /\ call'[c].dec = call[c].dec
                          /\ call'[c].via = call[c].via
                          /\ call'[c].entry = call[c].entry
    BY <1>1, <2>1, Proceeds
  <2>q. QED
    BY <1>8, <2>1, <2>2 DEF Press, Send, Notify, Revoke, Learn, RecordLate
<1>9. CASE RecordLate(c)
  BY <1>1, <1>9, Proceeds DEF Press, Send, Notify, Revoke, Learn, RecordLate
<1>q. QED  BY <1>2, <1>3, <1>6, <1>7, <1>8, <1>9 DEF CallerStep

\* Accepting a call.
LEMMA DecideStarts ==
    ASSUME IInv, NEW c \in Callers, NEW r \in Requests, NEW word \in Words,
           Decide(c, r, word)
    PROVE  /\ call[c].pc = "idle" /\ call[c].entry = "absent"
           /\ \A d \in Callers \ {c} : call'[d] = call[d]
           /\ call'[c].pc = "send" /\ call'[c].via = "api" /\ call'[c].entry = "held"
           /\ call'[c].req = r /\ call'[c].dec = DecisionOf(word)
BY DEF IInv, TypeOK, CallsWellFormed, Decide

\* A button's call starts with the request and the decision of its token.
LEMMA RedeemStarts ==
    ASSUME IInv, NEW c \in Callers, NEW g \in grants, Redeem(c, g)
    PROVE  /\ call[c].pc = "idle" /\ call[c].entry = "absent"
           /\ \A d \in Callers \ {c} : call'[d] = call[d]
           /\ call'[c].pc = "press" /\ call'[c].via = "act" /\ call'[c].entry = "absent"
           /\ call'[c].req = g[1] /\ call'[c].dec = g[2]
BY DEF IInv, TypeOK, CallsWellFormed, Redeem

\* No step makes a call learn from a decision that is for one request only.
LEMMA PurposefulKept == IInv /\ Purposeful /\ [Next]_vars => Purposeful'
<1>. SUFFICES ASSUME IInv, Purposeful, [Next]_vars PROVE Purposeful'
  OBVIOUS
<1>1. ASSUME NEW c \in Callers, CallerStep(c)
      PROVE  Purposeful'
  BY <1>1, CallMoves DEF Purposeful
<1>2. ASSUME NEW c \in Callers,
             \/ \E r \in Requests, word \in Words : Decide(c, r, word)
             \/ \E g \in grants : Redeem(c, g)
      PROVE  Purposeful'
  <2>1. /\ \A d \in Callers \ {c} : call'[d] = call[d]
        /\ call'[c].pc # "learn" /\ call'[c].via \in {"api", "act"}
    <3>1. ASSUME NEW r \in Requests, NEW word \in Words, Decide(c, r, word)
          PROVE  /\ \A d \in Callers \ {c} : call'[d] = call[d]
                 /\ call'[c].pc = "send" /\ call'[c].via = "api"
      BY <3>1, DecideStarts
    <3>2. ASSUME NEW g \in grants, Redeem(c, g)
          PROVE  /\ \A d \in Callers \ {c} : call'[d] = call[d]
                 /\ call'[c].pc = "press" /\ call'[c].via = "act"
      BY <3>2, RedeemStarts
    <3>q. QED  BY <1>2, <3>1, <3>2
  <2>q. QED  BY <2>1 DEF Purposeful
<1>3. CASE Crash
  BY <1>3 DEF Purposeful, Crash
<1>4. CASE UNCHANGED call
  BY <1>4 DEF Purposeful
<1>q. QED  BY <1>1, <1>2, <1>3, <1>4, Frames DEF Next, vars

\* The catastrophic tier is denied whatever the rules say.
LEMMA BlockedKept == IInv /\ BlockedAtOnce /\ [Next]_vars => BlockedAtOnce'
<1>. SUFFICES ASSUME IInv, BlockedAtOnce, [Next]_vars, NEW q \in Requests,
                     RiskOf[q] = "blocked"
              PROVE  /\ q \notin pending'
                     /\ handler'[q] \in {"new", "record", "respond", "done", "gone"}
                     /\ verdict'[q] \in {None, "auto_blocked"}
  BY DEF BlockedAtOnce
<1>0. /\ q \notin pending
      /\ handler[q] \in {"new", "record", "respond", "done", "gone"}
      /\ verdict[q] \in {None, "auto_blocked"}
  BY DEF BlockedAtOnce
<1>1. CASE Approve(q)
  <2>1. Verdict(RiskOf[q], MatchingRules(q), Defaults) = "deny"
    BY DEF Verdict
  <2>q. QED  BY <1>0, <1>1, <2>1 DEF IInv, TypeOK, Approve
<1>2. CASE Record(q) \/ Respond(q)
  BY <1>0, <1>2 DEF IInv, TypeOK, Record, Respond
<1>3. CASE Insert(q) \/ Announce(q) \/ Mint(q) \/ Wake(q) \/ Elapse(q) \/ GiveUp(q)
            \/ Disconnect(q)
  BY <1>0, <1>3 DEF Insert, Announce, Mint, Wake, Elapse, GiveUp, Disconnect
<1>4. ASSUME NEW r \in Requests \ {q}, Approve(r) \/ HandlerStep(r) \/ Disconnect(r)
      PROVE  handler'[q] = handler[q] /\ verdict'[q] = verdict[q] /\ q \notin pending'
  BY <1>0, <1>4, OneHandler
<1>5. ASSUME NEW c \in Callers,
             \/ CallerStep(c)
             \/ \E r \in Requests, word \in Words : Decide(c, r, word)
             \/ \E g \in grants : Redeem(c, g)
      PROVE  pending' \subseteq pending
  BY <1>5 DEF CallerStep, Press, Send, Notify, Revoke, Learn, RecordLate, Decide, Redeem,
     TakeEntry
<1>6. ReaperStep => pending' \subseteq pending
  BY DEF ReaperStep, ReapExpired, ReapRevoke, ReapRecord
<1>7. CASE Crash
  BY <1>0, <1>7 DEF Crash
<1>q. QED
  BY <1>0, <1>1, <1>2, <1>3, <1>4, <1>5, <1>6, <1>7, Frames DEF Next, HandlerStep, vars

\* Only decide's "learn" step writes a rule, and what it writes is what the human
\* decided about that request.
LEMMA LearnedKept ==
    ASSUME IInv, Purposeful, LearnedFromHuman, [Next]_vars
    PROVE  LearnedFromHuman'
<1>1. ASSUME NEW c \in Callers, Learn(c)
      PROVE  LearnedFromHuman'
  <2>1. /\ call[c].req \in Requests /\ ShapeOf[call[c].req] \in Shapes
        /\ call[c].dec \in {"allow_similar", "block_similar"}
        /\ call[c].entry # "absent" /\ outcome' = outcome
    BY <1>1, RequestAttributes DEF IInv, CallsWellFormed, Purposeful, Learn
  <2>2. outcome[call[c].req] = call[c].dec
    BY <2>1 DEF IInv, CallerOwns, Owns
  <2>3. PICK rule : /\ rule = IF call[c].dec = "allow_similar" THEN "allow" ELSE "deny"
                    /\ learned' = [learned EXCEPT ![ShapeOf[call[c].req]] = rule]
                         \/ learned' = learned
    BY <1>1 DEF Learn
  <2>4. ASSUME NEW s \in Shapes, learned'[s] # None, learned'[s] # learned[s]
        PROVE  s = ShapeOf[call[c].req] /\ learned'[s] = rule
    BY <2>3, <2>4 DEF IInv, TypeOK
  <2>q. QED  BY <2>1, <2>2, <2>3, <2>4 DEF LearnedFromHuman
<1>2. CASE learned' = learned
  <2>1. ASSUME NEW s \in Shapes, learned[s] # None
        PROVE  \E r \in Requests :
                  /\ ShapeOf[r] = s
                  /\ outcome'[r] = IF learned[s] = "allow" THEN "allow_similar"
                                                          ELSE "block_similar"
    <3>1. PICK r \in Requests :
                  /\ ShapeOf[r] = s
                  /\ outcome[r] = IF learned[s] = "allow" THEN "allow_similar"
                                                         ELSE "block_similar"
      BY <2>1 DEF LearnedFromHuman
    <3>2. outcome'[r] = outcome[r]
      BY <3>1, OutcomeStays
    <3>q. QED  BY <3>1, <3>2
  <2>q. QED  BY <1>2, <2>1 DEF LearnedFromHuman
<1>3. ASSUME NEW c \in Callers, NEW r \in Requests, NEW word \in Words, Decide(c, r, word)
      PROVE  learned' = learned
  BY <1>3 DEF Decide
<1>4. ASSUME NEW c \in Callers, NEW g \in grants, Redeem(c, g)
      PROVE  learned' = learned
  BY <1>4 DEF Redeem
<1>5. ASSUME NEW c \in Callers, CallerStep(c)
      PROVE  Learn(c) \/ learned' = learned
  BY <1>5 DEF CallerStep, Press, Send, Notify, Revoke, RecordLate
<1>6. CASE Crash
  BY <1>2, <1>6 DEF Crash
<1>q. QED  BY <1>1, <1>2, <1>3, <1>4, <1>5, <1>6, Frames DEF Next, vars

\* What the steps of the tasks mean to a page: who puts a request into the
\* queue, who takes one out, and that a broadcast is never undone.
LEMMA HandlerQueues ==
    ASSUME IInv, NEW r \in Requests, Approve(r) \/ HandlerStep(r) \/ Disconnect(r)
    PROVE  /\ pending \subseteq pending'
           /\ pending' \subseteq pending \cup {r}
           /\ r \in pending' => r \in pending \/ handler'[r] = "announce"
           /\ dirty => dirty'
           /\ stream = "open" /\ ~dirty' /\ handler[r] = "announce"
                  => handler'[r] = "announce"
<1>1. CASE Announce(r)
  BY <1>1 DEF IInv, TypeOK, Announce, NotifyChange
<1>2. CASE Insert(r)
  BY <1>2 DEF IInv, TypeOK, Insert
<1>3. CASE Approve(r) \/ Mint(r) \/ Wake(r) \/ Elapse(r) \/ GiveUp(r) \/ Record(r)
            \/ Respond(r) \/ Disconnect(r)
  BY <1>3 DEF IInv, TypeOK, Approve, Mint, Wake, Elapse, GiveUp, Record, Respond,
     Disconnect
<1>q. QED  BY <1>1, <1>2, <1>3 DEF HandlerStep

\* A call only takes requests out of the queue, and leaves stream, cards and handlers alone.
LEMMA CallerQueues ==
    ASSUME IInv, NEW c \in Callers,
           \/ CallerStep(c)
           \/ \E r \in Requests, word \in Words : Decide(c, r, word)
           \/ \E g \in grants : Redeem(c, g)
    PROVE  /\ pending' \subseteq pending
           /\ UNCHANGED <<stream, shown, handler>>
           /\ dirty => dirty'
<1>1. CASE Notify(c)
  BY <1>1 DEF IInv, TypeOK, Notify, NotifyChange
<1>2. CASE \/ Press(c) \/ Send(c) \/ Revoke(c) \/ Learn(c) \/ RecordLate(c)
           \/ \E r \in Requests, word \in Words : Decide(c, r, word)
           \/ \E g \in grants : Redeem(c, g)
  BY <1>2 DEF Press, Send, Revoke, Learn, RecordLate, Decide, Redeem, TakeEntry
<1>q. QED  BY <1>1, <1>2 DEF CallerStep

\* Every step keeps the page from missing a request.
LEMMA PageKept ==
    ASSUME IInv, PageMissesNothing, [Next]_vars
    PROVE  PageMissesNothing'
<1>0. pending \subseteq Requests
  BY DEF IInv, TypeOK
<1>1. ASSUME NEW r \in Requests, Approve(r) \/ HandlerStep(r) \/ Disconnect(r)
      PROVE  PageMissesNothing'
  <2>. SUFFICES ASSUME stream' = "open", ~dirty', NEW q \in pending'
                PROVE  q \in shown' \/ handler'[q] = "announce"
    BY DEF PageMissesNothing
  <2>1. stream = "open" /\ shown' = shown /\ ~dirty
    BY <1>1, Frames, HandlerQueues
  <2>2. CASE q = r
    BY <1>1, <2>1, <2>2, HandlerQueues DEF PageMissesNothing
  <2>3. CASE q # r
    <3>1. q \in pending /\ q \in Requests \ {r}
      BY <1>0, <1>1, <2>3, HandlerQueues
    <3>2. handler'[q] = handler[q]
      BY <1>1, <3>1, OneHandler
    <3>q. QED  BY <2>1, <3>1, <3>2 DEF PageMissesNothing
  <2>q. QED  BY <2>2, <2>3
<1>2. ASSUME NEW c \in Callers,
             \/ CallerStep(c)
             \/ \E r \in Requests, word \in Words : Decide(c, r, word)
             \/ \E g \in grants : Redeem(c, g)
      PROVE  PageMissesNothing'
  <2>1. /\ pending' \subseteq pending
        /\ UNCHANGED <<stream, shown, handler>>
        /\ dirty => dirty'
    BY <1>2, CallerQueues
  <2>q. QED  BY <2>1 DEF PageMissesNothing
<1>3. CASE ReaperStep
  <2>1. UNCHANGED <<handler, pageVars>>
    BY <1>3, Frames
  <2>2. pending' \subseteq pending
    BY <1>3 DEF ReaperStep, ReapExpired, ReapRevoke, ReapRecord
  <2>q. QED  BY <2>1, <2>2 DEF PageMissesNothing
<1>4. CASE Subscribe \/ Push \/ Unsubscribe
  BY <1>4 DEF PageMissesNothing, Subscribe, Push, Unsubscribe
<1>5. CASE Tick \/ Sleep \/ UNCHANGED vars
  BY <1>5, Frames DEF PageMissesNothing, vars
<1>6. CASE Crash
  BY <1>6 DEF PageMissesNothing, Crash
<1>q. QED  BY <1>1, <1>2, <1>3, <1>4, <1>5, <1>6 DEF Next

\* A call that owes a broadcast owes it until it makes it.
LEMMA NotifyStaysOwed ==
    ASSUME IInv, Purposeful, NEW c \in Callers, CallerStep(c), ~Notify(c),
           NEW q \in Requests, OwesNotify(q)
    PROVE  OwesNotify(q)'
<1>1. PICK d \in Callers :
          /\ call[d].req = q /\ call[d].entry # "absent"
          /\ \/ call[d].pc \in {"send", "notify"}
             \/ call[d].pc = "revoke" /\ call[d].via = "act"
  BY DEF OwesNotify
<1>2. CASE d # c
  <2>1. call'[d] = call[d]
    BY <1>2, CallMoves
  <2>q. QED  BY <1>1, <2>1 DEF OwesNotify
<1>3. CASE d = c
  <2>1. Send(c) \/ Revoke(c)
    BY <1>1, <1>3 DEF CallerStep, Press, Learn, RecordLate, IInv, CallsWellFormed
  <2>2. call[c].via \in {"api", "act"}
    BY <1>1, <1>3 DEF Purposeful
  <2>3. CASE Send(c)
    <3>1. /\ call'[c].pc = IF call[c].via = "api" THEN "notify" ELSE "revoke"
          /\ call'[c].entry \in {"delivered", "undelivered"}
      BY <2>3, CallMoves
    <3>2. call'[c].pc # "idle"
      BY <3>1
    <3>3. call'[c].req = call[c].req /\ call'[c].via = call[c].via
      BY <3>2, CallMoves
    <3>q. QED  BY <1>1, <1>3, <2>2, <3>1, <3>3 DEF OwesNotify
  <2>4. CASE Revoke(c)
    <3>1. call[c].via = "act" /\ call[c].entry # "absent"
      BY <1>1, <1>3, <2>4 DEF Revoke
    <3>2. call'[c].pc = "notify"
      BY <2>4, <3>1, CallMoves
    <3>3. call'[c].req = call[c].req /\ call'[c].entry = call[c].entry
      BY <2>4, <3>2, CallMoves
    <3>q. QED  BY <1>1, <1>3, <3>1, <3>2, <3>3 DEF OwesNotify
  <2>q. QED  BY <2>1, <2>3, <2>4
<1>q. QED  BY <1>2, <1>3

\* A call that is accepted disturbs none that owes a broadcast.
LEMMA NotifyUndisturbed ==
    ASSUME NEW c \in Callers, call[c].entry = "absent",
           \A d \in Callers \ {c} : call'[d] = call[d],
           NEW q \in Requests, OwesNotify(q)
    PROVE  OwesNotify(q)'
BY DEF OwesNotify

\* Every step keeps the cards of requests that cannot be answered to the expired ones.
LEMMA StaleKept ==
    ASSUME IInv, Purposeful, StaleCardsExpired, [Next]_vars
    PROVE  StaleCardsExpired'
<1>0. pending \subseteq Requests /\ shown \subseteq Requests
  BY DEF IInv, TypeOK
<1>1. ASSUME NEW q \in Requests, outcome[q] = "expired"
      PROVE  outcome'[q] = "expired"
  BY <1>1, OutcomeStays
<1>2. ASSUME NEW r \in Requests, Approve(r) \/ HandlerStep(r) \/ Disconnect(r)
      PROVE  StaleCardsExpired'
  <2>1. UNCHANGED <<call, stream, shown>>
    BY <1>2, Frames
  <2>2. pending \subseteq pending' /\ (dirty => dirty')
    BY <1>2, HandlerQueues
  <2>3. \A q \in Requests : OwesNotify(q)' <=> OwesNotify(q)
    BY <2>1 DEF OwesNotify
  <2>q. QED  BY <1>0, <1>1, <2>1, <2>2, <2>3 DEF StaleCardsExpired
<1>3. ASSUME NEW c \in Callers, NEW r \in Requests, NEW word \in Words, Decide(c, r, word)
      PROVE  StaleCardsExpired'
  <2>1. UNCHANGED <<stream, dirty, shown>> /\ pending' = pending \ {r}
    BY <1>3 DEF Decide, TakeEntry
  <2>2. OwesNotify(r)'
    <3>1. call'[c].pc = "send" /\ call'[c].req = r /\ call'[c].entry = "held"
      BY <1>3, DecideStarts
    <3>q. QED  BY <3>1 DEF OwesNotify
  <2>3. ASSUME NEW q \in Requests, OwesNotify(q)
        PROVE  OwesNotify(q)'
    BY <1>3, <2>3, DecideStarts, NotifyUndisturbed
  <2>q. QED  BY <1>0, <1>1, <2>1, <2>2, <2>3 DEF StaleCardsExpired
<1>4. ASSUME NEW c \in Callers, NEW g \in grants, Redeem(c, g)
      PROVE  StaleCardsExpired'
  <2>1. UNCHANGED <<stream, dirty, shown, pending>>
    BY <1>4 DEF Redeem
  <2>2. ASSUME NEW q \in Requests, OwesNotify(q)
        PROVE  OwesNotify(q)'
    BY <1>4, <2>2, RedeemStarts, NotifyUndisturbed
  <2>q. QED  BY <1>0, <1>1, <2>1, <2>2 DEF StaleCardsExpired
<1>5. ASSUME NEW c \in Callers, CallerStep(c)
      PROVE  StaleCardsExpired'
  <2>1. CASE Notify(c)
    <3>1. stream = "open" => dirty'
      BY <2>1 DEF Notify, NotifyChange
    <3>2. stream' = stream
      BY <2>1 DEF Notify
    <3>q. QED  BY <3>1, <3>2 DEF StaleCardsExpired
  <2>2. CASE ~Notify(c)
    <3>1. UNCHANGED <<stream, shown>> /\ (dirty => dirty')
      BY <1>5, CallerQueues
    <3>2. ASSUME NEW q \in Requests, OwesNotify(q)
          PROVE  OwesNotify(q)'
      BY <1>5, <2>2, <3>2, NotifyStaysOwed
    <3>3. ASSUME NEW q \in pending, q \notin pending'
          PROVE  OwesNotify(q)'
      <4>1. Press(c) /\ q = call[c].req
        BY <1>5, <3>3 DEF CallerStep, Press, Send, Notify, Revoke, Learn, RecordLate,
           TakeEntry
      <4>2. call' = [call EXCEPT ![c] = [call[c] EXCEPT !.pc = "send", !.entry = "held"]]
        BY <3>3, <4>1 DEF Press
      <4>3. call'[c].pc = "send" /\ call'[c].entry = "held"
        BY <4>2 DEF IInv, TypeOK, CallType
      <4>4. call'[c].req = q
        BY <1>5, <4>1, <4>3, CallMoves
      <4>q. QED  BY <4>3, <4>4 DEF OwesNotify
    <3>q. QED  BY <1>0, <1>1, <3>1, <3>2, <3>3 DEF StaleCardsExpired
  <2>q. QED  BY <2>1, <2>2
<1>6. CASE ReaperStep
  <2>1. UNCHANGED <<call, pageVars>>
    BY <1>6, Frames
  <2>2. \A q \in Requests : OwesNotify(q)' <=> OwesNotify(q)
    BY <2>1 DEF OwesNotify
  <2>3. ASSUME NEW q \in pending, q \notin pending'
        PROVE  outcome'[q] = "expired"
    <3>1. ReapExpired /\ q \in Expired
      BY <1>6, <2>3 DEF ReaperStep, ReapExpired, ReapRevoke, ReapRecord
    <3>q. QED  BY <1>0, <3>1 DEF ReapExpired
  <2>q. QED  BY <1>0, <1>1, <2>1, <2>2, <2>3 DEF StaleCardsExpired
<1>7. CASE Subscribe \/ Push \/ Unsubscribe
  BY <1>7 DEF StaleCardsExpired, Subscribe, Push, Unsubscribe
<1>8. CASE Tick \/ Sleep \/ UNCHANGED vars
  <2>1. UNCHANGED <<call, pageVars, pending, outcome>>
    BY <1>8, Frames DEF vars
  <2>q. QED  BY <2>1 DEF StaleCardsExpired, OwesNotify
<1>9. CASE Crash
  BY <1>9 DEF StaleCardsExpired, Crash
<1>q. QED  BY <1>2, <1>3, <1>4, <1>5, <1>6, <1>7, <1>8, <1>9 DEF Next

\* What ReceiptAccounted says of one request.
Accounted(r) == audit[r] = <<outcome[r]>> \/ Owed(r) \/ LostInHandoff(r)

\* With a disk that works an audit insert never meets a row: the row that is
\* there stays, and the row that is written is the outcome.
LEMMA RowsStay ==
    ASSUME IInv, DiskWorks, [Next]_vars, NEW q \in Requests, audit[q] # <<>>
    PROVE  audit'[q] = audit[q]
<1>1. ASSUME NEW r \in Requests, NEW d \in Receipt, AuditInsert(r, d), audit[r] = <<>>
      PROVE  audit'[q] = audit[q]
  BY <1>1, AuditWritten DEF IInv
<1>2. ASSUME NEW r \in Requests, Record(r)
      PROVE  audit'[q] = audit[q]
  <2>1. AuditInsert(r, verdict[r]) /\ verdict[r] \in Receipt /\ audit[r] = <<>>
    BY <1>2 DEF IInv, HandlerOwns, Record
  <2>q. QED  BY <1>1, <2>1
<1>3. ASSUME NEW c \in Callers, RecordLate(c)
      PROVE  audit'[q] = audit[q]
  <2>1. /\ AuditInsert(call[c].req, call[c].dec) /\ call[c].dec \in Receipt
        /\ call[c].req \in Requests /\ call[c].entry = "undelivered"
    BY <1>3 DEF IInv, CallsWellFormed, RecordLate
  <2>2. audit[call[c].req] = <<>>
    BY <2>1 DEF IInv, CallerOwns, Owns
  <2>q. QED  BY <1>1, <2>1, <2>2
<1>4. CASE ReapRecord
  <2>1. /\ AuditInsert(reaping, "expired") /\ reaping \in Requests /\ audit[reaping] = <<>>
    BY <1>4 DEF IInv, TypeOK, ReaperOwns, ReapRecord
  <2>q. QED  BY <1>1, <2>1
<1>5. ASSUME NEW r \in Requests, Approve(r) \/ HandlerStep(r) \/ Disconnect(r), ~Record(r)
      PROVE  audit' = audit
  BY <1>5 DEF Approve, HandlerStep, Insert, Announce, Mint, Wake, Elapse, GiveUp, Respond,
     Disconnect
<1>6. ASSUME NEW c \in Callers,
             \/ CallerStep(c) /\ ~RecordLate(c)
             \/ \E r \in Requests, word \in Words : Decide(c, r, word)
             \/ \E g \in grants : Redeem(c, g)
      PROVE  audit' = audit
  BY <1>6 DEF CallerStep, Press, Send, Notify, Revoke, Learn, Decide, Redeem
<1>7. CASE ReapExpired \/ \E r \in Requests : ReapRevoke(r)
  BY <1>7 DEF ReapExpired, ReapRevoke
<1>8. CASE Crash
  BY <1>8 DEF Crash
<1>q. QED
  BY <1>2, <1>3, <1>4, <1>5, <1>6, <1>7, <1>8, Frames DEF Next, ReaperStep, vars

\* A decision that reached the channel stays there, and the handler takes it
\* out or is on its way out.
LEMMA HandedOver ==
    ASSUME IInv, Undecided, [Next]_vars, ~Crash, NEW q \in Requests,
           chan[q] \in HumanDecision, handler[q] # "record",
           \/ handler[q] \in {"announce", "mint_allow", "mint_deny", "wait"}
           \/ LostInHandoff(q)
    PROVE  Owed(q)' \/ LostInHandoff(q)'
<1>0. \/ handler[q] \in {"announce", "mint_allow", "mint_deny", "wait", "elapsed"}
            /\ verdict[q] \notin HumanDecision
      \/ handler[q] \in {"respond", "done", "gone"} /\ verdict[q] \notin HumanDecision
  BY DEF Undecided, LostInHandoff
<1>1. CASE Approve(q) \/ HandlerStep(q) \/ Disconnect(q)
  <2>1. chan'[q] = chan[q]
    BY <1>0, <1>1 DEF IInv, TypeOK, Approve, HandlerStep, Insert, Announce, Mint, Wake,
       Elapse, GiveUp, Record, Respond, Disconnect, DropReceiver
  <2>2. \/ handler'[q] = "record"
        \/ handler'[q] \in {"mint_allow", "mint_deny", "wait"}
        \/ /\ handler'[q] \in {"respond", "done", "gone"}
           /\ verdict'[q] \notin HumanDecision
    BY <1>0, <1>1 DEF IInv, TypeOK, Approve, HandlerStep, Insert, Announce, Mint, Wake,
       Elapse, GiveUp, Record, Respond, Disconnect
  <2>q. QED  BY <2>1, <2>2 DEF Owed, LostInHandoff
<1>2. CASE UNCHANGED <<handler, verdict, chan>>
  BY <1>0, <1>2 DEF Owed, LostInHandoff
<1>3. ASSUME handler'[q] = handler[q], verdict'[q] = verdict[q], chan'[q] = chan[q]
      PROVE  Owed(q)' \/ LostInHandoff(q)'
  BY <1>0, <1>3 DEF Owed, LostInHandoff
<1>4. ASSUME NEW r \in Requests \ {q}, Approve(r) \/ HandlerStep(r) \/ Disconnect(r)
      PROVE  Owed(q)' \/ LostInHandoff(q)'
  BY <1>3, <1>4, OneHandler
<1>5. ASSUME NEW c \in Callers,
             \/ CallerStep(c)
             \/ \E r \in Requests, word \in Words : Decide(c, r, word)
             \/ \E g \in grants : Redeem(c, g)
      PROVE  Owed(q)' \/ LostInHandoff(q)'
  <2>1. chan'[q] = chan[q]
    BY <1>5 DEF IInv, TypeOK, CallerStep, Press, Send, Notify, Revoke, Learn, RecordLate,
       Decide, Redeem
  <2>2. UNCHANGED <<handler, verdict>>
    BY <1>5, Frames
  <2>q. QED  BY <1>3, <2>1, <2>2
<1>6. CASE ReaperStep
  <2>1. chan'[q] = chan[q]
    BY <1>6 DEF ReaperStep, ReapExpired, ReapRevoke, ReapRecord
  <2>2. UNCHANGED <<handler, verdict>>
    BY <1>6, Frames
  <2>q. QED  BY <1>3, <2>1, <2>2
<1>q. QED  BY <1>1, <1>2, <1>4, <1>5, <1>6, Frames DEF Next, vars

\* A handler that owes a receipt writes it.
LEMMA HandlerPays ==
    ASSUME IInv, DiskWorks, [Next]_vars, ~Crash, NEW q \in Requests, handler[q] = "record"
    PROVE  Accounted(q)'
<1>1. CASE Record(q)
  <2>1. /\ AuditInsert(q, verdict[q]) /\ verdict[q] \in Receipt /\ audit[q] = <<>>
        /\ verdict[q] = outcome[q] /\ outcome' = outcome
    BY <1>1 DEF IInv, HandlerOwns, Record
  <2>2. audit'[q] = <<outcome[q]>>
    BY <2>1, AuditWritten DEF IInv
  <2>q. QED  BY <2>1, <2>2 DEF Accounted
<1>2. CASE handler'[q] = "record"
  BY <1>2 DEF Accounted, Owed
<1>3. CASE Approve(q) \/ HandlerStep(q) \/ Disconnect(q)
  BY <1>1, <1>3 DEF Approve, HandlerStep, Insert, Announce, Mint, Wake, Elapse, GiveUp,
     Respond, Disconnect
<1>4. ASSUME NEW r \in Requests \ {q}, Approve(r) \/ HandlerStep(r) \/ Disconnect(r)
      PROVE  handler'[q] = "record"
  BY <1>4, OneHandler
<1>5. CASE handler' = handler
  BY <1>2, <1>5
<1>q. QED  BY <1>2, <1>3, <1>4, <1>5, Frames DEF Next, vars

\* A call that holds an entry, or could not deliver its decision, hands the
\* decision over or writes its receipt.
LEMMA CallerPays ==
    ASSUME IInv, Undecided, Attended, DiskWorks, [Next]_vars, ~Crash, NEW q \in Requests,
           NEW c \in Callers, call[c].req = q, call[c].entry \in {"held", "undelivered"}
    PROVE  Accounted(q)'
<1>0. call[c].pc \notin {"idle", "press"}
  BY DEF IInv, CallsWellFormed
<1>1. CASE /\ call'[c].req = q /\ call'[c].entry \in {"held", "undelivered"}
  BY <1>1 DEF Accounted, Owed
<1>2. CASE call'[c] = call[c]
  BY <1>1, <1>2
<1>3. CASE Send(c)
  <2>1. call'[c].pc # "idle" /\ call'[c].entry = IF chan[q] = "open" THEN "delivered"
                                                                    ELSE "undelivered"
    <3>1. /\ call'[c].pc = IF call[c].via = "api" THEN "notify" ELSE "revoke"
          /\ call'[c].entry = IF chan[q] = "open" THEN "delivered" ELSE "undelivered"
      BY <1>3, CallMoves DEF CallerStep
    <3>q. QED  BY <3>1
  <2>2. call'[c].req = q
    BY <1>3, <2>1, CallMoves DEF CallerStep
  <2>3. CASE chan[q] # "open"
    BY <1>1, <2>1, <2>2, <2>3
  <2>4. CASE chan[q] = "open"
    <3>1. call[c].dec \in HumanDecision
      BY <1>0 DEF IInv, CallsWellFormed
    <3>2. chan'[q] \in HumanDecision
      BY <1>3, <2>4, <3>1 DEF IInv, TypeOK, Send
    <3>3. handler'[q] \in {"announce", "mint_allow", "mint_deny", "wait", "elapsed"}
      BY <1>3, <2>4 DEF Attended, Send
    <3>4. verdict'[q] = None
      BY <1>3, <3>3 DEF Undecided, Send
    <3>q. QED  BY <3>2, <3>3, <3>4 DEF Accounted, Owed, LostInHandoff
  <2>q. QED  BY <2>3, <2>4
<1>4. CASE RecordLate(c)
  <2>1. /\ AuditInsert(q, call[c].dec) /\ call[c].dec \in Receipt /\ outcome' = outcome
    BY <1>4 DEF IInv, CallsWellFormed, RecordLate
  <2>2. audit[q] = <<>> /\ outcome[q] = call[c].dec
    BY DEF IInv, CallerOwns, Owns
  <2>3. audit'[q] = <<outcome[q]>>
    BY <2>1, <2>2, AuditWritten DEF IInv
  <2>q. QED  BY <2>1, <2>3 DEF Accounted
<1>5. CASE Notify(c) \/ Revoke(c) \/ Learn(c)
  <2>1. CallerStep(c)
    BY <1>5 DEF CallerStep
  <2>2. call'[c].pc # "idle" /\ call'[c].entry = call[c].entry
    BY <1>5, <2>1, CallMoves
  <2>3. call'[c].req = call[c].req
    BY <2>1, <2>2, CallMoves
  <2>q. QED  BY <1>1, <2>2, <2>3
<1>6. CASE Press(c)
  BY <1>0, <1>6 DEF Press
<1>7. ASSUME NEW d \in Callers, CallerStep(d)
      PROVE  Accounted(q)'
  <2>1. CASE d = c
    BY <1>3, <1>4, <1>5, <1>6, <1>7, <2>1 DEF CallerStep
  <2>2. CASE d # c
    BY <1>2, <1>7, <2>2, CallMoves
  <2>q. QED  BY <2>1, <2>2
<1>8. ASSUME NEW d \in Callers, NEW r \in Requests, NEW word \in Words, Decide(d, r, word)
      PROVE  call'[c] = call[c]
  BY <1>0, <1>8, DecideStarts
<1>9. ASSUME NEW d \in Callers, NEW g \in grants, Redeem(d, g)
      PROVE  call'[c] = call[c]
  BY <1>0, <1>9, RedeemStarts
<1>q. QED  BY <1>2, <1>7, <1>8, <1>9, Frames DEF Next, vars

\* The reaper writes the receipt of what it swept.
LEMMA ReaperPays ==
    ASSUME IInv, DiskWorks, [Next]_vars, ~Crash, NEW q \in Requests, q \in sweep \/ reaping = q
    PROVE  Accounted(q)'
<1>1. CASE UNCHANGED reaperVars
  BY <1>1 DEF Accounted, Owed
<1>2. CASE ReapExpired
  BY <1>2, RequestAttributes DEF ReapExpired
<1>3. ASSUME NEW r \in Requests, ReapRevoke(r)
      PROVE  q \in sweep' \/ reaping' = q
  BY <1>3, RequestAttributes DEF ReapRevoke
<1>4. CASE ReapRecord
  <2>1. CASE reaping = q
    <3>1. AuditInsert(q, "expired") /\ audit[q] = <<>> /\ outcome[q] = "expired"
      BY <1>4, <2>1 DEF IInv, ReaperOwns, ReapRecord
    <3>2. audit'[q] = <<"expired">> /\ outcome' = outcome
      BY <1>4, <3>1, AuditWritten DEF IInv, ReapRecord
    <3>q. QED  BY <3>1, <3>2 DEF Accounted
  <2>2. CASE q \in sweep
    BY <1>4, <2>2 DEF Accounted, Owed, ReapRecord
  <2>q. QED  BY <2>1, <2>2
<1>5. ASSUME NEW c \in Callers,
             \/ CallerStep(c)
             \/ \E r \in Requests, word \in Words : Decide(c, r, word)
             \/ \E g \in grants : Redeem(c, g)
      PROVE  UNCHANGED reaperVars
  BY <1>5 DEF CallerStep, Press, Send, Notify, Revoke, Learn, RecordLate, Decide, Redeem
<1>6. CASE \E r \in Requests : ReapRevoke(r)
  BY <1>3, <1>6 DEF Accounted, Owed
<1>q. QED  BY <1>1, <1>2, <1>4, <1>5, <1>6, Frames DEF Next, ReaperStep, vars

\* Whoever settles a request owes its receipt from then on.
LEMMA SettlingOwes ==
    ASSUME IInv, [Next]_vars, ~Crash, NEW q \in Requests, outcome[q] = None,
           outcome'[q] # None
    PROVE  Owed(q)'
<1>1. ASSUME NEW r \in Requests, Approve(r)
      PROVE  Owed(q)'
  BY <1>1 DEF IInv, TypeOK, Approve, Owed
<1>2. ASSUME NEW r \in Requests, HandlerStep(r) \/ Disconnect(r)
      PROVE  outcome' = outcome
  BY <1>2 DEF HandlerStep, Insert, Announce, Mint, Wake, Elapse, GiveUp, Record, Respond,
     Disconnect
<1>3. ASSUME NEW c \in Callers, NEW r \in Requests, NEW word \in Words, Decide(c, r, word)
      PROVE  Owed(q)'
  <2>1. call'[c].req = r /\ call'[c].entry = "held"
    BY <1>3, DecideStarts
  <2>2. r = q
    BY <1>3 DEF IInv, TypeOK, Decide, TakeEntry
  <2>q. QED  BY <2>1, <2>2 DEF Owed
<1>4. ASSUME NEW c \in Callers, Press(c)
      PROVE  Owed(q)'
  <2>1. /\ TakeEntry(call[c].req, call[c].dec)
        /\ call' = [call EXCEPT ![c] = [call[c] EXCEPT !.pc = "send", !.entry = "held"]]
    BY <1>4 DEF Press
  <2>2. call[c].req = q
    BY <2>1 DEF IInv, TypeOK, TakeEntry
  <2>3. call'[c].pc = "send" /\ call'[c].entry = "held"
    BY <2>1 DEF IInv, TypeOK, CallType
  <2>4. call'[c].req = q
    BY <1>4, <2>2, <2>3, CallMoves DEF CallerStep
  <2>q. QED  BY <2>3, <2>4 DEF Owed
<1>5. ASSUME NEW c \in Callers,
             \/ CallerStep(c) /\ ~Press(c)
             \/ \E g \in grants : Redeem(c, g)
      PROVE  outcome' = outcome
  BY <1>5 DEF CallerStep, Send, Notify, Revoke, Learn, RecordLate, Redeem
<1>6. CASE ReapExpired
  BY <1>6 DEF ReapExpired, Owed
<1>7. CASE (\E r \in Requests : ReapRevoke(r)) \/ ReapRecord
  BY <1>7 DEF ReapRevoke, ReapRecord
<1>q. QED
  BY <1>1, <1>2, <1>3, <1>4, <1>5, <1>6, <1>7, Frames DEF Next, ReaperStep, vars

\* Every step keeps the receipts accounted for.
LEMMA ReceiptKept ==
    ASSUME IInv, Undecided, Attended, ReceiptAccounted, [Next]_vars
    PROVE  ReceiptAccounted'
<1>. SUFFICES ASSUME crashes' = 0, DiskWorks, NEW q \in Requests, outcome'[q] # None
              PROVE  Accounted(q)'
  BY DEF ReceiptAccounted, Accounted
<1>1. ~Crash /\ crashes = 0
  <2>1. ~Crash
    BY DEF IInv, TypeOK, Crash
  <2>2. ASSUME NEW c \in Callers,
               \/ CallerStep(c)
               \/ \E r \in Requests, word \in Words : Decide(c, r, word)
               \/ \E g \in grants : Redeem(c, g)
        PROVE  crashes' = crashes
    BY <2>2, Frames
  <2>q. QED  BY <2>1, <2>2, Frames DEF Next, vars
<1>2. CASE outcome[q] = None
  BY <1>1, <1>2, SettlingOwes DEF Accounted
<1>3. CASE outcome[q] # None
  <2>1. outcome'[q] = outcome[q]
    BY <1>3, OutcomeStays
  <2>2. CASE audit[q] = <<outcome[q]>>
    <3>1. audit[q] # <<>>
      BY <2>2
    <3>2. audit'[q] = audit[q]
      BY <3>1, RowsStay
    <3>q. QED  BY <2>1, <2>2, <3>2 DEF Accounted
  <2>3. CASE handler[q] = "record"
    BY <1>1, <2>3, HandlerPays
  <2>4. CASE \/ /\ handler[q] \in {"announce", "mint_allow", "mint_deny", "wait"}
                /\ chan[q] \in HumanDecision
             \/ LostInHandoff(q)
    <3>1. chan[q] \in HumanDecision /\ handler[q] # "record"
      BY <2>4 DEF LostInHandoff
    <3>q. QED  BY <1>1, <2>4, <3>1, HandedOver DEF Accounted
  <2>5. CASE \E c \in Callers : call[c].req = q /\ call[c].entry \in {"held", "undelivered"}
    BY <1>1, <2>5, CallerPays
  <2>6. CASE q \in sweep \/ reaping = q
    BY <1>1, <2>6, ReaperPays
  <2>q. QED
    BY <1>1, <1>3, <2>2, <2>3, <2>4, <2>5, <2>6 DEF ReceiptAccounted, Owed
<1>q. QED  BY <1>2, <1>3

\* The accounts balance at the start.
LEMMA InitAccounts == Init => AInv
BY DEF Init, AInv, Undecided, Attended, Purposeful, BlockedAtOnce, ReceiptAccounted,
   PageMissesNothing, StaleCardsExpired, LearnedFromHuman

\* Every step keeps the accounts in balance.
LEMMA NextAccounts == IInv /\ AInv /\ [Next]_vars => AInv'
BY UndecidedKept, AttendedKept, PurposefulKept, BlockedKept, ReceiptKept, PageKept,
   StaleKept, LearnedKept DEF AInv

\* The accounts of receipts, cards and rules balance in every state of the daemon.
THEOREM AccountsBalance == Spec => []AInv
BY InitAccounts, NextAccounts, OwnershipInvariant, PTL DEF Spec

\* With a disk that works and no crash, whatever became of a request is in the
\* audit log or somebody is about to write it, whichever of the handler, the late
\* surface and the reaper it falls to; the one exception is a decision sent to a
\* handler that had just given up (decide_pending, record_late_decision).
THEOREM ReceiptsAccounted == Spec => []ReceiptAccounted
BY AccountsBalance, PTL DEF AInv

\* A page that has served every broadcast shows every request that waits.
THEOREM PagesMissNothing == Spec => []PageMissesNothing
BY AccountsBalance, PTL DEF AInv

\* Such a page keeps no card of an answered request: the only stale cards are of
\* requests that expired, which the reaper does not broadcast.
THEOREM StaleCardsAreExpired == Spec => []StaleCardsExpired
BY AccountsBalance, PTL DEF AInv

\* Every learned rule goes back to a "similar" decision of a human about a request
\* of that shape, also when calls, crashes and failed saves interleave.
THEOREM RulesAreLearned == Spec => []LearnedFromHuman
BY AccountsBalance, PTL DEF AInv

\* A catastrophic command is never queued, so never offered to a human, and never
\* allowed, whatever rules were learned.
THEOREM BlockedStaysBlocked == Spec => []BlockedNeverRuns
<1>1. AInv => BlockedNeverRuns
  BY DEF AInv, BlockedAtOnce, BlockedNeverRuns, IsAllowed
<1>q. QED  BY <1>1, AccountsBalance, PTL

=============================================================================
