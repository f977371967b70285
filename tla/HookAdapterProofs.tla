------------------------- MODULE HookAdapterProofs --------------------------
(***************************************************************************)
(* The hook relays faithfully and is not cut off, for any numbers of       *)
(* clients and daemons, any deaths of daemons and any take-over of the     *)
(* socket, any wait and any timeouts.                                      *)
(***************************************************************************)
EXTENDS HookAdapter, TLAPS

\* The daemons keep the approval contract: an answer other than no_decision_yet
\* is the fate, and its row is written.
AnswersTrue ==
    /\ fate \in [Requests -> HumanFates \cup AutoFates \cup {"expired", "lost", None}]
    /\ receipt \in [Requests -> Seq(HumanFates \cup AutoFates \cup {"expired"})]
    /\ answer \in [Requests -> HumanFates \cup AutoFates \cup {"no_decision_yet", None}]
    /\ \A r \in Requests :
          answer[r] \in {None, "no_decision_yet"}
            \/ /\ answer[r] = fate[r] /\ fate[r] \in HumanFates \cup AutoFates
               /\ receipt[r] = <<fate[r]>>

\* A client that waits is connected to a daemon that runs: when that daemon dies
\* the client knows at once.
WaitsForLive == \A r \in Requests : step[r] = "waiting" => Held(r)

\* Nobody waits longer than a daemon lets him.
WaitsBounded ==
    \A r \in Requests :
        /\ step[r] = "idle" => waited[r] = 0
        /\ step[r] \in {"waiting", "replied"} => waited[r] <= AgentWait

\* What r's process prints, or does, once it has its answer.
Said(r) == IF client[r] = "run" THEN RunOutput(answer[r])
           ELSE HookOutput(client[r], answer[r])

\* A process that has ended was not given a command, or said what it was told.
SaysWhatItWasTold ==
    \A r \in Requests : step[r] = "done" =>
        IF output[r] = "silent" THEN Command(r) \in {None, "blank"}
        ELSE output[r] = Said(r)

HInv ==
    /\ TypeOK
    /\ AnswersTrue
    /\ WaitsForLive
    /\ WaitsBounded
    /\ SaysWhatItWasTold
    /\ NeverOrphaned

Steps == {"idle", "waiting", "replied", "done", "killed"}
Outputs == {"allow", "deny", "defer", "ask", "nothing", "ran", "blocked", "failed"}

USE DEF None, startVars, clientVars, daemonVars, Adapters, HumanFates, AutoFates,
        AllowWords, Serving

\* The words a process may leave behind.
LEMMA OutputWords ==
    ASSUME NEW a \in Adapters, NEW decision
    PROVE  /\ RunOutput(decision) \in Outputs
           /\ HookOutput(a, decision) \in Outputs
<1>1. RunOutput(decision) \in Outputs
  BY DEF RunOutput, Outputs
<1>2. \A verdict : Render(a, verdict) \in Outputs
  BY DEF Render, Outputs
<1>q. QED  BY <1>1, <1>2 DEF HookOutput

\* What the agent makes of the words printed for it.
LEMMA AgentsUnderstand ==
    ASSUME NEW a \in Adapters, NEW decision
    PROVE  LET does == AgentDoes(a, HookOutput(a, decision))
           IN  /\ does \in {"runs", "ran"} => decision \in AllowWords
               /\ does = "refuses" =>
                     decision \notin AllowWords \cup {None, "expired", "no_decision_yet"}
               /\ decision \in {None, "no_decision_yet"} => does = "prompts"
<1>. DEFINE verdict == IF decision = None THEN "Undecided" ELSE Verdict(decision)
<1>1. /\ verdict \in {"Allow", "Deny", "Undecided"}
      /\ verdict = "Allow" => decision \in AllowWords
      /\ verdict = "Deny" =>
            decision \notin AllowWords \cup {None, "expired", "no_decision_yet"}
      /\ decision \in {None, "no_decision_yet"} => verdict = "Undecided"
  BY DEF Verdict
<1>2. HookOutput(a, decision) = Render(a, verdict)
  BY DEF HookOutput
<1>. HIDE DEF verdict
<1>3. CASE verdict = "Allow"
  <2>1. AgentDoes(a, Render(a, verdict)) \in {"runs", "prompts"}
    BY <1>3 DEF Render, AgentDoes
  <2>q. QED  BY <1>1, <1>2, <1>3, <2>1
<1>4. CASE verdict = "Deny"
  <2>1. AgentDoes(a, Render(a, verdict)) = "refuses"
    BY <1>4 DEF Render, AgentDoes
  <2>q. QED  BY <1>1, <1>2, <1>4, <2>1
<1>5. CASE verdict = "Undecided"
  <2>1. AgentDoes(a, Render(a, verdict)) = "prompts"
    BY <1>5 DEF Render, AgentDoes
  <2>q. QED  BY <1>1, <1>2, <1>5, <2>1
<1>q. QED  BY <1>1, <1>3, <1>4, <1>5

\* The shell command is found in the payload, whatever the agent calls the fields.
LEMMA ParseFinds ==
    ASSUME NEW a \in Adapters
    PROVE  Parse(a, ShellPayload(a, "cmd")) = "cmd"
<1>1. CommandPath[a] # None /\ CommandPath[a] # ToolPath[a]
  BY DEF CommandPath, ToolPath
<1>2. CASE ToolPath[a] = None
  BY <1>1, <1>2 DEF Parse, ShellPayload, Get
<1>3. CASE ToolPath[a] # None
  BY <1>1, <1>3 DEF Parse, ShellPayload, Get
<1>q. QED  BY <1>2, <1>3

\* The invariant says that the agent hears what the daemon answered.
LEMMA HInvRelays == HInv => Relayed
<1>. SUFFICES ASSUME HInv, NEW r \in Requests, step[r] = "done"
              PROVE  LET a == client[r]
                         does == IF a = "run" THEN output[r] ELSE AgentDoes(a, output[r])
                     IN  IF output[r] = "silent"
                         THEN payload[r] # ShellPayload(a, "cmd")
                         ELSE /\ does \in {"runs", "ran"} =>
                                    fate[r] \in AllowWords /\ receipt[r] = <<fate[r]>>
                              /\ does = "refuses" =>
                                    fate[r] \in {"deny_once", "block_similar", "auto_blocked"}
                              /\ answer[r] \in {None, "no_decision_yet"} =>
                                    does \in {"prompts", "blocked", "failed"}
  BY DEF Relayed
<1>0. client[r] \in Adapters \cup {"run"}
  BY DEF HInv, TypeOK
<1>1. \/ answer[r] \in {None, "no_decision_yet"}
      \/ /\ answer[r] = fate[r] /\ fate[r] \in HumanFates \cup AutoFates
         /\ receipt[r] = <<fate[r]>>
  BY DEF HInv, AnswersTrue
<1>2. CASE output[r] = "silent"
  <2>1. Command(r) \in {None, "blank"}
    BY <1>2 DEF HInv, SaysWhatItWasTold
  <2>2. client[r] \in Adapters /\ Parse(client[r], payload[r]) \in {None, "blank"}
    BY <1>0, <2>1 DEF Command
  <2>q. QED  BY <1>2, <2>2, ParseFinds
<1>3. CASE output[r] # "silent" /\ client[r] = "run"
  <2>1. output[r] = RunOutput(answer[r])
    BY <1>3 DEF HInv, SaysWhatItWasTold, Said
  <2>q. QED  BY <1>1, <1>3, <2>1 DEF RunOutput
<1>4. CASE output[r] # "silent" /\ client[r] # "run"
  <2>1. output[r] = HookOutput(client[r], answer[r]) /\ client[r] \in Adapters
    BY <1>0, <1>4 DEF HInv, SaysWhatItWasTold, Said
  <2>q. QED  BY <1>1, <1>4, <2>1, AgentsUnderstand
<1>q. QED  BY <1>2, <1>3, <1>4

\* Daemons come up and take each other's socket: nobody who serves stops.
LEMMA StartKeeps ==
    ASSUME HInv, StartStep, UNCHANGED <<clientVars, daemonVars>>
    PROVE  HInv'
<1>1. StartTypeOK' /\ \A d \in Daemons : Serving(d) => Serving(d)'
  <2>1. PICK d \in Daemons : \/ Start(d) \/ ListenTcp(d) \/ CheckSocket(d)
                             \/ UnlinkSocket(d) \/ BindSocket(d)
    BY DEF StartStep
  <2>2. StartTypeOK
    BY DEF HInv, TypeOK
  <2>3. CASE Start(d) \/ ListenTcp(d) \/ CheckSocket(d)
    BY <2>2, <2>3 DEF StartTypeOK, Start, ListenTcp, CheckSocket
  <2>4. CASE UnlinkSocket(d) \/ BindSocket(d)
    BY <2>2, <2>4 DEF StartTypeOK, UnlinkSocket, BindSocket, Exit
  <2>q. QED  BY <2>1, <2>3, <2>4
<1>2. TypeOK' /\ AnswersTrue' /\ WaitsBounded' /\ NeverOrphaned'
  BY <1>1 DEF HInv, TypeOK, AnswersTrue, WaitsBounded, NeverOrphaned
<1>3. WaitsForLive'
  <2>. SUFFICES ASSUME NEW r \in Requests, step[r] = "waiting" PROVE Held(r)'
    BY DEF WaitsForLive
  <2>1. home[r] # None /\ Serving(home[r]) /\ home[r] \in Daemons \cup {None}
    BY DEF HInv, TypeOK, WaitsForLive, Held
  <2>q. QED  BY <1>1, <2>1 DEF Held
<1>4. SaysWhatItWasTold'
  BY DEF HInv, SaysWhatItWasTold, Command, Said
<1>q. QED  BY <1>2, <1>3, <1>4 DEF HInv

\* A daemon dies, and with it the waits of its clients.
LEMMA CrashKeeps ==
    ASSUME HInv, NEW d \in Daemons, Crash(d)
    PROVE  HInv'
<1>0. StartTypeOK /\ home \in [Requests -> Daemons \cup {None}] /\ step \in [Requests -> Steps]
  BY DEF HInv, TypeOK, Steps
<1>1. StartTypeOK' /\ \A e \in Daemons \ {d} : Serving(e) => Serving(e)'
  BY <1>0, CrashesAssumption DEF Crash, Die, Exit, StartTypeOK
<1>2. /\ UNCHANGED <<client, payload, timeout, home, waited, output, receipt, answer>>
      /\ step' \in [Requests -> Steps]
      /\ \A r \in Requests : step'[r] = IF step[r] = "waiting" /\ home[r] = d
                                        THEN "replied" ELSE step[r]
      /\ fate' = [r \in Requests |->
                     IF home[r] = d /\ fate[r] = None THEN "lost" ELSE fate[r]]
  BY <1>0 DEF Crash, Steps
<1>3. TypeOK'
  BY <1>1, <1>2 DEF HInv, TypeOK, Steps
<1>4. AnswersTrue'
  BY <1>2 DEF HInv, AnswersTrue
<1>5. WaitsForLive'
  <2>. SUFFICES ASSUME NEW r \in Requests, step'[r] = "waiting" PROVE Held(r)'
    BY DEF WaitsForLive
  <2>1. step[r] = "waiting" /\ home[r] # d
    BY <1>2
  <2>2. home[r] # None /\ Serving(home[r])
    BY <2>1 DEF HInv, WaitsForLive, Held
  <2>q. QED  BY <1>0, <1>1, <1>2, <2>1, <2>2 DEF Held
<1>6. WaitsBounded' /\ NeverOrphaned'
  BY <1>2 DEF HInv, WaitsBounded, NeverOrphaned
<1>7. SaysWhatItWasTold'
  BY <1>2 DEF HInv, SaysWhatItWasTold, Command, Said
<1>q. QED  BY <1>3, <1>4, <1>5, <1>6, <1>7 DEF HInv

\* Requests are settled and receipts are written; the clients wait on.
LEMMA SettleWriteKeep ==
    ASSUME HInv, Settle \/ \E r \in Requests : Write(r)
    PROVE  HInv'
<1>1. UNCHANGED <<startVars, clientVars, answer>>
  BY DEF Settle, Write, Daemon!Settle, Daemon!Write
<1>2. AnswersTrue'
  <2>1. CASE Settle
    <3>1. PICK S \in SUBSET Requests, f \in Daemon!Recordable \cup {"lost"} :
              /\ \A r \in S : fate[r] = None
              /\ fate' = [r \in Requests |-> IF r \in S THEN f ELSE fate[r]]
      BY <2>1 DEF Settle, Daemon!Settle
    <3>2. receipt' = receipt
      BY <2>1 DEF Settle, Daemon!Settle
    <3>3. f \in HumanFates \cup AutoFates \cup {"expired", "lost", None}
      BY <3>1 DEF Daemon!Recordable
    <3>q. QED  BY <1>1, <3>1, <3>2, <3>3 DEF HInv, AnswersTrue
  <2>2. ASSUME NEW r \in Requests, Write(r)
        PROVE  AnswersTrue'
    <3>1. /\ fate[r] \in Daemon!Recordable /\ receipt[r] = <<>> /\ fate' = fate
          /\ receipt' = [receipt EXCEPT ![r] = <<fate[r]>>]
      BY <2>2 DEF Write, Daemon!Write
    <3>2. receipt \in [Requests -> Seq(HumanFates \cup AutoFates \cup {"expired"})]
      BY DEF HInv, AnswersTrue
    <3>3. \A q \in Requests : receipt[q] = <<fate[q]>> => receipt'[q] = receipt[q]
      BY <3>1, <3>2
    <3>4. <<fate[r]>> \in Seq(HumanFates \cup AutoFates \cup {"expired"})
      BY <3>1 DEF Daemon!Recordable
    <3>5. receipt' \in [Requests -> Seq(HumanFates \cup AutoFates \cup {"expired"})]
      BY <3>1, <3>2, <3>4
    <3>q. QED  BY <1>1, <3>1, <3>3, <3>5 DEF HInv, AnswersTrue
  <2>q. QED  BY <2>1, <2>2
<1>3. TypeOK'
  BY <1>1 DEF HInv, TypeOK, StartTypeOK
<1>4. WaitsBounded' /\ NeverOrphaned'
  BY <1>1 DEF HInv, WaitsBounded, NeverOrphaned
<1>5. WaitsForLive' /\ SaysWhatItWasTold'
  BY <1>1 DEF HInv, WaitsForLive, Held, SaysWhatItWasTold, Command, Said
<1>q. QED  BY <1>2, <1>3, <1>4, <1>5 DEF HInv

\* The daemon answers a client.
LEMMA TellKeeps ==
    ASSUME HInv, NEW r \in Requests, Tell(r)
    PROVE  HInv'
<1>1. /\ UNCHANGED <<startVars, client, payload, timeout, home, waited, output, fate, receipt>>
      /\ step[r] = "waiting" /\ step' = [step EXCEPT ![r] = "replied"]
  BY DEF Tell, Daemon!Tell
<1>2. /\ answer' \in [Requests -> HumanFates \cup AutoFates \cup {"no_decision_yet", None}]
      /\ \A q \in Requests \ {r} : answer'[q] = answer[q]
      /\ \/ answer'[r] = "no_decision_yet"
         \/ /\ answer'[r] = fate[r] /\ fate[r] \in HumanFates \cup AutoFates
            /\ receipt[r] = <<fate[r]>>
  BY DEF Tell, Daemon!Tell, HInv, AnswersTrue
<1>3. /\ step' \in [Requests -> Steps] /\ step'[r] = "replied"
      /\ \A q \in Requests \ {r} : step'[q] = step[q]
  BY <1>1 DEF HInv, TypeOK, Steps
<1>4. TypeOK'
  BY <1>1, <1>3 DEF HInv, TypeOK, StartTypeOK, Steps
<1>5. AnswersTrue'
  BY <1>1, <1>2 DEF HInv, AnswersTrue
<1>6. WaitsBounded' /\ NeverOrphaned'
  BY <1>1, <1>3 DEF HInv, WaitsBounded, NeverOrphaned
<1>7. WaitsForLive'
  BY <1>1, <1>3 DEF HInv, WaitsForLive, Held
<1>8. SaysWhatItWasTold'
  BY <1>1, <1>2, <1>3 DEF HInv, SaysWhatItWasTold, Command, Said
<1>q. QED  BY <1>4, <1>5, <1>6, <1>7, <1>8 DEF HInv

\* The early returns and the end of a process.
LEMMA EndKeeps ==
    ASSUME HInv, NEW r \in Requests, StaySilent(r) \/ Finish(r)
    PROVE  HInv'
<1>1. /\ UNCHANGED <<startVars, daemonVars, client, payload, timeout, home, waited>>
      /\ step' = [step EXCEPT ![r] = "done"]
  BY DEF StaySilent, Finish
<1>2. PICK word : /\ output' = [output EXCEPT ![r] = word]
                  /\ \/ word = "silent" /\ Command(r) \in {None, "blank"}
                     \/ word = Said(r)
  BY DEF StaySilent, Finish, Said
<1>3. /\ step' \in [Requests -> Steps] /\ step'[r] = "done"
      /\ \A q \in Requests \ {r} : step'[q] = step[q]
  BY <1>1 DEF HInv, TypeOK, Steps
<1>4. word \in Outputs \cup {"silent"} /\ Said(r) # "silent"
  <2>1. client[r] \in Adapters \cup {"run"} /\ "ClaudeCode" \in Adapters
    BY DEF HInv, TypeOK
  <2>2. Said(r) \in Outputs
    BY <2>1, OutputWords DEF Said
  <2>q. QED  BY <1>2, <2>2 DEF Outputs
<1>5. output' \in [Requests -> Outputs \cup {None, "silent"}]
  BY <1>2, <1>4 DEF HInv, TypeOK, Outputs
<1>6. output'[r] = word /\ \A q \in Requests \ {r} : output'[q] = output[q]
  BY <1>2 DEF HInv, TypeOK
<1>7. TypeOK'
  BY <1>1, <1>3, <1>5 DEF HInv, TypeOK, StartTypeOK, Steps, Outputs
<1>8. WaitsBounded' /\ NeverOrphaned' /\ AnswersTrue'
  BY <1>1, <1>3 DEF HInv, WaitsBounded, NeverOrphaned, AnswersTrue
<1>9. WaitsForLive'
  BY <1>1, <1>3 DEF HInv, WaitsForLive, Held
<1>10. SaysWhatItWasTold'
  <2>1. \A q \in Requests : Command(q)' = Command(q) /\ Said(q)' = Said(q)
    BY <1>1 DEF Command, Said
  <2>q. QED  BY <1>2, <1>3, <1>4, <1>6, <2>1 DEF HInv, SaysWhatItWasTold
<1>q. QED  BY <1>7, <1>8, <1>9, <1>10 DEF HInv

\* A client connects to whichever daemon has the socket, or finds nobody.
LEMMA ConnectKeeps ==
    ASSUME HInv, NEW r \in Requests, Connect(r)
    PROVE  HInv'
<1>1. /\ UNCHANGED <<startVars, daemonVars, client, payload, timeout, waited, output>>
      /\ step[r] = "idle" /\ home' = [home EXCEPT ![r] = Reached]
      /\ step' = [step EXCEPT ![r] = IF Reached = None THEN "replied" ELSE "waiting"]
  BY DEF Connect
<1>2. Reached \in Daemons \cup {None} /\ (Reached # None => Serving(Reached))
  BY DEF HInv, TypeOK, StartTypeOK, Reached
<1>3. /\ step' \in [Requests -> Steps] /\ step'[r] \in {"replied", "waiting"}
      /\ \A q \in Requests \ {r} : step'[q] = step[q] /\ home'[q] = home[q]
      /\ step'[r] = "waiting" => Reached # None
      /\ home'[r] = Reached
  BY <1>1 DEF HInv, TypeOK, Steps
<1>4. TypeOK'
  BY <1>1, <1>2, <1>3 DEF HInv, TypeOK, StartTypeOK, Steps
<1>5. NeverOrphaned' /\ AnswersTrue'
  BY <1>1, <1>3 DEF HInv, NeverOrphaned, AnswersTrue
<1>6. WaitsBounded'
  BY <1>1, <1>3, WaitAssumption DEF HInv, WaitsBounded
<1>7. WaitsForLive'
  BY <1>1, <1>2, <1>3 DEF HInv, WaitsForLive, Held
<1>8. SaysWhatItWasTold'
  BY <1>1, <1>3 DEF HInv, SaysWhatItWasTold, Command, Said
<1>q. QED  BY <1>4, <1>5, <1>6, <1>7, <1>8 DEF HInv

\* An agent kills its hook: both sides count in the same unit.
LEMMA KillKeeps ==
    ASSUME HInv, NEW r \in Requests, Kill(r)
    PROVE  HInv'
<1>1. /\ UNCHANGED <<startVars, daemonVars, client, payload, timeout, home, waited, output>>
      /\ step' = [step EXCEPT ![r] = "killed"]
      /\ step[r] \in {"waiting", "replied"}
      /\ waited[r] * UnitsPerSecond(client[r]) >= TimeoutValue(client[r], timeout[r])
  BY DEF Kill
<1>2. /\ step' \in [Requests -> Steps] /\ step'[r] = "killed"
      /\ \A q \in Requests \ {r} : step'[q] = step[q]
  BY <1>1 DEF HInv, TypeOK, Steps
<1>3. timeout[r] <= AgentWait
  <2>1. waited[r] \in Nat /\ timeout[r] \in Nat /\ waited[r] <= AgentWait
    BY <1>1, WaitAssumption DEF HInv, TypeOK, WaitsBounded
  <2>2. timeout[r] <= waited[r]
    BY <1>1, <2>1 DEF UnitsPerSecond, TimeoutValue
  <2>q. QED  BY <2>1, <2>2, WaitAssumption
<1>4. TypeOK'
  BY <1>1, <1>2 DEF HInv, TypeOK, StartTypeOK, Steps
<1>5. NeverOrphaned' /\ AnswersTrue' /\ WaitsBounded'
  BY <1>1, <1>2, <1>3 DEF HInv, NeverOrphaned, AnswersTrue, WaitsBounded
<1>6. WaitsForLive' /\ SaysWhatItWasTold'
  BY <1>1, <1>2 DEF HInv, WaitsForLive, Held, SaysWhatItWasTold, Command, Said
<1>q. QED  BY <1>4, <1>5, <1>6 DEF HInv

\* Time passes only for clients whose daemon lets them wait on.
LEMMA TickKeeps ==
    ASSUME HInv, Tick
    PROVE  HInv'
<1>1. /\ UNCHANGED <<startVars, daemonVars, client, payload, timeout, step, home, output>>
      /\ \A r \in Requests : step[r] = "waiting" => waited[r] < AgentWait
      /\ \A r \in Requests : step[r] # "replied"
      /\ waited' = [r \in Requests |->
                       IF step[r] = "waiting" THEN waited[r] + 1 ELSE waited[r]]
  BY DEF Tick, HInv, WaitsForLive
<1>2. TypeOK'
  BY <1>1 DEF HInv, TypeOK, StartTypeOK
<1>3. WaitsBounded'
  BY <1>1, WaitAssumption DEF HInv, TypeOK, WaitsBounded
<1>4. NeverOrphaned' /\ AnswersTrue'
  BY <1>1 DEF HInv, NeverOrphaned, AnswersTrue
<1>5. WaitsForLive' /\ SaysWhatItWasTold'
  BY <1>1 DEF HInv, WaitsForLive, Held, SaysWhatItWasTold, Command, Said
<1>q. QED  BY <1>2, <1>3, <1>4, <1>5 DEF HInv

\* The invariant holds before any hook runs.
LEMMA InitHook == Init => HInv
<1>. SUFFICES ASSUME Init PROVE HInv
  OBVIOUS
<1>1. TypeOK
  BY CrashesAssumption DEF Init, TypeOK, StartInit, StartTypeOK
<1>2. AnswersTrue
  BY DEF Init, Daemon!Init, AnswersTrue
<1>3. WaitsForLive /\ WaitsBounded /\ SaysWhatItWasTold /\ NeverOrphaned
  BY DEF Init, WaitsForLive, WaitsBounded, SaysWhatItWasTold, NeverOrphaned
<1>q. QED  BY <1>1, <1>2, <1>3 DEF HInv

\* Every step of a hook, of the daemon or of its deadline keeps the invariant.
LEMMA NextHook == HInv /\ [Next]_vars => HInv'
<1>. SUFFICES ASSUME HInv, [Next]_vars PROVE HInv'
  OBVIOUS
<1>1. CASE UNCHANGED vars
  <2>1. TypeOK' /\ NeverOrphaned' /\ AnswersTrue' /\ WaitsBounded'
    BY <1>1 DEF HInv, TypeOK, StartTypeOK, NeverOrphaned, AnswersTrue,
       WaitsBounded, vars
  <2>2. WaitsForLive' /\ SaysWhatItWasTold'
    BY <1>1 DEF HInv, WaitsForLive, Held, SaysWhatItWasTold, Command, Said, vars
  <2>q. QED  BY <2>1, <2>2 DEF HInv
<1>q. QED
  BY <1>1, StartKeeps, CrashKeeps, SettleWriteKeep, TellKeeps, EndKeeps, ConnectKeeps,
     KillKeeps, TickKeeps DEF Next

\* A waiting client has a live daemon, an answer has its receipt, and an ended
\* process said what it was told.
THEOREM HookInvariant == Spec => []HInv
BY InitHook, NextHook, PTL DEF Spec

\* The variables of the clients and of the daemons' start-up keep their types.
THEOREM HookTypes == Spec => []TypeOK
BY HookInvariant, PTL DEF HInv

\* Whatever daemons die or take over the socket, an agent runs only what was
\* allowed and recorded, refuses only what was denied, and falls back to its own
\* prompt without a decision.
THEOREM HookRelays == Spec => []Relayed
BY HookInvariant, HInvRelays, PTL

\* A hook with a timeout longer than the daemon's wait is never killed before it
\* has printed its verdict, in seconds as in milliseconds.
THEOREM HookNotOrphaned == Spec => []NeverOrphaned
BY HookInvariant, PTL DEF HInv

=============================================================================
