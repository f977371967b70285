---------------------------- MODULE HookAdapter -----------------------------
(***************************************************************************)
(* The processes that stand between an agent and a daemon: the hook        *)
(* command of the five adapters (hook.rs), agent-gate run (run.rs) and the *)
(* client they share (client.rs).  The daemons come up, take each other's  *)
(* socket and die as in Startup; what a daemon does with a request it has  *)
(* received is ApprovalContract, which Gate is shown to implement.         *)
(***************************************************************************)
EXTENDS Startup, Sequences

CONSTANTS
    Requests,     \* one tool call of an agent, or one agent-gate run, each
    AgentWait,    \* seconds until a daemon answers no_decision_yet
    HookTimeouts  \* values of adapters install --timeout, in seconds

ASSUME WaitAssumption == AgentWait \in Nat /\ HookTimeouts \subseteq Nat

Adapters == {"ClaudeCode", "Codex", "Cursor", "GeminiCli", "Antigravity"}
HumanFates == {"allow_once", "allow_similar", "deny_once", "block_similar"}
AutoFates == {"auto_allowed", "auto_blocked"}
AllowWords == {"allow_once", "allow_similar", "auto_allowed"}

VARIABLES
    client,    \* client[r]: the adapter that was invoked, or "run"
    payload,   \* payload[r]: the JSON on its stdin, from paths to strings
    timeout,   \* timeout[r]: the seconds its hook was installed with
    step,      \* step[r]: "idle", "waiting", "replied", "done", "killed"
    home,      \* home[r]: the daemon that r's connection was accepted by
    waited,    \* waited[r]: seconds since the connection
    output,    \* output[r]: what the process left behind
    fate, receipt, answer

clientVars == <<client, payload, timeout, step, home, waited, output>>
daemonVars == <<fate, receipt, answer>>
vars == <<startVars, clientVars, daemonVars>>

Daemon == INSTANCE ApprovalContract

-----------------------------------------------------------------------------
(***************************************************************************)
(* Reading the payload and phrasing the verdict.                           *)
(***************************************************************************)
ToolPath == [ClaudeCode |-> "tool_name", Codex |-> "tool_name", GeminiCli |-> "tool_name",
             Cursor |-> None, Antigravity |-> "toolCall.name"]
ShellTool == [ClaudeCode |-> "Bash", Codex |-> "Bash", GeminiCli |-> "run_shell_command",
              Cursor |-> None, Antigravity |-> "run_command"]
CommandPath == [ClaudeCode |-> "tool_input.command", Codex |-> "tool_input.command",
                GeminiCli |-> "tool_input.command", Cursor |-> "command",
                Antigravity |-> "toolCall.args.CommandLine"]

Get(p, path) == IF path \in DOMAIN p THEN p[path] ELSE None

\* Adapter::parse: the command, or None for a call that is not a shell command.
Parse(a, p) ==
    IF ToolPath[a] # None /\ Get(p, ToolPath[a]) # ShellTool[a]
    THEN None
    ELSE Get(p, CommandPath[a])

\* The payloads the agents send to their hook: a shell command, a blank one,
\* and, where the hook sees other tools too, a call of another tool.  An empty
\* function stands for input that is not the expected JSON.
ShellPayload(a, cmd) ==
    [path \in {ToolPath[a], CommandPath[a]} \ {None} |->
        IF path = ToolPath[a] THEN ShellTool[a] ELSE cmd]
Payloads(a) ==
    {ShellPayload(a, "cmd"), ShellPayload(a, "blank"), [path \in {} |-> None]}
        \cup (IF ToolPath[a] = None THEN {} ELSE {[path \in {ToolPath[a]} |-> "Edit"]})

\* Mutant of Verdict: whatever is not an allow is a denial.
VerdictNoUndecided(decision) == IF decision \in AllowWords THEN "Allow" ELSE "Deny"

\* run: what a decision word of the daemon means for the agent.
Verdict(decision) ==
    CASE decision \in AllowWords -> "Allow"
      [] decision \in {"expired", "no_decision_yet"} -> "Undecided"
      [] OTHER -> "Deny"

\* Mutant of Render: the verdict in the gate's words instead of the agent's.
RenderVerdict(a, verdict) == verdict

\* Adapter::render: the decision field of the agent's JSON, "nothing" when the
\* field is left out.
Render(a, verdict) ==
    CASE verdict = "Deny" -> "deny"
      [] verdict = "Allow" -> IF a = "GeminiCli" THEN "nothing" ELSE "allow"
      [] verdict = "Undecided" /\ a = "ClaudeCode" -> "defer"
      [] verdict = "Undecided" /\ a \in {"Cursor", "Antigravity"} -> "ask"
      [] OTHER -> "nothing"

\* Mutant of TimeoutValue: seconds for every agent.
TimeoutSeconds(a, seconds) == seconds

\* timeout_value: the number written to the agent's settings file.
TimeoutValue(a, seconds) == IF a = "GeminiCli" THEN seconds * 1000 ELSE seconds

\* How the agents read that number.
UnitsPerSecond(a) == IF a = "GeminiCli" THEN 1000 ELSE 1

-----------------------------------------------------------------------------
Init ==
    /\ StartInit
    /\ client \in [Requests -> Adapters \cup {"run"}]
    /\ payload \in [Requests -> UNION {Payloads(a) : a \in Adapters}]
    /\ \A r \in Requests :
          payload[r] \in IF client[r] = "run" THEN {ShellPayload("Cursor", "cmd")}
                                              ELSE Payloads(client[r])
    /\ timeout \in [Requests -> HookTimeouts]
    /\ step = [r \in Requests |-> "idle"]
    /\ home = [r \in Requests |-> None]
    /\ waited = [r \in Requests |-> 0]
    /\ output = [r \in Requests |-> None]
    /\ Daemon!Init

\* The command a client would submit; run has it on its own command line.
Command(r) == IF client[r] = "run" THEN "cmd" ELSE Parse(client[r], payload[r])

\* run (hook.rs): the early returns, which print nothing.
StaySilent(r) ==
    /\ step[r] = "idle"
    /\ Command(r) \in {None, "blank"}
    /\ step' = [step EXCEPT ![r] = "done"]
    /\ output' = [output EXCEPT ![r] = "silent"]
    /\ UNCHANGED <<startVars, daemonVars, client, payload, timeout, home, waited>>

\* request (client.rs): connect and send; the connection is refused, or there is
\* no socket, when no daemon serves at the path.
Connect(r) ==
    /\ step[r] = "idle"
    /\ Command(r) \notin {None, "blank"}
    /\ home' = [home EXCEPT ![r] = Reached]
    /\ step' = [step EXCEPT ![r] = IF Reached = None THEN "replied" ELSE "waiting"]
    /\ UNCHANGED <<startVars, daemonVars, client, payload, timeout, waited, output>>

\* The daemon that has r is still running.
Held(r) == home[r] # None /\ Serving(home[r])

\* A surface can reach the daemon that has r: over the socket, the menu bar and
\* the terminal; over the network port, the page and the buttons.
Answerable(r) == home[r] \in {Reached, port}

\* The daemon judges requests, people answer them, and the reaper expires them.
Settle ==
    /\ Daemon!Settle
    /\ \A r \in Requests : fate'[r] # fate[r] =>
          /\ home[r] # None /\ Held(r)
          /\ fate'[r] # "lost"
          /\ fate'[r] \in HumanFates => Answerable(r)
          /\ fate'[r] \in AutoFates => waited[r] = 0 /\ step[r] = "waiting"
          /\ fate'[r] = "expired" => waited[r] >= AgentWait
    /\ UNCHANGED <<startVars, clientVars>>

Write(r) == Held(r) /\ Daemon!Write(r) /\ UNCHANGED <<startVars, clientVars>>

\* Mutant of Tell: no timeout around the wait for a decision.
TellNoTimeout(r) ==
    /\ step[r] = "waiting" /\ Held(r)
    /\ Daemon!Tell(r)
    /\ answer'[r] # "no_decision_yet"
    /\ step' = [step EXCEPT ![r] = "replied"]
    /\ UNCHANGED <<startVars, client, payload, timeout, home, waited, output>>

\* approve answers: the fate, or no_decision_yet once it has waited long enough.
Tell(r) ==
    /\ step[r] = "waiting" /\ Held(r)
    /\ Daemon!Tell(r)
    /\ answer'[r] = "no_decision_yet" => waited[r] >= AgentWait
    /\ step' = [step EXCEPT ![r] = "replied"]
    /\ UNCHANGED <<startVars, client, payload, timeout, home, waited, output>>

\* A daemon dies.  Its connections close: a client that had no answer reads an
\* end of file where the headers should be, and what was not settled is lost.
Crash(d) ==
    /\ Die(d)
    /\ step' = [r \in Requests |->
                    IF step[r] = "waiting" /\ home[r] = d THEN "replied" ELSE step[r]]
    /\ fate' = [r \in Requests |->
                    IF home[r] = d /\ fate[r] = None THEN "lost" ELSE fate[r]]
    /\ UNCHANGED <<client, payload, timeout, home, waited, output, receipt, answer>>

\* The rest of run (run.rs): an error of the client ends it, and the command is
\* executed only if it was allowed.
RunOutput(decision) ==
    CASE decision = None -> "failed"
      [] decision \in AllowWords -> "ran"
      [] OTHER -> "blocked"

\* The rest of run (hook.rs): any error of the client makes it Undecided.
HookOutput(a, decision) ==
    Render(a, IF decision = None THEN "Undecided" ELSE Verdict(decision))

Finish(r) ==
    /\ step[r] = "replied"
    /\ step' = [step EXCEPT ![r] = "done"]
    /\ output' = [output EXCEPT ![r] = IF client[r] = "run" THEN RunOutput(answer[r])
                                       ELSE HookOutput(client[r], answer[r])]
    /\ UNCHANGED <<startVars, daemonVars, client, payload, timeout, home, waited>>

\* The agent kills a hook that has used up the timeout in its settings.
Kill(r) ==
    /\ client[r] # "run"
    /\ step[r] \in {"waiting", "replied"}
    /\ waited[r] * UnitsPerSecond(client[r]) >= TimeoutValue(client[r], timeout[r])
    /\ step' = [step EXCEPT ![r] = "killed"]
    /\ UNCHANGED <<startVars, daemonVars, client, payload, timeout, home, waited, output>>

\* A second passes.  A live daemon's timer and a client that has its answer are
\* both quicker than that.
Tick ==
    /\ \E r \in Requests : step[r] = "waiting"
    /\ \A r \in Requests : /\ step[r] = "waiting" /\ Held(r) => waited[r] < AgentWait
                           /\ step[r] # "replied"
    /\ waited' = [r \in Requests |->
                    IF step[r] = "waiting" THEN waited[r] + 1 ELSE waited[r]]
    /\ UNCHANGED <<startVars, daemonVars, client, payload, timeout, step, home, output>>

Next ==
    \/ StartStep /\ UNCHANGED <<clientVars, daemonVars>>
    \/ \E d \in Daemons : Crash(d)
    \/ \E r \in Requests : \/ StaySilent(r) \/ Connect(r) \/ Write(r) \/ Tell(r)
                           \/ Finish(r) \/ Kill(r)
    \/ Settle
    \/ Tick

\* A connected hook is scheduled, time passes, and a daemon that has its timer
\* or an answer acts on it.
Fairness ==
    /\ WF_vars(Tick)
    /\ \A r \in Requests : WF_vars(Write(r)) /\ WF_vars(Tell(r)) /\ WF_vars(Finish(r))

Spec == Init /\ [][Next]_vars /\ Fairness

-----------------------------------------------------------------------------
TypeOK ==
    /\ StartTypeOK
    /\ client \in [Requests -> Adapters \cup {"run"}]
    /\ timeout \in [Requests -> HookTimeouts]
    /\ step \in [Requests -> {"idle", "waiting", "replied", "done", "killed"}]
    /\ home \in [Requests -> Daemons \cup {None}]
    /\ waited \in [Requests -> Nat]
    /\ output \in [Requests -> {None, "silent", "allow", "deny", "defer", "ask", "nothing",
                                "ran", "blocked", "failed"}]

\* What the agents make of the word in the field: run the command without asking,
\* refuse it, or put it to their own permission prompt.
AgentDoes(a, word) ==
    CASE word = "allow" /\ a # "GeminiCli" -> "runs"
      [] word = "deny" -> "refuses"
      [] word = "defer" /\ a = "ClaudeCode" -> "prompts"
      [] word = "ask" /\ a \in {"ClaudeCode", "Cursor", "Antigravity"} -> "prompts"
      [] word = "nothing" /\ a \in {"Codex", "GeminiCli"} -> "prompts"
      [] OTHER -> "error"

\* What the agent does follows what happened to the request, whichever daemon died
\* or took over the socket meanwhile: it runs the command (and run executes it) only
\* if it was allowed and the audit log says so; it refuses only what was denied,
\* never work that nobody was shown; without a decision it falls back to its own
\* prompt; and a hook that says nothing was not given a shell command.
Relayed ==
    \A r \in Requests :
        LET a == client[r]
            does == IF a = "run" THEN output[r] ELSE AgentDoes(a, output[r])
        IN  step[r] = "done" =>
              IF output[r] = "silent"
              THEN payload[r] # ShellPayload(a, "cmd")
              ELSE /\ does \in {"runs", "ran"} =>
                         fate[r] \in AllowWords /\ receipt[r] = <<fate[r]>>
                   /\ does = "refuses" =>
                         fate[r] \in {"deny_once", "block_similar", "auto_blocked"}
                   /\ answer[r] \in {None, "no_decision_yet"} =>
                         does \in {"prompts", "blocked", "failed"}

\* A hook installed with more seconds than the daemon waits is never killed before
\* it has printed its verdict, whatever unit its agent reads timeouts in.
NeverOrphaned ==
    \A r \in Requests : step[r] = "killed" => timeout[r] <= AgentWait

\* A connected client returns, also when its daemon dies or when another daemon
\* takes the socket and nobody can answer the request any more.
HookReturns ==
    \A r \in Requests : step[r] = "waiting" ~> step[r] \in {"done", "killed"}

=============================================================================
