# Local Agent Gate: a verification project

Local Agent Gate stands between coding agents and the shell. An agent's hook
submits a command; the daemon classifies it, applies policy, and if need be asks
a human through a terminal, a menu bar app, a phone page or a notification
button. This directory holds TLA+ modules that model the gate, TLC
configurations that check them on small instances, and TLAPS proofs of the
properties that matter most for every size of instance.

## 1. Inventory

| Component | State | Operations | Talks to |
|---|---|---|---|
| approve handler (`server.rs`) | its place in the handler, the decision it is about to answer | classify and evaluate, insert, announce, mint buttons, wait, record, respond; cancelled if its client leaves | queue, oneshot channel, policy, grants, audit log |
| pending queue (`pending.rs`) | id → request and oneshot sender, under one mutex | insert, decide, reap_expired, list | handlers, surfaces, reaper, stream |
| decide and act endpoints (`server.rs`) | none beyond the call | take the entry, send, broadcast, revoke buttons, learn, late receipt | queue, channel, grants, learned file, audit log |
| grant store (`notify.rs`) | token → (request, decision) | mint, redeem, revoke_for | handler, act, reaper |
| reaper (`reaper.rs`) | the sweep in progress | remove expired, revoke, record | queue, grants, audit log |
| event stream (`server.rs`) | a broadcast receiver per page | subscribe, serve the queue, lag | queue, page |
| audit store (`audit_store.rs`) | rows | insert, recent | every writer of receipts |
| policy engine (`policy.rs`) | rules and defaults per project | matches, with_learned, evaluate | approve |
| learned rules (`learned.rs`, `policy.rs` of the CLI) | learned-policy.yml and its temp file | load, learn, forget, save | daemon tasks under `learned_lock`, command line without it |
| shell parser, classifier (`shell.rs`, `classifier.rs`) | none | parse, classify, derive_match | approve, learned rules |
| hook adapters, client, `run` (`agent-gate-cli`) | one process per command | submit, map the verdict, fall back when the daemon is away | daemon, agent |
| adapter installation (`adapters.rs`) | the agents' settings files | install, uninstall, inspect, back up | agents |
| pairing (`pairing.rs`) | the token file | load or create, match | network listener |
| surfaces (`approve.html`, `approve.rs`, menu bar app) | shown queue, settled and armed cards | poll or subscribe, decide | daemon |

What is hard here: several surfaces and the reaper race for one queue entry; a
decision is handed to a handler that may be timing out or being cancelled at
that moment; three places may write a request's receipt and exactly one must;
the wait runs on the monotonic clock and the expiry on the wall clock; buttons
outlive the request unless someone revokes them in time; the page learns of
changes only by broadcasts; the daemon may die between any two steps; and the
learned-rules file is rewritten by processes that share no lock. Around the
daemon: a hook process may outlive its daemon or be killed before the answer, a
second daemon takes over the socket, every surface acts on a list that may be
out of date, the token file is created by whoever comes first, settings files
that belong to the user are rewritten in place, and the parser has to tell
commands from data. PROJECT.json lists these as hazards, each at its line.

Correctness, per component: a request is settled once (queue); the agent is
told what was decided and only after it is on record (handler); one truthful
receipt per request (handler, surfaces, reaper, audit log); buttons die with
their request (grants); the page misses nothing and shows nothing dead (stream);
a denied or catastrophic command is not loosened by learning (policy); readers
of the rule file find what was taught and not forgotten (learned rules); the
agent does what was decided and falls back to its own prompt otherwise (hook);
a command line is read as what it means and is as risky as its worst part
(parser, classifier); nothing that waits stays hidden and nothing false is
reported (surfaces); a restart does not unpair (pairing); what else is in a
settings file survives (installation).

## 2. Modules

| Module | Models |
|---|---|
| `Policy` | `policy.rs`: matching, layering, evaluate, and `Verdict`, the decision as a function of what matters |
| `Gate` | the daemon: handlers, queue and channels, decide and act, grants, reaper, audit log, event stream, clocks, crashes |
| `ApprovalContract` | what the daemon promises about a request: an abstract specification with a fate, a receipt and an answer |
| `MCGate` | instances of `Gate` for TLC |
| `LearnedStore` | `learned.rs` and its writers: learned-policy.yml at the level of inodes, temp file and rename |
| `MCLearnedStore` | instances of `LearnedStore` for TLC |
| `GateProofs` | inductive invariant of `Gate`; that it implements `ApprovalContract`; invariant of what it owes: receipts, cards, learned rules, the catastrophic tier |
| `Lists`, `ListProofs` | `Vec::retain`; what it, flattening and mapping compute for lists of any length |
| `RuleProofs` | theorems about evaluate, inductive invariant of `LearnedStore`, and what learned rules bear upon |
| `AdapterConfigProofs` | inductive invariant of `AdapterConfig` |
| `ShellProofs` | the parser's loop on every text: it ends, and leaves nothing empty |
| `Startup` | the listeners of several daemons: socket and port, one system call per step, with deaths |
| `HookAdapter` | `hook.rs`, `run.rs` and `client.rs`, composed with `Startup` and `ApprovalContract` |
| `Shell`, `Classifier` | `shell.rs`; `classifier.rs` and `derive_match`: operators, no state |
| `CommandLine` | the writer of command lines that `Shell` and `Classifier` are checked against |
| `Surfaces` | the page's cards, the menu bar's polls and clicks, the terminal's list |
| `Pairing` | the token file, its creators, the daemons' copies and the page's |
| `AdapterConfig` | `adapters.rs`: inspect, back up, edit and write a settings file |
| `HookAdapterProofs`, `SurfacesProofs` | inductive invariants of `HookAdapter` and `Surfaces` and the properties that follow |
| `PairingProofs` | inductive invariant of `Pairing` and the properties that follow |
| `MCHookAdapter`, `MCCommandLine`, `MCSurfaces`, `MCPairing`, `MCAdapterConfig` | their instances for TLC |

### Gate

The daemon runs on tokio's multi-threaded runtime, so a step of the model is one
critical section, one channel operation or one disk write. `handler[r]` is the
program counter of the approve handler of request `r`; `call[c]` is the decide
or act call that task `c` serves, with what it has of the queue entry
(`absent`, `held`, `delivered`, `undelivered`); `sweep` and `reaping` are the
loop of `reap_at`. The oneshot channel is a state per request: `open`, `closed`
(receiver dropped), `hungup` (sender dropped), or the decision it carries.

Two details of the code decide what can happen. First, approve awaits only in
`timeout(..)`: a client that disconnects cancels the handler there and nowhere
else (`Disconnect`). Second, `timeout` polls the receiver, then the timer, and
the receiver is dropped only when the future is: between `Elapse` and `GiveUp`
a send still succeeds.

Handlers, decide, act, the reaper and the page appear with every step in the
order of the code: decide broadcasts, revokes, learns, then records late; act
revokes before it broadcasts, and does so even when it finds no entry. Requests
are given their risk, the decisions of the project rules they match, and a
shape (project and derived matcher) as constants. `age` and `waited` are the two
clocks, saturating at the time to live and the wait; `Sleep` advances only the
wall clock. `Crash` empties everything that lives in memory. `outcome` is a
history variable: what became of the request, fixed when it leaves the queue.

### ApprovalContract

Three variables, three actions: `Settle` fixes fates, `Write` writes the one
receipt of a settled request, `Tell` answers either no decision yet, or the
fate if its receipt is written. `Gate` instantiates it with `outcome`, `audit`
and `Told` (the verdicts of handlers whose answer has arrived).

### LearnedStore

A save is `create` (truncating an existing temp file), `write` and `rename`, on
inodes, because a writer keeps writing to the inode it opened. A write over a
text that is already there leaves the end of a longer old text, which parses or
not (`Overwritten`). No half rule can appear: the new text is whole, so that an
old rule cut in two either makes the file unreadable (a key given twice) or adds
what no decision reads: an unknown key, or lines of `learned_from`, the last key
of a rule. Tasks of the daemon exclude each other by the lock;
command line processes load, edit and save at any time. Writers may fail or die
between any two steps. `ledger` is what the file would hold if each operation
took effect at its rename; `overlapped` records that a command ran while another
writer was at work. `Retain` (in `Lists`) is the standard library's `Vec::retain`
and `filter`, with the rules to keep as a set. A temp file that is not there needs a
free inode; without one the save fails, as it does for any other error.

### Startup and HookAdapter

`phase[d]` is how far daemon `d` is in `serve_unix`: looking whether there is a
socket, removing it, binding its own, serving. Nothing tells a dead daemon's
socket from a live one's, so a second daemon takes over and the first goes on
serving the connections it has; `port` is the listener for phones, which it may
still hold. `step[r]` is where the client process of `r` is, `home[r]` the
daemon that accepted it. What a daemon does with a request is
`ApprovalContract`, which `GateProofs` proves `Gate` to implement: so the hook
is composed with what was proved about the daemon, not with a guess. The payload
is a function from JSON paths to strings, in the shape of each agent; the word
in the output is read the way each agent documents (`AgentDoes`, external).
Three simplifications: a daemon that found the port taken may take it later (the
code tries once), so the model has more behaviours than the code; a request
expires here only after the whole wait, since the sleep that makes the expiry
come first is `Gate`'s; and a 200 answer always has a body, as the daemon's
handlers give it one (`client.rs` would read an empty one as null and the hook
would deny).

### Shell, Classifier and CommandLine

A text is a sequence of atoms: a character that means something to the parser,
or a run of others. `Step` is one turn of `Parser::run` on a record of its
fields. `CommandLine` grows a text command by command, with any operator between
two and with blanks in front, between words and at the end, and keeps beside it
what it means, without looking at the parser: words, pipelines, writes, the
pipelines inside substitutions. The properties compare. The
parser reads two things otherwise than a shell does, `2>&1` and the text behind a
heredoc delimiter on its line: they are in the grammar with the parser's meaning, which `Pieces` and
`Meaning` state and `RoundTrip` shows to be all that is wrong with them (section
3 lists both as disagreements). Left out are grouping, which the parser takes for
the end of a pipeline, and control flow, which `shell.rs` says it ignores.
`learned` is the rule that "similar" would have made of the line after each step
of its writing, and `verbatim` whether the words a prefix is made of stand at its
start as they are: `LearnsWhatItSays` says from these which of the lines a rule
applies to, its own, the compound lines that begin with it (`Continue`), the same
with a longer last word (`Grow`) and the same with a blank behind it (`End`). Of an assessment the level is kept (`is_migration` chooses between
rules of one level); `is_secret_path` and `is_build_dir` are sets of the sample
atoms they match.

### Surfaces

The daemon is its queue: the first answer takes a request out (`Handle`), the
reaper does so without telling anyone, death empties it. The page is `pending`,
`settled`, `armed` and its requests under way, which may fail before or after
they were handled. Polls and decisions of the menu bar run on background queues,
so that they overlap and come back in any order. The terminal asks about each
request of a list it fetched once. It sends a decision and reports the result
(`Choose`), or the answer is lost after the decision was handled (`Unheard`), or
the request fails (`GiveUp`); the last two end the command without a report.

### Pairing

`load_or_create` is read, generate, truncate, write. `contended` is a history
variable: a process found no token while another was creating one. Only then can
two tokens be around, and the properties say nothing. The page's token is
cleared by a 401 to its request to `/pending`, whatever token it has by then.

### AdapterConfig

The settings file is a text with the user's other settings and the entries under
the agent's event; entries hold our hook, a stale one of an older checkout,
foreign ones, one without a command, or no list of hooks at all. install and
uninstall proceed by file operations: empty and fill the backup, read, empty and
fill the file; a stale hook makes install do all of that twice. `theirs` is what
the user set up, `harm` records the events that may cost something of it.

## 3. Runs

| Run | Instance | Shows |
|---|---|---|
| `gate_race` | 1 request with buttons, 2 callers, wait 1, time to live 2, 1 crash, working disk | one outcome, one truthful receipt before the answer, every outcome recorded, owed or lost in the hand-off, page invariants, `ContractSpec` |
| `gate_two` | 2 interchangeable requests of one shape, 1 caller, wait 0, time to live 1, disk writes that may fail | truthfulness per request with disk errors, what one request teaches the other |
| `gate_live` | 2 requests of one shape, the second catastrophic, fairness | liveness, buttons included, and that allowing similar never lets the catastrophic one run |
| `hook` | 1 client of any kind with any payload, hook timeout below or above the wait, 2 daemons, 1 death | `Relayed`, `NeverOrphaned`, `HookReturns` |
| `learned_store` | 2 daemon tasks, 1 command line, 3 commands in 2 projects, 2 rules taught | `SerialStore`, `FlipsNotStacks`, `NobodyInventsRules`, `SimilarIsScoped` |
| `command_line` | lines of up to 3 commands: about 70 first commands in all styles of quoting, spacing and with all decorations, 7 to follow, 6 operators, 3 ways to end, 2 branches | `RoundTrip`, `WorstOfParts`, `CodeAndData`, `LearnsWhatItSays` |
| `surfaces` | 1 request, an answer that teaches and one that does not, 2 overlapping polls, 1 death of the daemon, fairness | `NeverHidden`, `TerminalTruthful`, `MenuConverges` |
| `pairing` | 2 daemons, 2 runs of pair, 1 death | `PairedStayPaired`, `PageKeepsToken` |
| `adapters` | 3 formats, up to 2 entries, 3 commands, 1 death, 1 save by someone else, 1 move of the binary | `OthersKept`, `Recoverable`, `Settled` |
| `gate_handoff`, `learned_forget`, `adapters_toml` | as small as the counterexample allows | three statements of docs and comments that the code does not keep |

The bounds are enough because requests interact only through the learned rules
(two suffice for one to teach and one to be taught) and through the reaper's
sweep; the races for an entry are between two callers, the reaper and the
handler, all present in `gate_race`. A wait below the time to live is the
shipped setting (120 s and 600 s); sleep makes the expiry come first as well.
One client suffices in `hook` because clients share only the daemons; a daemon
that takes over and one death give every order of the two. In `surfaces` the
requests of a list are independent of each other but for `armed`, which only
delays an answer. Three commands on a line put two operators in sequence, and
the parser's state is reset at each. Two entries put a foreign, a commandless or
a listless entry on either side of ours.
The theorems of section 5 remove these bounds for the properties they cover.
Deadlock is checked in all passing runs of `Gate` by what keeps happening (the
page may always come and go); in `learned_store` it is not, because with a torn
file the commands refuse to act and the bound on taught rules stops the daemon.
It is not checked either in `hook` (clients end), `adapters` (the bound on
commands) and `command_line` (the bound on the line), which really stop.

Fairness (`gate_live`): weak fairness of each handler's steps, each call's
steps, the reaper, the page's stream and the clock. The runtime schedules every
spawned task, tokio's timers fire, and the reaper's ticker never ends. Nothing
is assumed of humans, clients, sleep or crashes. `hook`: weak fairness of the
clock, of a daemon's write and answer, and of a client that has its answer, for
the same reasons; not of people, nor of daemons starting. `surfaces`: weak
fairness of the polls, which the menu bar's repeating timer starts, and of the
expiry, which is the reaper's; none of the push, of people or of a restart.

### Disagreements between code and documents

With a run that shows them:

* `gate_handoff`: a decision sent while the handler is giving up, or is being
  dropped, counts as delivered and is recorded by nobody. `ReceiptAccounted`
  shows that this is the only way a receipt is lost without a crash or a disk
  error.
* `learned_forget`: a rule may be back after policy forget reported success.
* `adapters_toml`: uninstalling from `config.toml` removes another tool's hook
  that shares an entry with ours. In JSON it survives (`OthersKept`).

Read off the code, with a passing property that says how far they go:

* The reaper never broadcasts, so an open page keeps showing a request that has
  expired; nothing else on it is out of date (`StaleCardsExpired`).
* An answer between insert and mint leaves buttons that nothing revokes. They
  cannot answer anything, the entry being gone, and all other buttons are
  revoked (`ButtonsDie`).
* NoDecisionYet may be answered for a request that has expired while the machine
  slept; the handler returns all the same (`HandlerReturns`).
* The shared temp file name lets a reader see a blank or torn rule file, but no
  rule that nobody taught (`NobodyInventsRules`).
* A rule learned from a command with quotes or a second blank between its first
  words, or with blanks around it, does not apply to that command again; a learned
  prefix applies to compound lines and longer words that begin with it
  (`LearnsWhatItSays` states exactly which).
* `2>&1` leaves a command `1` in a pipeline of its own, and the rest of the line
  behind a heredoc delimiter is lost (`RoundTrip` holds with just these two).
* `find_in_toml` gives up at an entry without hooks or a hook without a command,
  so that install adds a second hook behind it (`Settled` holds otherwise).
* `--timeout` is said to have to exceed the request's expiry (600 s) and
  defaults to 130 s; exceeding the wait of 120 s is enough (`NeverOrphaned`).

## 4. What could break each property

Every property of a passing run is paired in PROJECT.json with a mutant of the
definition it guards: a plausible slip in the code (an entry looked up instead
of removed, a receipt always or never written late, a dropped sender taken for a
denial, a missing broadcast, a lock not taken, seconds for milliseconds, a
failed request taken for an answered one, the last risk instead of the worst)
that makes TLC report the property violated.

## 5. Proofs

Assumptions: those named in the modules. `RequestAttributes` (the constants have
their types and `None` is no request), `ClocksAssumption` (wait and time to live
are naturals, zero included, as the code clamps a negative wait),
`EnvironmentAssumption` (disk outcomes are Booleans). Nothing bounds the numbers
of requests, callers or crashes.

`GateProofs`. `ReceiptIsOutcome` is not inductive: whether a row may be written
depends on who else might write one. The invariant `IInv` is about ownership.
Whoever takes the entry out of the queue fixes the outcome (`QueueOpen`,
`Unsettled`); a call that holds an entry is its only holder (`OneHolder`), its
decision is the outcome, and it owns the receipt until its send succeeds
(`CallerOwns`); a decision in the channel is the outcome and a handler that can
still take it has not written yet (`ChannelCarries`); a handler about to record
got its verdict from policy or from its channel (`HandlerOwns`); the reaper owns
what it swept (`ReaperOwns`). There is one lemma per action, and two shared ones
for the steps that decide and act have in common (`EntryTaken`, `CallAdvances`).
From `IInv` follow `TypeOK`, `ReceiptIsOutcome`, `AnswerIsOutcome` and
`AnsweredMeansRecorded`.

`GateProofs`, the contract. With a disk that works, each step of the daemon is a step of the
contract under the mapping above, or leaves it unchanged: `ImplementsContract`.
`FirstAnswerStands` needs no such assumption.

`RuleProofs`, evaluate. `EvaluateIsVerdict` justifies that `Gate` works with the set of
decisions of the matching rules; `OrderDoesNotDecide`, `LearningNeverLiftsDeny`
and `UnmatchedLearningIsInert` follow from it.

`PairingProofs`. Assumption: `PairingAssumption` (a process is a daemon or a run
of pair, the number of deaths is a natural). `PairedStayPaired` compares copies
in memory and is not inductive; `IInv` goes through the file. Unless it was
contended, at most one process creates a token and nobody has one yet
(`OneCreator`, `CreatorAlone`), the file is empty until then (`FileEmpty`), and
whoever has a token has the one in the file (`FileHolds`). With `PortHeld` (the
listener is a daemon that has its token) and `FromPair` (what the page has and
what it has under way was shown by pair), `PageKeepsToken` follows: no daemon
refuses what pair has shown. One lemma per part of `IInv`, one step per action.

`GateProofs`, the accounts. The ownership invariant says who may write a receipt, not that
anybody will. `AInv` adds what the accounts need. A handler has no verdict before
it has a decision or has given up (`Undecided`), an open channel has its handler
at the other end (`Attended`), a call came over the interface or from a button
and learns only from a "similar" decision (`Purposeful`), and a catastrophic
request is decided by its handler at once and never queued (`BlockedAtOnce`). With
these, `ReceiptAccounted`,
`PageMissesNothing`, `StaleCardsExpired` and `LearnedFromHuman` are preserved by
every step, and `BlockedNeverRuns` follows.

`HookAdapterProofs`. Assumptions: `WaitAssumption` and `CrashesAssumption` (wait,
timeouts and the number of deaths are naturals). `Relayed` looks at a process
that has ended, so the invariant `HInv` follows the verdict from where it was
made: an answer is what the contract recorded (`AnswersTrue`), a client waits for
a live daemon (`WaitsForLive`) and no longer than the daemon's wait
(`WaitsBounded`), and what a process printed is what it was told
(`SaysWhatItWasTold`). `NeverOrphaned` is the arithmetic of the two clocks on top
of `WaitsBounded`. The proof needed the cases of `Render` to exclude each other:
TLA+ leaves open which of two true cases is taken, where the code and TLC take
the first.

`SurfacesProofs`. Assumptions: `SimilarAssumption`, `DecisionsAssumption` (the
mark for "no decision" is none). `NeverHidden` compares the page with the queue,
and each surface works on a list that may be out of date. The invariant `SInv`
says that a request a surface has heard of is in the queue or settled for good
(`OnceQueued`), and that what an answer was handled for is out of the queue
(`HandledIsGone`).

`RuleProofs`, the rule file. Assumption: `CommandAttributes` (commands have a project, a
matcher and a project policy whose decisions are decisions; tasks are not
commands; "none" is no inode). Nothing bounds the numbers of writers, the disk or
the length of the lists. `SerialStore` is about the file, which only a rename
changes, so `StoreInv` follows each save: until a command overlaps a writer there
is one writer at a time (`TasksTakeTurns` from the lock, `WritersTakeTurns`), the
temp file is not the file (`Apart`), and the writer's temp file holds what its
operation makes of the rules as they are (`Undisturbed`). Every text on any inode
is of taught rules (`StoreType`), also when writers overwrite each other: hence
`NobodyInventsRules`. `FlipsNotStacks` needs what `Retain` computes for a list of
any length, from `ListProofs`. `SimilarIsScoped` follows from `LayeredVerdict`: a
decision depends on the learned rules by the set of those that bear upon the
command (`DecisionByBearing`).

`ListProofs`. Induction over data goes through with a set in the place of an
operator: the numbers for which a claim holds contain 0 and are closed under
successor, so they are all (`SetInduction`, from the well-foundedness of `<`);
the same for lists and appending (`ListInduction`). That the recursive functions
exist is proved this way too (`KeptExists` for `Retain`). From it: `Retain` and
flattening distribute over appending and concatenation, and picking members out
of a list of lists (`Picked`) is picking list by list.

`AdapterConfigProofs`. Assumptions: `FormatsAssumption` (the three formats) and
`EntriesAssumption` (the cap on the user's entries is a natural). `Recoverable`
is about the disk at any moment and `Settled` about the moment after a command,
so neither is inductive. The invariant has what is between: every text is well
formed and has at most one hook of ours that inspect could see (`Types`); an
install that is under way found none, and the text about to be written is as the
command will say (`Ready`); without a crash only the file that is being written is
not whole, and then the text to be written is (`Kept`); with crashes the file is
whole or empty, and an empty one has a whole backup behind it, or there was no
file (`Covered`), which rests on back_up being complete before fs::write empties
the file. Edits are followed through the lists of entries: removing our hooks
leaves the others' in their order (in TOML, those of other entries), adding one adds one, and a moved binary renames
ours without moving them (`MovedEntries`). There is one lemma per action.

`ShellProofs`. No assumptions: any text. One turn of the parser's loop moves on by
a character or more from every state it can be in (`StepAdvances`, one lemma per
method): a quotation or a substitution that never closes, a redirect without a
target and a heredoc without its delimiter end at the end of the text and not
before the place they began. So there are at most as many turns as characters
(`RunEnds`). No command without words and redirects and no pipeline without
commands is ever kept, and what is put off for later is not empty and shorter than the text, so the recursion of parse ends.

Only model-checked: liveness, which the prover cannot do; and what the parser and
the classifier compute (`RoundTrip`, `WorstOfParts`, `CodeAndData`,
`LearnsWhatItSays`), whose definitions are recursive operators and so out of the
prover's reach.

## 6. Not modelled

Formatting and wording (reasons, rule names, notification texts, tables), SQL
queries, routing and how a token is read out of a request, argument parsing, file
names, git information, `adapters list`, the audit window, and the relay that
carries notifications. `Gate` takes the risk and the shape of a command as
constants: `Classifier` says what they are for a text.

## 7. Plan

Notification delivery: `notify.rs` posts to the relay in a task of its own, which
may fail after the buttons exist.
