----------------------------- MODULE Classifier -----------------------------
(***************************************************************************)
(* The risk classifier (classifier.rs) on top of the parser, and what the  *)
(* gate learns from a command (derive_match in learned.rs).  Of an         *)
(* assessment only the level is kept.  The regular expressions and name    *)
(* lists that look into a word are sets of the atoms they match.           *)
(***************************************************************************)
EXTENDS Shell

Levels == <<"low", "medium", "high", "blocked">>
Rank(level) == CHOOSE n \in 1..4 : Levels[n] = level

\* Mutant of Worst: the last level wins.
WorstLast(levels) == IF levels = <<>> THEN "medium" ELSE Last(levels)

\* The worst of a sequence of levels; nothing at all is medium.
Worst(levels) ==
    IF levels = <<>> THEN "medium" ELSE Levels[Max({Rank(levels[k]) : k \in DOMAIN levels})]

SecretReaders == {"cat", "less", "more", "head", "tail", "open", "bat"}
NetworkTools == {"curl", "wget", "nc", "ncat", "netcat", "scp", "sftp", "telnet"}
Wrappers == {"sudo", "doas", "env", "nice", "nohup", "time", "xargs", "command"}
Shells == {"bash", "sh", "zsh", "dash", "ksh"}
FileWriters == {"mkdir", "touch", "mv", "cp", "chmod", "chown", "ln", "tee", "truncate"}
Benign == {"ls", "ll", "tree", "cd", "echo", "printf", "pwd", "true", "false", "export",
           "which", "type", "command", "date", "sleep", "seq", "basename", "dirname", "wc",
           "sort", "uniq", "grep", "egrep", "fgrep", "cut", "tr", "jq", "column", "whoami",
           "id", "uname", "hostname", "file", "stat", "du", "df", "ps", "env", "test", "diff",
           "wait", "read", "set", "unset", "source", "history", "man"}

\* trim_end_matches('/'), which may take whole atoms with it.
TrimSlashes(word) ==
    LET Ink(a) == {k \in 1..Len(a) : SubSeq(a, k, k) # "/"}
        inked == {k \in DOMAIN word : Ink(word[k]) # {}}
    IN  IF inked = {} THEN <<>>
        ELSE LET k == Max(inked)
             IN  Append(SubSeq(word, 1, k - 1), SubSeq(word[k], 1, Max(Ink(word[k]))))

\* is_secret_path, is_build_dir, and the root and home directories of rm_risk, both
\* without the slashes at their end: the root is then an empty word.
SecretPaths == {".env", "~/.ssh/id_rsa"}
BuildDirs == {"./dist", "build", "dist"}
RootOrHome == {<<>>, <<"~">>, <<"$HOME">>, <<"$", "{", "HOME", "}">>}

\* What the first operand of a tool says: node_risk, cargo_risk, aws_risk, docker_risk,
\* and the calls of simple_subcommand.
Node == [publish |-> "high", install |-> "medium", i |-> "medium", add |-> "medium",
         ci |-> "medium", test |-> "low", lint |-> "low", typecheck |-> "low"]
Cargo == [publish |-> "high", install |-> "medium", add |-> "medium", test |-> "low",
          check |-> "low", clippy |-> "low", fmt |-> "low", tree |-> "low"]
Aws == [iam |-> "high"]
Docker == [compose |-> "medium"]
Installer == [install |-> "medium"]
SubcommandRules ==
    [npm |-> Node, pnpm |-> Node, yarn |-> Node, bun |-> Node, cargo |-> Cargo, aws |-> Aws,
     docker |-> Docker, pip |-> Installer, pip3 |-> Installer, brew |-> Installer,
     gem |-> Installer, terraform |-> [apply |-> "high", destroy |-> "high"],
     kubectl |-> [delete |-> "high"], twine |-> [upload |-> "high"]]

SubcommandRisk(argv) ==
    LET rules == SubcommandRules[Name(argv)]
        sub == Subcommand(argv)
    IN  CASE sub \in DOMAIN rules -> rules[sub]
          [] sub = "run" /\ rules = Node /\ Operand(argv, 2) \in {"test", "lint", "typecheck"} -> "low"
          [] OTHER -> None

RmRisk(argv) ==
    LET targets == {TrimSlashes(w) : w \in ToSet(Operands(argv))}
    IN  IF ~(HasFlag(argv, {"-r", "-R", "--recursive"}) /\ HasFlag(argv, {"-f", "--force"}))
        THEN "medium"
        ELSE CASE targets \cap RootOrHome # {} -> "blocked"
               [] targets # {} /\ targets \subseteq {<<d>> : d \in BuildDirs} -> "medium"
               [] OTHER -> "high"

GitRisk(argv, branch) ==
    LET sub == Subcommand(argv)
    IN  CASE sub = "push" ->
               IF ~HasFlag(argv, {"-f", "--force", "--force-with-lease"}) THEN None
               ELSE IF branch \in {"main", "master"} THEN "blocked" ELSE "high"
          [] sub = "reset" /\ HasFlag(argv, {"--hard"}) -> "high"
          [] sub = "clean" /\ HasFlag(argv, {"-f"}) /\ HasFlag(argv, {"-d"}) -> "high"
          [] sub = "branch" /\ HasFlag(argv, {"-d", "-D", "--delete"}) -> "medium"
          [] sub = "checkout" /\ HasFlag(argv, {"-b"}) -> "medium"
          [] sub = "switch" /\ HasFlag(argv, {"-c"}) -> "medium"
          [] sub \in {"status", "diff", "log", "show", "remote", "blame", "describe"} -> "low"
          [] sub = "branch" /\ ~HasFlag(argv, {"-d", "-D", "--delete"}) -> "low"
          [] OTHER -> None

GhRisk(argv) ==
    IF Operand(argv, 1) = "release" /\ Operand(argv, 2) = "create" THEN "high" ELSE None

UploadRisk(argv) ==
    LET args == Args(argv)
        Uploads(k) == \/ AtomOf(args[k]) \in {"-T", "--upload-file"}
                      \/ StartsWith(AtomOf(args[k]), "--data=@")
                      \/ /\ AtomOf(args[k]) \in {"--data", "-d", "-F"}
                         /\ k < Len(args)
                         /\ \E a \in ToSet(args[k + 1]) : HasChar(a, "@")
    IN  IF \E k \in DOMAIN args : Uploads(k) THEN "high" ELSE None

ReadsSecret(argv) ==
    \E w \in ToSet(Operands(argv)) : ToSet(w) \cap SecretPaths # {}

ReadRisk(argv) == IF ReadsSecret(argv) THEN "high" ELSE "low"

\* The match on the program's name in classify_command.
SpecificRisk(argv, branch) ==
    LET name == Name(argv)
    IN  CASE name = "rm" -> RmRisk(argv)
          [] name = "git" -> GitRisk(argv, branch)
          [] name = "gh" -> GhRisk(argv)
          [] name \in {"curl", "wget"} -> UploadRisk(argv)
          [] name \in DOMAIN SubcommandRules -> SubcommandRisk(argv)
          [] name \in SecretReaders -> ReadRisk(argv)
          [] name \in FileWriters \cup {"docker-compose"} -> "medium"
          [] name \in Benign -> "low"
          [] OTHER -> None

-----------------------------------------------------------------------------
RECURSIVE Scan(_), Parse(_, _), StripWrappers(_), Classify(_, _)

\* The loop of run.
Scan(p) == IF p.i > Len(p.text) THEN EndPipeline(p) ELSE Scan(Step(p))

\* What run leaves in p.pipelines: those of the text, and after them those of the
\* substitutions found on the way.
Found(p, fromSubstitution) ==
    [k \in DOMAIN p.pipelines |-> [commands |-> p.pipelines[k], sub |-> fromSubstitution]]
      \o FlattenSeq([k \in DOMAIN p.deferred |-> Parse(p.deferred[k], TRUE)])

Parse(text, fromSubstitution) == Found(Scan(Start(text)), fromSubstitution)

\* strip_wrappers: sudo, env, xargs and the like, with their flags and assignments.
StripWrappers(argv) ==
    IF argv = <<>> \/ Len(argv) < 2 \/ Name(argv) \notin Wrappers THEN argv
    ELSE LET rest == {k \in 2..Len(argv) :
                        ~IsFlag(argv[k]) /\ \A a \in ToSet(argv[k]) : ~HasChar(a, "=")}
         IN  IF rest = {} THEN <<>> ELSE StripWrappers(SubSeq(argv, Min(rest), Len(argv)))

\* Risks that only exist across the commands of a pipeline.
PipelineBlocked(pipeline) ==
    LET run == {StripWrappers(c.argv) : c \in ToSet(pipeline.commands)}
        secret == \E argv \in run : Name(argv) \in SecretReaders /\ ReadsSecret(argv)
        network == \E argv \in run : Name(argv) \in NetworkTools
        sudo == \E c \in ToSet(pipeline.commands) : Name(c.argv) \in {"sudo", "doas"}
    IN  \/ secret /\ network /\ Len(pipeline.commands) > 1
        \/ secret /\ pipeline.sub
        \/ sudo /\ network

\* join(" ") of the arguments.
Joined(words) ==
    FlattenSeq([k \in DOMAIN words |-> IF k = 1 THEN words[k] ELSE <<" ">> \o words[k]])

\* Mutant of ScriptOf: only eval runs a text.
ScriptOfEval(argv) == IF Name(argv) = "eval" THEN Joined(Args(argv)) ELSE <<>>

\* The text that a command runs: the argument of bash -c, the arguments of eval.
ScriptOf(argv) ==
    LET args == Args(argv)
        c == SelectInSeq(args, LAMBDA w : w = <<"-c">>)
    IN  CASE Name(argv) \in Shells /\ c # 0 /\ c < Len(args) -> args[c + 1]
          [] Name(argv) = "eval" -> Joined(args)
          [] OTHER -> <<>>

\* The end of classify_command: a harmless command that redirects still writes, and
\* what nothing is known about is medium.
WithWrites(risk, writes) ==
    IF risk = None \/ (risk = "low" /\ writes) THEN "medium" ELSE risk

\* classify_command, behind the wrappers: a text that is run is judged as a text.
ProgramLevel(argv, writes, branch) ==
    IF ScriptOf(argv) # <<>> THEN Classify(ScriptOf(argv), branch)
    ELSE WithWrites(SpecificRisk(argv, branch), writes)

CommandLevel(command, branch) ==
    ProgramLevel(StripWrappers(command.argv), command.writes, branch)

\* classify_pipeline
PipelineLevel(pipeline, branch) ==
    IF PipelineBlocked(pipeline) THEN "blocked"
    ELSE Worst([k \in DOMAIN pipeline.commands |->
                    CommandLevel(pipeline.commands[k], branch)])

\* classify: the worst of the parts.
WorstPipeline(pipelines, branch) ==
    Worst([k \in DOMAIN pipelines |-> PipelineLevel(pipelines[k], branch)])
Classify(text, branch) == WorstPipeline(Parse(text, FALSE), branch)

-----------------------------------------------------------------------------
\* Mutant of Generalised: the first command of a line stands for the line.
GeneralisedFirst(pipelines, exact) ==
    IF pipelines = <<>> THEN exact
    ELSE [kind |-> "prefix", value |-> Head(Append(pipelines[1].commands[1].argv, <<>>))]

\* The program and its subcommand, if the line is a single command that writes nothing.
Generalised(pipelines, exact) ==
    LET command == pipelines[1].commands[1]
        argv == command.argv
    IN  IF \/ Len(pipelines) # 1 \/ Len(pipelines[1].commands) # 1
           \/ argv = <<>> \/ command.writes
        THEN exact
        ELSE [kind |-> "prefix",
              value |-> IF Len(argv) > 1 /\ ~IsFlag(argv[2])
                        THEN argv[1] \o <<" ">> \o argv[2] ELSE argv[1]]

\* derive_match: anything that is not generalised is kept as it is.
DeriveMatch(text) ==
    Generalised(Parse(Trim(text), FALSE), [kind |-> "exact", value |-> Trim(text)])

\* starts_with: the last atom of the prefix may go on in the text.
TextStartsWith(text, prefix) ==
    prefix # <<>> =>
        /\ Len(text) >= Len(prefix)
        /\ IsPrefix(Front(prefix), text)
        /\ StartsWith(text[Len(prefix)], Last(prefix))

\* as_policy_rule and RuleMatch::matches on the text of a command, as it stands.
RuleMatches(m, text) ==
    IF m.kind = "exact" THEN text = m.value ELSE TextStartsWith(text, m.value)

=============================================================================
