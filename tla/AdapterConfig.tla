--------------------------- MODULE AdapterConfig ----------------------------
(***************************************************************************)
(* adapters install and adapters uninstall (adapters.rs) on a settings     *)
(* file that belongs to the user: inspect, back up, read, edit and write   *)
(* back.  A step is one file operation; the command may die between any    *)
(* two, the file may be saved by its agent or its user meanwhile, and the  *)
(* binary may move, which turns its hooks into stale ones.                 *)
(*                                                                         *)
(* A text holds the user's other settings (rest) and the entries under the *)
(* agent's event.  An entry is a sequence of hooks, of one hook in the     *)
(* flat format; Unlisted is an entry that has no list of hooks.            *)
(***************************************************************************)
EXTENDS Naturals, Sequences, Lists, SequencesExt

CONSTANTS
    Formats,      \* the formats to start from: "nested", "flat", "toml"
    MaxEntries,   \* bound: entries of the document at the start
    MaxRuns,      \* bound: commands that are run
    MaxCrashes,   \* bound: how often the command dies
    MaxSaves,     \* bound: how often the file is saved by someone else
    MaxMoves      \* bound: how often the binary moves

ASSUME FormatsAssumption == Formats \subseteq {"nested", "flat", "toml"}
ASSUME EntriesAssumption == MaxEntries \in Nat

VARIABLES
    format,   \* the format of this agent's file
    file,     \* a text, or NoFile
    backup,   \* the same, beside it
    pc,       \* the next step of the running command, or "idle"
    todo,     \* the edits it still has to make
    draft,    \* the text it is about to write
    last,     \* history: the command that ended last, "none" if it did not succeed
    theirs,   \* history: what the user has set up, [rest, hooks]
    harm,     \* history: events that may cost the user settings
    runs, crashes, saves, moves

bounds == <<runs, crashes, saves, moves>>
vars == <<format, file, backup, pc, todo, draft, last, theirs, harm, bounds>>

Text(kind, rest, entries) == [kind |-> kind, rest |-> rest, entries |-> entries]
NoFile == Text("missing", FALSE, <<>>)
Blank == Text("blank", FALSE, <<>>)

Unlisted == <<"unlisted">>
OurHooks == {"ours", "stale"}
OtherHooks == {"foreign", "nocmd", "unlisted"}
IsOurHook(h) == h \in OurHooks

\* The hooks of the entries that are ours, and those that are not.
Ours(entries) == Retain(FlattenSeq(entries), OurHooks)
Foreign(entries) == Retain(FlattenSeq(entries), OtherHooks)

-----------------------------------------------------------------------------
(***************************************************************************)
(* Finding, adding and removing hooks.                                     *)
(***************************************************************************)

\* Mutant of Find: only a hook of this very binary counts.
FindExact(fmt, text) ==
    IF text.kind = "doc" /\ Contains(FlattenSeq(text.entries), "ours") THEN "ours" ELSE "none"

\* inspect with find_in_json and find_in_toml: the first hook that is ours.  In TOML
\* the search gives up at an entry without hooks and at a hook without a command.
Find(fmt, text) ==
    LET flat == FlattenSeq(text.entries)
        stops == OurHooks \cup (IF fmt = "toml" THEN {"unlisted", "nocmd"} ELSE {})
        i == SelectInSeq(flat, LAMBDA h : h \in stops)
    IN  IF text.kind = "doc" /\ i # 0 /\ flat[i] \in OurHooks THEN flat[i] ELSE "none"

\* install_json, install_toml: a new entry at the end.
WithHook(entries) == Append(entries, <<"ours">>)

\* Mutant of WithoutHook: every format removes the whole entry.
WithoutEntry(fmt, entries) ==
    Retain(entries, {e \in Range(entries) : \A i \in DOMAIN e : ~IsOurHook(e[i])})

\* uninstall_json, uninstall_toml.  JSON loses our hooks and then the entries whose
\* list is empty; TOML loses every entry that has a hook of ours.
WithoutHook(fmt, entries) ==
    IF fmt = "nested"
    THEN LET stripped == [i \in DOMAIN entries |-> Retain(entries[i], OtherHooks)]
         IN  Retain(stripped, Range(stripped) \ {<<>>})
    ELSE Retain(entries, {e \in Range(entries) : \A i \in DOMAIN e : ~IsOurHook(e[i])})

-----------------------------------------------------------------------------
EntriesOf(fmt) ==
    IF fmt = "flat" THEN {<<"ours">>, <<"stale">>, <<"foreign">>, <<"nocmd">>}
    ELSE {Unlisted, <<"ours">>, <<"stale">>, <<"foreign">>, <<"nocmd">>,
          <<"foreign", "ours">>, <<"stale", "foreign">>}

\* The user's file, in which an earlier install may have left one hook of ours (and
\* the user may have moved it into an entry of theirs).
UserTexts(fmt) ==
    {Text("doc", TRUE, es) : es \in
        {s \in BoundedSeq(EntriesOf(fmt), MaxEntries) : Len(Ours(s)) <= 1}}
      \cup {NoFile, Text("broken", TRUE, <<<<"foreign">>>>)}

Init ==
    /\ format \in Formats
    /\ file \in UserTexts(format)
    /\ backup = NoFile
    /\ pc = "idle" /\ todo = <<>> /\ draft = NoFile
    /\ last = "none"
    /\ theirs = [rest |-> file.rest, hooks |-> Foreign(file.entries)]
    /\ harm = {}
    /\ runs = 0 /\ crashes = 0 /\ saves = 0 /\ moves = 0

\* install: what inspect finds decides.  Our own command: already installed.  Another
\* one: uninstall it first.
BeginInstall ==
    /\ pc = "idle" /\ runs < MaxRuns
    /\ runs' = runs + 1
    /\ LET found == Find(format, file)
       IN  /\ pc' = IF found = "ours" THEN "idle" ELSE "truncate_backup"
           /\ last' = IF found = "ours" THEN "install" ELSE "none"
           /\ todo' = CASE found = "ours" -> <<>>
                        [] found = "stale" -> <<"uninstall", "install">>
                        [] OTHER -> <<"install">>
    /\ harm' = harm \cup (IF file.kind = "blank" THEN {"rerun"} ELSE {})
    /\ UNCHANGED <<format, file, backup, draft, theirs, crashes, saves, moves>>

\* uninstall: nothing to do unless inspect finds a hook.
BeginUninstall ==
    /\ pc = "idle" /\ runs < MaxRuns
    /\ runs' = runs + 1
    /\ LET found == Find(format, file) # "none"
       IN  /\ pc' = IF found THEN "truncate_backup" ELSE "idle"
           /\ last' = IF found THEN "none" ELSE "uninstall"
           /\ todo' = IF found THEN <<"uninstall">> ELSE <<>>
    /\ UNCHANGED <<format, file, backup, draft, theirs, harm, crashes, saves, moves>>

\* Mutant of BackUp: the new text is the backup's too, as if it were copied later.
BackUpNothing ==
    /\ pc = "truncate_backup"
    /\ pc' = "read"
    /\ UNCHANGED <<format, file, backup, todo, draft, last, theirs, harm, bounds>>

\* back_up: fs::copy, if there is a file to copy, empties the old backup ...
BackUp ==
    /\ pc = "truncate_backup"
    /\ pc' = IF file = NoFile THEN "read" ELSE "copy"
    /\ backup' = IF file = NoFile THEN backup ELSE Blank
    /\ UNCHANGED <<format, file, todo, draft, last, theirs, harm, bounds>>

\* ... and fills it.
Copy ==
    /\ pc = "copy"
    /\ pc' = "read"
    /\ backup' = file
    /\ UNCHANGED <<format, file, todo, draft, last, theirs, harm, bounds>>

\* The text is read and edited in memory.  One that does not parse ends the command.
Read ==
    /\ pc = "read"
    /\ IF file.kind = "broken" \/ (Head(todo) = "uninstall" /\ file.kind # "doc")
       THEN pc' = "idle" /\ todo' = <<>> /\ UNCHANGED <<draft, harm>>
       ELSE LET edited == IF Head(todo) = "install" THEN WithHook(file.entries)
                          ELSE WithoutHook(format, file.entries)
            IN  /\ draft' = Text("doc", file.rest, edited)
                /\ harm' = harm \cup
                     (IF format = "toml" /\ Foreign(edited) # Foreign(file.entries)
                      THEN {"shared"} ELSE {})
                /\ pc' = "truncate"
                /\ UNCHANGED todo
    /\ UNCHANGED <<format, file, backup, last, theirs, bounds>>

\* fs::write empties the file ...
Truncate ==
    /\ pc = "truncate"
    /\ pc' = "write"
    /\ file' = Blank
    /\ UNCHANGED <<format, backup, todo, draft, last, theirs, harm, bounds>>

\* Mutant of Write: install returns after the uninstall of the stale hook.
WriteOnce ==
    /\ pc = "write"
    /\ file' = draft
    /\ pc' = "idle"
    /\ todo' = Tail(todo)
    /\ last' = Head(todo)
    /\ UNCHANGED <<format, backup, draft, theirs, harm, bounds>>

\* ... and fills it; the next edit, if any, begins with a backup of its own.
Write ==
    /\ pc = "write"
    /\ file' = draft
    /\ pc' = IF Len(todo) > 1 THEN "truncate_backup" ELSE "idle"
    /\ todo' = Tail(todo)
    /\ last' = IF Len(todo) > 1 THEN "none" ELSE Head(todo)
    /\ UNCHANGED <<format, backup, draft, theirs, harm, bounds>>

\* The command dies.
Crash ==
    /\ pc # "idle" /\ crashes < MaxCrashes
    /\ crashes' = crashes + 1
    /\ pc' = "idle" /\ todo' = <<>>
    /\ UNCHANGED <<format, file, backup, draft, last, theirs, harm, runs, saves, moves>>

\* The user, or the agent itself, saves the file with one more hook of another tool.
\* The command does not notice if it has read the text already.
Save ==
    /\ saves < MaxSaves
    /\ file.kind = "doc"
    /\ saves' = saves + 1
    /\ file' = [file EXCEPT !.rest = TRUE, !.entries = Append(@, <<"foreign">>)]
    /\ theirs' = [rest |-> TRUE, hooks |-> Append(theirs.hooks, "foreign")]
    /\ harm' = harm \cup (CASE pc = "read" -> {"unbacked"}
                            [] pc = "truncate" -> {"unbacked", "overwritten"}
                            [] OTHER -> {})
    /\ UNCHANGED <<format, backup, pc, todo, draft, last, runs, crashes, moves>>

\* The binary is moved, or another checkout is built: our hook is stale from now on.
MoveBinary ==
    /\ pc = "idle" /\ moves < MaxMoves
    /\ moves' = moves + 1
    /\ file' = [file EXCEPT !.entries =
                   [i \in DOMAIN @ |-> ReplaceAll(@[i], "ours", "stale")]]
    /\ last' = "none"
    /\ UNCHANGED <<format, backup, pc, todo, draft, theirs, harm, runs, crashes, saves>>

\* The user copies the backup back over a file that was left empty.
Restore ==
    /\ pc = "idle" /\ file.kind = "blank" /\ backup.kind # "missing"
    /\ file' = backup
    /\ last' = "none"
    /\ UNCHANGED <<format, backup, pc, todo, draft, theirs, harm, bounds>>

Next ==
    \/ BeginInstall \/ BeginUninstall \/ BackUp \/ Copy \/ Read \/ Truncate \/ Write
    \/ Crash \/ Save \/ MoveBinary \/ Restore

Spec == Init /\ [][Next]_vars

-----------------------------------------------------------------------------
\* A text has everything the user put there.
Whole(text) == [rest |-> text.rest, hooks |-> Foreign(text.entries)] = theirs

TypeOK ==
    /\ format \in Formats
    /\ pc \in {"idle", "truncate_backup", "copy", "read", "truncate", "write"}
    /\ todo \in BoundedSeq({"install", "uninstall"}, 2)
    /\ (pc = "idle") = (todo = <<>>)
    /\ last \in {"none", "install", "uninstall"}
    /\ harm \subseteq {"rerun", "shared", "unbacked", "overwritten"}

\* Everything else in the file is preserved (adapters.rs:4, README: "another tool's
\* hooks survive"): whenever no command is at work the file has all the user's hooks
\* and settings, unless a command died on it, or someone saved it behind the
\* command's back, or TOML put a foreign hook into the entry that was removed.
OthersKept ==
    pc = "idle" /\ crashes = 0 /\ harm \subseteq {"unbacked"} => Whole(file)

\* The same for the settings on the disk at any moment: until a crash is followed by
\* another install, which takes the empty file for the user's and backs it up, the
\* user's text is in the file or in the backup.
Recoverable ==
    harm = {} => Whole(file) \/ Whole(backup)

\* A command that reports success leaves the file as it says: one hook of this binary
\* and no stale one after install, however often it is repeated and wherever the
\* binary moved (adapters.rs: "installing twice is a no-op rather than a duplicate
\* hook"), and none after uninstall; unless a TOML entry hid the hook from inspect.
Settled ==
    LET flat == FlattenSeq(file.entries)
        hidden == format = "toml" /\ (Contains(flat, "unlisted") \/ Contains(flat, "nocmd"))
    IN  pc = "idle" /\ file.kind = "doc" /\ ~hidden =>
          /\ last = "install" => Ours(file.entries) = <<"ours">>
          /\ last = "uninstall" => Ours(file.entries) = <<>>

\* What README says of uninstall without exception: it "removes only hooks pointing at
\* this binary, so another tool's hooks survive".
OthersSurvive ==
    pc = "idle" /\ crashes = 0 /\ saves = 0 => Foreign(file.entries) = theirs.hooks

=============================================================================
