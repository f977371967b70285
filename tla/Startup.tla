------------------------------ MODULE Startup -------------------------------
(***************************************************************************)
(* The two listeners of a daemon (lib.rs, server.rs): the Unix socket that *)
(* hooks, the menu bar and the terminal connect to, and the optional port  *)
(* for phones.  Nothing stops a second daemon from being started: a step   *)
(* is one system call on a socket, and a daemon may die between any two.   *)
(***************************************************************************)
EXTENDS Naturals

CONSTANTS
    Daemons,     \* daemon processes; one that died may be started again
    MaxCrashes   \* bound: how many of them die

ASSUME CrashesAssumption == MaxCrashes \in Nat

None == "none"

VARIABLES
    phase,       \* phase[d]: where d is in its start-up
    socket,      \* the daemon whose socket is at the path (it may be dead), or None
    port,        \* the daemon that listens on the network port, or None
    crashes

startVars == <<phase, socket, port, crashes>>

Serving(d) == phase[d] = "serving"

StartInit ==
    /\ phase = [d \in Daemons |-> "off"]
    /\ socket = None /\ port = None
    /\ crashes = 0

\* run: the database, the token and notify.yml are read (one that cannot be ends
\* the daemon there and then), and the reaper is spawned.
Start(d) ==
    /\ phase[d] = "off"
    /\ phase' = [phase EXCEPT ![d] = "check"]
    /\ UNCHANGED <<socket, port, crashes>>

\* serve_tcp, in a task of its own that the runtime starts at any time.  If the port is
\* taken the task reports it and ends, and the daemon goes on without a network listener.
\* The attempt is not remembered: the model also lets a daemon listen that failed once,
\* so that what is shown of the start holds whichever daemon has the port.
ListenTcp(d) ==
    /\ phase[d] # "off"
    /\ port = None
    /\ port' = d
    /\ UNCHANGED <<phase, socket, crashes>>

\* serve_unix: whatever is at the path, a dead daemon's socket or a live one's,
\* is removed.
CheckSocket(d) ==
    /\ phase[d] = "check"
    /\ phase' = [phase EXCEPT ![d] = IF socket # None THEN "unlink" ELSE "bind"]
    /\ UNCHANGED <<socket, port, crashes>>

\* An error of serve_unix, or death: the process ends and its port is free.
Exit(d) == /\ phase' = [phase EXCEPT ![d] = "off"]
           /\ port' = IF port = d THEN None ELSE port

\* remove_file fails, and ends the daemon, if another one removed it meanwhile.
UnlinkSocket(d) ==
    /\ phase[d] = "unlink"
    /\ \/ /\ socket # None
          /\ phase' = [phase EXCEPT ![d] = "bind"]
          /\ UNCHANGED port
       \/ socket = None /\ Exit(d)
    /\ socket' = None
    /\ UNCHANGED crashes

\* bind fails, and ends the daemon, if another one bound the path meanwhile.
BindSocket(d) ==
    /\ phase[d] = "bind"
    /\ \/ /\ socket = None
          /\ socket' = d
          /\ phase' = [phase EXCEPT ![d] = "serving"]
          /\ UNCHANGED port
       \/ socket # None /\ Exit(d) /\ UNCHANGED socket
    /\ UNCHANGED crashes

\* d dies.  Its socket stays at the path and refuses connections.
Die(d) ==
    /\ phase[d] # "off"
    /\ crashes < MaxCrashes
    /\ crashes' = crashes + 1
    /\ Exit(d)
    /\ UNCHANGED socket

StartStep ==
    \E d \in Daemons : \/ Start(d) \/ ListenTcp(d) \/ CheckSocket(d)
                       \/ UnlinkSocket(d) \/ BindSocket(d)

\* The daemon a client that connects to the path now reaches, or None.
Reached == IF socket # None /\ Serving(socket) THEN socket ELSE None

-----------------------------------------------------------------------------
StartTypeOK ==
    /\ phase \in [Daemons -> {"off", "check", "unlink", "bind", "serving"}]
    /\ socket \in Daemons \cup {None}
    /\ port \in Daemons \cup {None}
    /\ crashes \in 0..MaxCrashes

=============================================================================
