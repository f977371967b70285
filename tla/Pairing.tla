------------------------------ MODULE Pairing -------------------------------
(***************************************************************************)
(* The pairing token (pairing.rs): the daemon and the pair command both    *)
(* create the file on first use, with no lock between them; the daemon     *)
(* checks network requests against the copy it read when it started        *)
(* (require_token), and the page on a phone keeps its own copy, which it   *)
(* throws away when a request that carried it is refused (approve.html).   *)
(* A step is one file operation or one message; processes die anywhere.    *)
(***************************************************************************)
EXTENDS Naturals

CONSTANTS
    Daemons,     \* daemon processes; one that died may be started again
    Pairers,     \* runs of agent-gate pair
    MaxCrashes   \* bound: how many of these processes die

ASSUME PairingAssumption ==
    /\ Daemons \cap Pairers = {}
    /\ MaxCrashes \in Nat

Procs == Daemons \cup Pairers

VARIABLES
    phase,       \* phase[p]: "off", "truncate", "write" or "loaded"
    mem,         \* mem[p]: the token p holds in memory
    tokenFile,   \* a token, or NoToken: missing, or blank between truncation and write
    contended,   \* history: a process found no token while another was creating one
    listening,   \* the set of at most one daemon that has the network port
    crashes,
    token,       \* the page's token, in memory and in localStorage
    checks,      \* the tokens of the page's requests to /pending that are under way
    mistyped     \* history: the user entered a token that pair has not shown

procVars == <<phase, mem, tokenFile, contended, listening, crashes>>
pageVars == <<token, checks, mistyped>>
vars == <<procVars, pageVars>>

\* generate: 32 random bytes, so no two calls return the same token.
Tokens == Procs \X (0..MaxCrashes)
NoToken == <<>>
Typo == <<"typo">>

Creating(p) == phase[p] \in {"truncate", "write"}

\* The tokens that runs of pair have printed.
Shown == {mem[p] : p \in {q \in Pairers : phase[q] = "loaded"}}

Init ==
    /\ phase = [p \in Procs |-> "off"]
    /\ mem = [p \in Procs |-> NoToken]
    /\ tokenFile = NoToken
    /\ contended = FALSE
    /\ listening = {}
    /\ crashes = 0
    /\ token = NoToken
    /\ checks = {}
    /\ mistyped = FALSE

-----------------------------------------------------------------------------
(***************************************************************************)
(* The processes on the machine.                                           *)
(***************************************************************************)

\* Mutant of LoadToken: a daemon always brings a token of its own.
LoadTokenAnew(p) ==
    /\ phase[p] = "off"
    /\ LET found == tokenFile # NoToken /\ p \in Pairers
       IN  /\ phase' = [phase EXCEPT ![p] = IF found THEN "loaded" ELSE "truncate"]
           /\ mem' = [mem EXCEPT ![p] = IF found THEN tokenFile ELSE <<p, crashes>>]
    /\ contended' = (contended \/ (tokenFile = NoToken /\ \E q \in Procs : Creating(q)))
    /\ UNCHANGED <<tokenFile, listening, crashes, pageVars>>

\* load_or_create: the token in the file, or a new one if the file is missing,
\* unreadable or blank.
LoadToken(p) ==
    /\ phase[p] = "off"
    /\ LET found == tokenFile # NoToken
       IN  /\ phase' = [phase EXCEPT ![p] = IF found THEN "loaded" ELSE "truncate"]
           /\ mem' = [mem EXCEPT ![p] = IF found THEN tokenFile ELSE <<p, crashes>>]
    /\ contended' = (contended \/ (tokenFile = NoToken /\ \E q \in Procs : Creating(q)))
    /\ UNCHANGED <<tokenFile, listening, crashes, pageVars>>

\* std::fs::write opens with truncation ...
TruncateToken(p) ==
    /\ phase[p] = "truncate"
    /\ phase' = [phase EXCEPT ![p] = "write"]
    /\ tokenFile' = NoToken
    /\ UNCHANGED <<mem, contended, listening, crashes, pageVars>>

\* ... and then writes; the process goes on with the token it generated.
WriteToken(p) ==
    /\ phase[p] = "write"
    /\ phase' = [phase EXCEPT ![p] = "loaded"]
    /\ tokenFile' = mem[p]
    /\ UNCHANGED <<mem, contended, listening, crashes, pageVars>>

\* Mutant of ListenTcp: the address is shared with whoever has it.
ListenTcpShared(d) ==
    /\ phase[d] = "loaded"
    /\ listening' = listening \cup {d}
    /\ UNCHANGED <<phase, mem, tokenFile, contended, crashes, pageVars>>

\* serve_tcp: the port is free or the listener task ends.
ListenTcp(d) ==
    /\ phase[d] = "loaded"
    /\ listening = {}
    /\ listening' = {d}
    /\ UNCHANGED <<phase, mem, tokenFile, contended, crashes, pageVars>>

\* A process dies.  What a run of pair has printed stays on the screen.
Die(p) ==
    /\ phase[p] # "off"
    /\ p \in Pairers => phase[p] # "loaded"
    /\ crashes < MaxCrashes
    /\ crashes' = crashes + 1
    /\ phase' = [phase EXCEPT ![p] = "off"]
    /\ mem' = [mem EXCEPT ![p] = NoToken]
    /\ listening' = listening \ {p}
    /\ UNCHANGED <<tokenFile, contended, pageVars>>

-----------------------------------------------------------------------------
(***************************************************************************)
(* The page.                                                               *)
(***************************************************************************)

\* readToken and connect on a page that is opened: with the link that pair printed
\* (t), or again with what it has stored.  Requests of the old page are gone.
Open(t) ==
    /\ t \in Shown \cup ({token} \ {NoToken})
    /\ token' = t
    /\ checks' = {t}
    /\ UNCHANGED <<procVars, mistyped>>

\* The pairing form, offered while the page has no token: store and connect.
Enter(t) ==
    /\ token = NoToken
    /\ t \in Shown \cup {Typo}
    /\ token' = t
    /\ checks' = checks \cup {t}
    /\ mistyped' = (mistyped \/ t = Typo)
    /\ UNCHANGED procVars

\* The forget button closes the stream; the request to /pending goes on.
Forget ==
    /\ token # NoToken
    /\ token' = NoToken
    /\ UNCHANGED <<procVars, checks, mistyped>>

\* require_token: the daemon accepts exactly the token it started with.
Accepts(d, t) == t = mem[d]

\* Mutant of CheckReply: a failed request counts as a refusal.
CheckReplyAny(t) ==
    /\ t \in checks
    /\ checks' = checks \ {t}
    /\ token' = IF \E d \in listening : Accepts(d, t) THEN token ELSE NoToken
    /\ UNCHANGED <<procVars, mistyped>>

\* connect's request to /pending is answered: a 401 clears the token, whatever it
\* is by now.  A request that does not get through changes nothing.
CheckReply(t) ==
    /\ t \in checks
    /\ checks' = checks \ {t}
    /\ token' = IF \E d \in listening : ~Accepts(d, t) THEN NoToken ELSE token
    /\ UNCHANGED <<procVars, mistyped>>

Next ==
    \/ \E p \in Procs : LoadToken(p) \/ TruncateToken(p) \/ WriteToken(p) \/ Die(p)
    \/ \E d \in Daemons : ListenTcp(d)
    \/ \E t \in Shown \cup {token, Typo} : Open(t) \/ Enter(t)
    \/ Forget
    \/ \E t \in checks : CheckReply(t)

Spec == Init /\ [][Next]_vars

-----------------------------------------------------------------------------
TypeOK ==
    /\ phase \in [Procs -> {"off", "truncate", "write", "loaded"}]
    /\ mem \in [Procs -> Tokens \cup {NoToken}]
    /\ tokenFile \in Tokens \cup {NoToken}
    /\ contended \in BOOLEAN /\ mistyped \in BOOLEAN
    /\ listening \in {{}} \cup {{d} : d \in Daemons}
    /\ crashes \in 0..MaxCrashes
    /\ token \in Tokens \cup {NoToken, Typo}
    /\ checks \in SUBSET (Tokens \cup {Typo})

\* A restart does not unpair devices (the test token_is_persisted_and_reused): unless
\* a process looked for the token while another was creating it, every token that
\* pair has shown is the one every daemon checks requests against, however often
\* daemons and runs of pair die on the way and start again.
PairedStayPaired ==
    ~contended =>
        \A p \in Pairers, d \in Daemons :
            phase[p] = "loaded" /\ phase[d] = "loaded" => Accepts(d, mem[p])

\* A page keeps the token it was given: unless the token file was contended or the
\* user mistyped one, only the forget button takes it away.  (A refusal is applied to
\* whatever token the page has when it arrives: after a typing error the late answer
\* to the wrong token also clears the right one.)
PageKeepsToken ==
    [][token # NoToken /\ token' = NoToken /\ ~contended /\ ~mistyped => Forget]_vars

=============================================================================
