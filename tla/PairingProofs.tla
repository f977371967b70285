--------------------------- MODULE PairingProofs ----------------------------
(***************************************************************************)
(* Pairing for any numbers of daemons, runs of pair and deaths.            *)
(***************************************************************************)
EXTENDS Pairing, TLAPS

\* Unless the file was contended at most one process creates a token, while nobody has
\* one yet; and whoever has one has the one in the file.
OneCreator == \A p, q \in Procs : Creating(p) /\ Creating(q) => p = q
CreatorAlone == \A p, q \in Procs : Creating(p) => phase[q] # "loaded"
FileEmpty == \A p \in Procs : Creating(p) => tokenFile = NoToken
FileHolds == \A p \in Procs : phase[p] = "loaded" => mem[p] = tokenFile
OneToken == ~contended => OneCreator /\ CreatorAlone /\ FileEmpty /\ FileHolds

\* A process that has started has a token, contended or not.
HasToken == \A p \in Procs : phase[p] # "off" => mem[p] \in Tokens

\* The port belongs to a daemon that has its token.
PortHeld == \A d \in listening : phase[d] = "loaded"

\* What the page has, and what it has under way, was shown by pair.
FromPair == ~contended /\ ~mistyped => token \in Shown \cup {NoToken} /\ checks \subseteq Shown

IInv == TypeOK /\ HasToken /\ OneToken /\ PortHeld /\ FromPair

\* A generated token is not the missing one.
LEMMA TokensExist == ASSUME NEW t \in Tokens PROVE t # NoToken
<1>1. PICK p \in Procs, n \in 0..MaxCrashes : t = <<p, n>>  BY DEF Tokens
<1>. QED  BY <1>1 DEF NoToken

\* The daemons and the runs of pair are different processes.
LEMMA ProcsSplit == Daemons \subseteq Procs /\ Pairers \subseteq Procs
BY DEF Procs

\* Pair never takes back what it has shown.
LEMMA ShownStays ==
    ASSUME IInv, [Next]_vars PROVE Shown \subseteq Shown'
<1>. SUFFICES ASSUME NEW p \in Pairers, phase[p] = "loaded"
              PROVE phase'[p] = "loaded" /\ mem'[p] = mem[p]
  BY DEF Shown
<1>. USE ProcsSplit DEF IInv, TypeOK
<1>1. ASSUME NEW q \in Procs, LoadToken(q)  PROVE phase'[p] = "loaded" /\ mem'[p] = mem[p]
  BY <1>1 DEF LoadToken
<1>2. ASSUME NEW q \in Procs, TruncateToken(q)  PROVE phase'[p] = "loaded" /\ mem'[p] = mem[p]
  BY <1>2 DEF TruncateToken
<1>3. ASSUME NEW q \in Procs, WriteToken(q)  PROVE phase'[p] = "loaded" /\ mem'[p] = mem[p]
  BY <1>3 DEF WriteToken
<1>4. ASSUME NEW q \in Procs, Die(q)  PROVE phase'[p] = "loaded" /\ mem'[p] = mem[p]
  BY <1>4 DEF Die
<1>5. CASE UNCHANGED <<phase, mem>>
  BY <1>5
<1>. QED
  BY <1>1, <1>2, <1>3, <1>4, <1>5 DEF Next, ListenTcp, Open, Enter, Forget, CheckReply, vars,
     procVars, pageVars

\* The initial state.
LEMMA Initially == Init => IInv
<1>. SUFFICES ASSUME Init PROVE IInv
  OBVIOUS
<1>. USE DEF Init
<1>1. TypeOK
  <2>1. phase \in [Procs -> {"off", "truncate", "write", "loaded"}]
        /\ mem \in [Procs -> Tokens \cup {NoToken}]
    OBVIOUS
  <2>2. crashes \in 0..MaxCrashes
    BY PairingAssumption
  <2>3. listening \in {{}} \cup {{d} : d \in Daemons} /\ checks \in SUBSET (Tokens \cup {Typo})
    OBVIOUS
  <2>. QED  BY <2>1, <2>2, <2>3 DEF TypeOK
<1>2. HasToken /\ OneToken
  BY DEF HasToken, OneToken, OneCreator, CreatorAlone, FileEmpty, FileHolds, Creating
<1>3. PortHeld /\ FromPair
  BY DEF PortHeld, FromPair
<1>. QED  BY <1>1, <1>2, <1>3 DEF IInv

\* Every step keeps the types.
LEMMA TypesKept == ASSUME IInv, [Next]_vars PROVE TypeOK'
<1>. USE ProcsSplit, PairingAssumption DEF IInv, TypeOK
<1>1. ASSUME NEW p \in Procs, LoadToken(p)  PROVE TypeOK'
  <2>1. <<p, crashes>> \in Tokens  BY DEF Tokens
  <2>. QED  BY <1>1, <2>1 DEF LoadToken, pageVars
<1>2. ASSUME NEW p \in Procs, TruncateToken(p)  PROVE TypeOK'
  BY <1>2 DEF TruncateToken, pageVars
<1>3. ASSUME NEW p \in Procs, WriteToken(p)  PROVE TypeOK'
  BY <1>3 DEF WriteToken, pageVars
<1>4. ASSUME NEW p \in Procs, Die(p)  PROVE TypeOK'
  BY <1>4 DEF Die, pageVars
<1>5. ASSUME NEW d \in Daemons, ListenTcp(d)  PROVE TypeOK'
  BY <1>5 DEF ListenTcp, pageVars
<1>6. ASSUME NEW t \in Shown \cup {token, Typo}, Open(t) \/ Enter(t)  PROVE TypeOK'
  <2>1. Shown \subseteq Tokens  BY DEF Shown, HasToken
  <2>2. t \in Tokens \cup {Typo}  BY <1>6, <2>1 DEF Open, Enter
  <2>. QED  BY <1>6, <2>2 DEF Open, Enter, procVars
<1>7. CASE Forget
  BY <1>7 DEF Forget, procVars
<1>8. ASSUME NEW t \in checks, CheckReply(t)  PROVE TypeOK'
  BY <1>8 DEF CheckReply, procVars
<1>9. CASE UNCHANGED vars
  BY <1>9 DEF vars, procVars, pageVars
<1>. QED
  BY <1>1, <1>2, <1>3, <1>4, <1>5, <1>6, <1>7, <1>8, <1>9 DEF Next

\* A process that has started keeps a token.
LEMMA TokensKept == ASSUME IInv, [Next]_vars PROVE HasToken'
<1>. USE ProcsSplit, PairingAssumption DEF IInv, TypeOK, HasToken
<1>1. ASSUME NEW p \in Procs, LoadToken(p)  PROVE HasToken'
  <2>1. <<p, crashes>> \in Tokens  BY DEF Tokens
  <2>. QED  BY <1>1, <2>1 DEF LoadToken
<1>2. ASSUME NEW p \in Procs, TruncateToken(p) \/ WriteToken(p)  PROVE HasToken'
  BY <1>2 DEF TruncateToken, WriteToken
<1>3. ASSUME NEW p \in Procs, Die(p)  PROVE HasToken'
  BY <1>3 DEF Die
<1>4. CASE UNCHANGED <<phase, mem>>
  BY <1>4
<1>. QED
  BY <1>1, <1>2, <1>3, <1>4 DEF Next, ListenTcp, Open, Enter, Forget, CheckReply, vars,
     procVars, pageVars

\* Creation stays exclusive as long as nobody looks for a token during it.
LEMMA OneTokenKept == ASSUME IInv, [Next]_vars PROVE OneToken'
<1>. DEFINE Parts == OneCreator /\ CreatorAlone /\ FileEmpty /\ FileHolds
<1>. USE ProcsSplit DEF IInv, TypeOK
<1>1. ASSUME NEW p \in Procs, LoadToken(p)  PROVE OneToken'
  <2>. SUFFICES ASSUME ~contended' PROVE Parts'
    BY DEF OneToken
  <2>1. Parts /\ (tokenFile = NoToken => \A q \in Procs : ~Creating(q))
    BY <1>1 DEF LoadToken, OneToken
  <2>2. CASE tokenFile = NoToken
    <3>1. \A q \in Procs : phase[q] = "off"
      BY <2>1, <2>2, TokensExist DEF FileHolds, HasToken, Creating
    <3>2. phase' = [phase EXCEPT ![p] = "truncate"] /\ tokenFile' = NoToken
      BY <1>1, <2>2 DEF LoadToken
    <3>. QED
      BY <3>1, <3>2 DEF OneCreator, CreatorAlone, FileEmpty, FileHolds, Creating
  <2>3. CASE tokenFile # NoToken
    <3>1. \A q \in Procs : ~Creating(q)
      BY <2>1, <2>3 DEF FileEmpty
    <3>2. /\ phase' = [phase EXCEPT ![p] = "loaded"]
          /\ mem' = [mem EXCEPT ![p] = tokenFile]
          /\ tokenFile' = tokenFile
      BY <1>1, <2>3 DEF LoadToken
    <3>. QED
      BY <2>1, <3>1, <3>2 DEF OneCreator, CreatorAlone, FileEmpty, FileHolds, Creating
  <2>. QED  BY <2>2, <2>3
<1>2. ASSUME NEW p \in Procs, TruncateToken(p)  PROVE OneToken'
  BY <1>2 DEF TruncateToken, OneToken, OneCreator, CreatorAlone, FileEmpty, FileHolds, Creating
<1>3. ASSUME NEW p \in Procs, WriteToken(p)  PROVE OneToken'
  BY <1>3 DEF WriteToken, OneToken, OneCreator, CreatorAlone, FileEmpty, FileHolds, Creating
<1>4. ASSUME NEW p \in Procs, Die(p)  PROVE OneToken'
  BY <1>4 DEF Die, OneToken, OneCreator, CreatorAlone, FileEmpty, FileHolds, Creating
<1>5. CASE UNCHANGED <<phase, mem, tokenFile, contended>>
  BY <1>5 DEF OneToken, OneCreator, CreatorAlone, FileEmpty, FileHolds, Creating
<1>. QED
  BY <1>1, <1>2, <1>3, <1>4, <1>5 DEF Next, ListenTcp, Open, Enter, Forget, CheckReply, vars,
     procVars, pageVars

\* The port stays with a daemon that has its token, until that daemon dies.
LEMMA PortKept == ASSUME IInv, [Next]_vars PROVE PortHeld'
<1>. USE ProcsSplit DEF IInv, TypeOK, PortHeld
<1>1. ASSUME NEW p \in Procs, LoadToken(p) \/ TruncateToken(p) \/ WriteToken(p)
      PROVE PortHeld'
  BY <1>1 DEF LoadToken, TruncateToken, WriteToken
<1>2. ASSUME NEW p \in Procs, Die(p)  PROVE PortHeld'
  BY <1>2 DEF Die
<1>3. ASSUME NEW d \in Daemons, ListenTcp(d)  PROVE PortHeld'
  BY <1>3 DEF ListenTcp
<1>4. CASE UNCHANGED <<phase, listening>>
  BY <1>4
<1>. QED
  BY <1>1, <1>2, <1>3, <1>4 DEF Next, Open, Enter, Forget, CheckReply, vars, procVars, pageVars

\* The page gets its tokens from pair.
LEMMA FromPairKept == ASSUME IInv, [Next]_vars PROVE FromPair'
<1>1. Shown \subseteq Shown'
  BY ShownStays
<1>2. (contended => contended') /\ (mistyped => mistyped')
  <2>1. ASSUME NEW p, LoadToken(p)  PROVE (contended => contended') /\ mistyped' = mistyped
    BY <2>1 DEF LoadToken, pageVars
  <2>2. ASSUME NEW t, Enter(t)  PROVE contended' = contended /\ (mistyped => mistyped')
    BY <2>2 DEF Enter, procVars
  <2>3. CASE UNCHANGED <<contended, mistyped>>
    BY <2>3
  <2>. QED
    BY <2>1, <2>2, <2>3 DEF Next, TruncateToken, WriteToken, Die, ListenTcp, Open, Forget,
       CheckReply, vars, procVars, pageVars
<1>. SUFFICES ASSUME ~contended, ~mistyped, ~mistyped'
              PROVE token' \in Shown \cup {NoToken} /\ checks' \subseteq Shown
  BY <1>1, <1>2 DEF FromPair
<1>3. token \in Shown \cup {NoToken} /\ checks \subseteq Shown
  BY DEF IInv, FromPair
<1>4. ASSUME NEW t, Open(t)  PROVE token' \in Shown \cup {NoToken} /\ checks' \subseteq Shown
  BY <1>3, <1>4 DEF Open
<1>5. ASSUME NEW t, Enter(t)  PROVE token' \in Shown \cup {NoToken} /\ checks' \subseteq Shown
  BY <1>3, <1>5 DEF Enter
<1>6. ASSUME NEW t, CheckReply(t)
      PROVE token' \in Shown \cup {NoToken} /\ checks' \subseteq Shown
  BY <1>3, <1>6 DEF CheckReply
<1>7. CASE Forget
  BY <1>3, <1>7 DEF Forget
<1>8. CASE UNCHANGED pageVars
  BY <1>3, <1>8 DEF pageVars
<1>. QED
  BY <1>4, <1>5, <1>6, <1>7, <1>8 DEF Next, LoadToken, TruncateToken, WriteToken, Die,
     ListenTcp, vars

\* The inductive invariant: unless the file was contended, one token is created by one
\* process and everybody's copy, the page's included, is that one.
THEOREM TokenInvariant == Spec => []IInv
<1>1. IInv /\ [Next]_vars => IInv'
  BY TypesKept, TokensKept, OneTokenKept, PortKept, FromPairKept DEF IInv
<1>. QED  BY Initially, <1>1, PTL DEF Spec

\* The variables of pairing keep their types.
THEOREM PairingTypes == Spec => []TypeOK
<1>1. IInv => TypeOK  BY DEF IInv
<1>. QED  BY TokenInvariant, <1>1, PTL

\* A restart does not unpair: load_or_create hands every daemon the token that every
\* run of pair has shown, unless two processes created one at the same time.
THEOREM DevicesStayPaired == Spec => []PairedStayPaired
<1>1. IInv => PairedStayPaired
  BY ProcsSplit DEF IInv, OneToken, FileHolds, PairedStayPaired, Accepts
<1>. QED  BY TokenInvariant, <1>1, PTL

\* The page's 401 handling does not lose a good token.
THEOREM OnlyForgetForgets == Spec => PageKeepsToken
<1>1. IInv /\ [Next]_vars
        => [token # NoToken /\ token' = NoToken /\ ~contended /\ ~mistyped => Forget]_vars
  <2>. SUFFICES ASSUME IInv, Next, token # NoToken, token' = NoToken, ~contended, ~mistyped
                PROVE Forget
    OBVIOUS
  <2>1. checks \subseteq Shown /\ FileHolds
    BY DEF IInv, FromPair, OneToken
  <2>2. ASSUME NEW t, CheckReply(t)  PROVE FALSE
    <3>1. PICK d \in listening : ~Accepts(d, t)
      BY <2>2 DEF CheckReply
    <3>2. PICK p \in Pairers : phase[p] = "loaded" /\ t = mem[p]
      BY <2>1, <2>2 DEF CheckReply, Shown
    <3>3. d \in Procs /\ p \in Procs /\ phase[d] = "loaded"
      BY <3>1, <3>2, ProcsSplit DEF IInv, TypeOK, PortHeld
    <3>. QED  BY <2>1, <3>1, <3>2, <3>3 DEF FileHolds, Accepts
  <2>3. ASSUME NEW t, Open(t)  PROVE FALSE
    <3>1. NoToken \notin Shown
      BY ProcsSplit, TokensExist DEF IInv, HasToken, Shown
    <3>. QED  BY <2>3, <3>1 DEF Open
  <2>. QED
    BY <2>2, <2>3 DEF Next, LoadToken, TruncateToken, WriteToken, Die, ListenTcp, Enter,
       pageVars
<1>. QED  BY TokenInvariant, <1>1, PTL DEF Spec, PageKeepsToken

=============================================================================
