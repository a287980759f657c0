------------------------ MODULE SessionClientsProof ------------------------
(***************************************************************************)
(* Proofs about SessionLeases, for every set of processes, sessions and    *)
(* owners and every LeaseTTL > MaxDelay; and, after them, about            *)
(* SessionClients: what a client may rely on, whatever processes,          *)
(* sessions, apps and clients there are; and what running work may rely on *)
(* where one process serves everybody.                                     *)
(***************************************************************************)
EXTENDS SessionClients, TLAPS

-----------------------------------------------------------------------------
(* Rows. *)

LEMMA RowFacts ==
    ASSUME NEW Who, NEW w \in Who
    PROVE  /\ Fresh(w) \in Row(Who)
           /\ NoRow \in Row(Who)
           /\ \A r \in Row(Who) : OneTickOlder(r) \in Row(Who)
  BY TimeAssumption DEF Fresh, Row, NoRow, OneTickOlder

LEMMA NoRowTyped == ASSUME NEW Who PROVE NoRow \in Row(Who)
  BY DEF Row

LEMMA OlderTyped ==
    ASSUME NEW Who, NEW r \in Row(Who)
    PROVE  OneTickOlder(r) \in Row(Who)
  BY TimeAssumption DEF Row, NoRow, OneTickOlder

LEMMA WithoutTyped ==
    ASSUME NEW Who, NEW table \in [Session -> Row(Who)],
           NEW s \in Session, NEW w
    PROVE  Without(table, s, w) \in [Session -> Row(Who)]
  BY NoRowTyped DEF Without

LEMMA OrphanedTyped ==
    ASSUME NEW table \in [Session -> Row(Proc \cup {Gone})],
           NEW p \in Proc
    PROVE  Orphaned(table, p) \in [Session -> Row(Proc \cup {Gone})]
  <1> SUFFICES ASSUME NEW s \in Session
               PROVE  (IF table[s].who = p THEN [table[s] EXCEPT !.who = Gone]
                                           ELSE table[s]) \in Row(Proc \cup {Gone})
    BY DEF Orphaned
  <1>1. CASE table[s] = NoRow
    BY <1>1, NamesAssumption DEF NoRow, Row
  <1>2. CASE table[s] # NoRow
    BY <1>2 DEF Row, NoRow
  <1> QED BY <1>1, <1>2

-----------------------------------------------------------------------------
(* Type correctness. *)

LEMMA InitTyped == Init => TypeOK
  BY NoRowTyped, TimeAssumption DEF Init, TypeOK, Pin, Call

\* What acquire writes.
LEMMA AcquireEffectTyped ==
    ASSUME TypeOK, NEW p \in Proc, NEW s \in Session, NEW o \in Owner,
           AcquireEffect(p, s, o)
    PROVE  /\ leases' \in [Session -> Row(Owner)]
           /\ held' \in [Proc -> [Session -> Owner \cup {None}]]
           /\ deferred' \in [Proc -> SUBSET Session]
  <1>1. Fresh(o) \in Row(Owner)
    BY RowFacts
  <1> QED BY <1>1 DEF AcquireEffect, TypeOK

\* What release writes.
LEMMA ReleaseEffectTyped ==
    ASSUME TypeOK, NEW p \in Proc, NEW s \in Session, NEW o \in Owner,
           ReleaseEffect(p, s, o)
    PROVE  /\ leases' \in [Session -> Row(Owner)]
           /\ held' \in [Proc -> [Session -> Owner \cup {None}]]
  BY WithoutTyped DEF ReleaseEffect, TypeOK

\* The pins of a process when one of them changes.
LEMMA PinFacts ==
    ASSUME NEW pin \in Pin
    PROVE  /\ pin.owner \in Owner \cup {None}
           /\ pin.createdBy \in Owner \cup {None}
           /\ pin.count \in 0..MaxHolds
           /\ pin.owner # None => \A o \in Owner : [pin EXCEPT !.owner = o] \in Pin
           /\ pin.owner # None => \A n \in 1..MaxHolds : [pin EXCEPT !.count = n] \in Pin
  <1>1. CASE pin = NoPin
    BY <1>1, TimeAssumption DEF NoPin
  <1>2. CASE pin \in [owner : Owner, count : 1..MaxHolds, createdBy : Owner \cup {None}]
    BY <1>2, TimeAssumption DEF Pin
  <1> QED BY <1>1, <1>2 DEF Pin

LEMMA PinnedTyped ==
    ASSUME TypeOK, NEW p \in Proc, NEW s \in Session, NEW pin \in Pin
    PROVE  [pinned EXCEPT ![p][s] = pin] \in [Proc -> [Session -> Pin]]
  BY DEF TypeOK

LEMMA RequestTyped ==
    ASSUME TypeOK, NEW p \in Proc, NEW s \in Session, NEW o \in Owner,
           ClientRequest(p, s, o)
    PROVE  TypeOK'
  <1>1. CASE Acquire(p, s, o)
    BY <1>1, AcquireEffectTyped DEF Acquire, TypeOK
  <1>2. CASE Takeover(p, s, o)
    <2>1. Fresh(o) \in Row(Owner)
      BY RowFacts
    <2>2. pinned' \in [Proc -> [Session -> Pin]]
      <3>1. CASE Pinned(p, s)
        <4>1. [pinned[p][s] EXCEPT !.owner = o] \in Pin
          BY <3>1, PinFacts DEF TypeOK, Pinned
        <4> QED BY <1>2, <3>1, <4>1 DEF Takeover, TypeOK
      <3>2. CASE ~Pinned(p, s)
        BY <1>2, <3>2 DEF Takeover, TypeOK
      <3> QED BY <3>1, <3>2
    <2> QED BY <1>2, <2>1, <2>2 DEF Takeover, TypeOK
  <1>3. CASE Release(p, s, o)
    <2>1. CASE pinned[p][s].owner = o
      <3>1. deferred[p] \cup {s} \in SUBSET Session
        BY DEF TypeOK
      <3> QED BY <1>3, <2>1, <3>1 DEF Release, TypeOK
    <2>2. CASE pinned[p][s].owner # o
      <3>1. ReleaseEffect(p, s, o)
        BY <1>3, <2>2 DEF Release
      <3> QED BY <1>3, <2>2, <3>1, ReleaseEffectTyped DEF Release, TypeOK
    <2> QED BY <2>1, <2>2
  <1> QED BY <1>1, <1>2, <1>3 DEF ClientRequest

\* A call that moves on to its next statement keeps its shape.
LEMMA CallFacts ==
    ASSUME NEW c \in Call
    PROVE  /\ c.at \in {"claim", "acquire", "unclaim"} =>
                /\ c.session \in Session
                /\ c.owner \in Owner
                /\ c.createdBy \in Owner \cup {None}
                /\ \A a \in {"claim", "acquire", "unclaim"} :
                      [c EXCEPT !.at = a] \in Call
           /\ c.at \in {"renewClaim", "endRun", "endCreated", "endDeferred"} =>
                /\ c.session \in Session
                /\ c.owner \in Owner \cup {None}
                /\ c.createdBy \in Owner \cup {None}
                /\ \A a \in {"endRun", "endCreated", "endDeferred"} :
                      [c EXCEPT !.at = a] \in Call
  <1> DEFINE Hold == [at : {"claim", "acquire", "unclaim"}, session : Session,
                      owner : Owner, createdBy : Owner \cup {None}]
             Rest == [at : {"renewClaim", "endRun", "endCreated", "endDeferred"},
                      session : Session, owner : Owner \cup {None},
                      createdBy : Owner \cup {None}]
  <1>1. CASE c = Idle
    BY <1>1 DEF Idle
  <1>2. CASE c = [Idle EXCEPT !.at = "closing"]
    BY <1>2 DEF Idle
  <1>3. CASE c \in Hold
    <2>1. \A a \in {"claim", "acquire", "unclaim"} : [c EXCEPT !.at = a] \in Hold
      BY <1>3
    <2> QED BY <1>3, <2>1 DEF Call
  <1>4. CASE c \in Rest
    <2>1. \A a \in {"endRun", "endCreated", "endDeferred"} : [c EXCEPT !.at = a] \in Rest
      BY <1>4
    <2> QED BY <1>4, <2>1 DEF Call
  <1> QED BY <1>1, <1>2, <1>3, <1>4 DEF Call

LEMMA IdleTyped == Idle \in Call /\ [Idle EXCEPT !.at = "closing"] \in Call
  BY DEF Call

LEMMA HoldTyped ==
    ASSUME TypeOK, NEW p \in Proc, NEW s \in Session, NEW o \in Owner,
           WorkStarts(p, s, o)
    PROVE  TypeOK'
  <1>1. CASE JoinHold(p, s, o)
    <2>1. /\ pinned[p][s] \in Pin
          /\ pinned[p][s].owner # None
      BY <1>1, NamesAssumption DEF JoinHold, TypeOK
    <2>2. pinned[p][s].count + 1 \in 1..MaxHolds
      BY <1>1, <2>1, PinFacts, TimeAssumption DEF JoinHold
    <2>3. [pinned[p][s] EXCEPT !.count = pinned[p][s].count + 1] \in Pin
      BY <2>1, <2>2, PinFacts
    <2> QED BY <1>1, <2>3 DEF JoinHold, tables, TypeOK
  <1>2. CASE BeginHold(p, s, o)
    <2>1. [at |-> "claim", session |-> s, owner |-> o,
           createdBy |-> IF leases[s].who = o THEN None ELSE o] \in Call
      BY DEF Call
    <2> QED BY <1>2, <2>1 DEF BeginHold, tables, memory, TypeOK
  <1> QED BY <1>1, <1>2 DEF WorkStarts

LEMMA RenewTyped ==
    ASSUME TypeOK, NEW p \in Proc, NEW s \in Session, RenewLease(p, s)
    PROVE  TypeOK'
  <1> DEFINE o == pinned[p][s].owner
  <1>1. o \in Owner
    BY PinFacts DEF TypeOK, RenewLease, Pinned
  <1>2. [at |-> "renewClaim", session |-> s, owner |-> o, createdBy |-> None] \in Call
    BY <1>1 DEF Call
  <1>3. /\ leases' \in [Session -> Row(Owner)]
        /\ held' \in [Proc -> [Session -> Owner \cup {None}]]
        /\ deferred' \in [Proc -> SUBSET Session]
    <2>1. CASE MayTake(leases[s], o)
      <3>1. AcquireEffect(p, s, o)
        BY <2>1 DEF RenewLease
      <3> QED BY <1>1, <3>1, AcquireEffectTyped
    <2>2. CASE ~MayTake(leases[s], o)
      BY <2>2 DEF RenewLease, TypeOK
    <2> QED BY <2>1, <2>2
  <1>4. call' \in [Proc -> Call]
    BY <1>2 DEF RenewLease, TypeOK
  <1> QED BY <1>3, <1>4 DEF RenewLease, TypeOK

LEMMA EndTyped ==
    ASSUME TypeOK, NEW p \in Proc, NEW s \in Session, WorkEnds(p, s)
    PROVE  TypeOK'
  <1>0. pinned[p][s] \in Pin
    BY DEF TypeOK
  <1>1. CASE EndInnerHold(p, s)
    <2>1. pinned[p][s].owner # None
      BY <1>0, <1>1, NamesAssumption DEF EndInnerHold, Pin, NoPin
    <2>2. pinned[p][s].count - 1 \in 1..MaxHolds
      BY <1>0, <1>1, PinFacts, TimeAssumption DEF EndInnerHold
    <2>3. [pinned[p][s] EXCEPT !.count = pinned[p][s].count - 1] \in Pin
      BY <1>0, <2>1, <2>2, PinFacts
    <2> QED BY <1>1, <2>3 DEF EndInnerHold, tables, TypeOK
  <1>2. CASE EndHold(p, s)
    <2>1. NoPin \in Pin
      BY DEF Pin
    <2>2. [at |-> "endRun", session |-> s,
           owner |-> IF s \in deferred[p] THEN pinned[p][s].owner ELSE None,
           createdBy |-> pinned[p][s].createdBy] \in Call
      BY <1>0, PinFacts DEF Call
    <2>3. deferred[p] \ {s} \in SUBSET Session
      BY DEF TypeOK
    <2> QED BY <1>2, <2>1, <2>2, <2>3 DEF EndHold, tables, TypeOK
  <1> QED BY <1>1, <1>2 DEF WorkEnds

LEMMA VanishTyped ==
    ASSUME TypeOK, NEW p \in Proc, Vanish(p)
    PROVE  TypeOK'
  <1>1. NoPin \in Pin
    BY DEF Pin
  <1>2. runs' \in [Session -> Row(Proc \cup {Gone})]
    BY OrphanedTyped DEF Vanish, TypeOK
  <1>3. 0 \in 0..MaxDelay
    BY TimeAssumption
  <1>4. deferred' \in [Proc -> SUBSET Session]
    <2>1. {} \in SUBSET Session
      OBVIOUS
    <2> QED BY <2>1 DEF Vanish, TypeOK
  <1> QED BY <1>1, <1>2, <1>3, <1>4, IdleTyped DEF Vanish, TypeOK

LEMMA CallStepTyped ==
    ASSUME TypeOK, NEW p \in Proc, CallStep(p)
    PROVE  TypeOK'
  <1> DEFINE c == call[p]
  <1>0. c \in Call
    BY DEF TypeOK
  <1>1. CASE HoldClaimRun(p)
    <2>1. c.session \in Session /\ [c EXCEPT !.at = "acquire"] \in Call
      BY <1>0, <1>1, CallFacts DEF HoldClaimRun
    <2>2. Fresh(p) \in Row(Proc \cup {Gone})
      BY RowFacts
    <2>3. 0 \in 0..MaxDelay
      BY TimeAssumption
    <2>4. CASE MayTake(runs[c.session], p)
      <3>1. /\ runs' = [runs EXCEPT ![c.session] = Fresh(p)]
            /\ call' = [call EXCEPT ![p] = [c EXCEPT !.at = "acquire"]]
            /\ age' = [age EXCEPT ![p][c.session] = 0]
        BY <1>1, <2>4 DEF HoldClaimRun
      <3> HIDE DEF c
      <3> QED BY <1>1, <2>1, <2>2, <2>3, <3>1 DEF HoldClaimRun, memory, TypeOK
    <2>5. CASE ~MayTake(runs[c.session], p)
      BY <1>1, <2>5, IdleTyped DEF HoldClaimRun, memory, TypeOK
    <2> QED BY <2>4, <2>5
  <1>2. CASE HoldAcquire(p)
    <2>1. /\ c.session \in Session
          /\ c.owner \in Owner
          /\ c.createdBy \in Owner \cup {None}
          /\ [c EXCEPT !.at = "unclaim"] \in Call
      BY <1>0, <1>2, CallFacts DEF HoldAcquire
    <2>2. CASE MayTake(leases[c.session], c.owner)
      <3>1. AcquireEffect(p, c.session, c.owner)
        BY <1>2, <2>2 DEF HoldAcquire
      <3>2. [owner |-> c.owner, count |-> 1, createdBy |-> c.createdBy] \in Pin
        BY <2>1, TimeAssumption DEF Pin
      <3>3. /\ call' = [call EXCEPT ![p] = Idle]
            /\ pinned' = [pinned EXCEPT ![p][c.session] =
                  [owner |-> c.owner, count |-> 1, createdBy |-> c.createdBy]]
        BY <1>2, <2>2 DEF HoldAcquire
      <3> HIDE DEF c
      <3> QED BY <1>2, <2>1, <3>1, <3>2, <3>3, AcquireEffectTyped, IdleTyped
              DEF HoldAcquire, TypeOK
    <2>3. CASE ~MayTake(leases[c.session], c.owner)
      BY <1>2, <2>1, <2>3 DEF HoldAcquire, memory, TypeOK
    <2> QED BY <2>2, <2>3
  <1>3. CASE HoldUnclaim(p)
    <2>1. c.session \in Session
      BY <1>0, <1>3, CallFacts DEF HoldUnclaim
    <2> QED BY <1>3, <2>1, WithoutTyped, IdleTyped DEF HoldUnclaim, memory, TypeOK
  <1>4. CASE RenewClaim(p)
    <2>1. c.session \in Session
      BY <1>0, <1>4, CallFacts DEF RenewClaim
    <2>2. Fresh(p) \in Row(Proc \cup {Gone})
      BY RowFacts
    <2>3. 0 \in 0..MaxDelay
      BY TimeAssumption
    <2>4. CASE MayTake(runs[c.session], p)
      <3>1. /\ runs' = [runs EXCEPT ![c.session] = Fresh(p)]
            /\ age' = [age EXCEPT ![p][c.session] = 0]
        BY <1>4, <2>4 DEF RenewClaim
      <3> HIDE DEF c
      <3> QED BY <1>4, <2>1, <2>2, <2>3, <3>1, IdleTyped
              DEF RenewClaim, memory, TypeOK
    <2>5. CASE ~MayTake(runs[c.session], p)
      BY <1>4, <2>5, IdleTyped DEF RenewClaim, memory, TypeOK
    <2> QED BY <2>4, <2>5
  <1>5. CASE EndReleaseRun(p)
    <2>1. c.session \in Session /\ [c EXCEPT !.at = "endCreated"] \in Call
      BY <1>0, <1>5, CallFacts DEF EndReleaseRun
    <2> QED BY <1>5, <2>1, WithoutTyped DEF EndReleaseRun, memory, TypeOK
  <1>6. CASE EndReleaseCreated(p)
    <2>1. /\ c.session \in Session
          /\ c.createdBy \in Owner \cup {None}
          /\ [c EXCEPT !.at = "endDeferred"] \in Call
      BY <1>0, <1>6, CallFacts DEF EndReleaseCreated
    <2>2. CASE c.createdBy # None
      <3>1. ReleaseEffect(p, c.session, c.createdBy)
        BY <1>6, <2>2 DEF EndReleaseCreated
      <3> QED BY <1>6, <2>1, <2>2, <3>1, ReleaseEffectTyped
              DEF EndReleaseCreated, TypeOK
    <2>3. CASE c.createdBy = None
      BY <1>6, <2>1, <2>3 DEF EndReleaseCreated, TypeOK
    <2> QED BY <2>2, <2>3
  <1>7. CASE EndReleaseDeferred(p)
    <2>1. c.session \in Session /\ c.owner \in Owner \cup {None}
      BY <1>0, <1>7, CallFacts DEF EndReleaseDeferred
    <2>2. CASE c.owner # None
      <3>1. ReleaseEffect(p, c.session, c.owner)
        BY <1>7, <2>2 DEF EndReleaseDeferred
      <3> QED BY <1>7, <2>1, <2>2, <3>1, ReleaseEffectTyped, IdleTyped
              DEF EndReleaseDeferred, TypeOK
    <2>3. CASE c.owner = None
      BY <1>7, <2>1, <2>3, IdleTyped DEF EndReleaseDeferred, TypeOK
    <2> QED BY <2>2, <2>3
  <1>8. CASE CloseDone(p)
    BY <1>8, VanishTyped DEF CloseDone
  <1>9. CASE \E s \in Session : CloseRelease(p, s)
    <2> PICK s \in Session : CloseRelease(p, s)
      BY <1>9
    <2>1. held[p][s] \in Owner /\ ReleaseEffect(p, s, held[p][s])
      BY DEF CloseRelease, TypeOK
    <2> QED BY <2>1, ReleaseEffectTyped DEF CloseRelease, TypeOK
  <1> QED BY <1>1, <1>2, <1>3, <1>4, <1>5, <1>6, <1>7, <1>8, <1>9 DEF CallStep

LEMMA ProcessTyped ==
    ASSUME TypeOK, NEW p \in Proc, Close(p) \/ Crash(p) \/ Restart(p)
    PROVE  TypeOK'
  <1>1. CASE Close(p)
    <2>1. NoPin \in Pin
      BY DEF Pin
    <2> QED BY <1>1, <2>1, IdleTyped DEF Close, tables, TypeOK
  <1>2. CASE Crash(p)
    BY <1>2, VanishTyped DEF Crash
  <1>3. CASE Restart(p)
    BY <1>3 DEF Restart, tables, memory, TypeOK
  <1> QED BY <1>1, <1>2, <1>3

LEMMA TickTyped == ASSUME TypeOK, Tick PROVE TypeOK'
  <1>1. /\ leases' \in [Session -> Row(Owner)]
        /\ runs' \in [Session -> Row(Proc \cup {Gone})]
    BY OlderTyped DEF Tick, TypeOK
  <1>2. age' \in [Proc -> [Session -> 0..MaxDelay]]
    <2> SUFFICES ASSUME NEW p \in Proc, NEW s \in Session
                 PROVE  (IF Claiming(p, s) THEN age[p][s] + 1 ELSE 0) \in 0..MaxDelay
      BY DEF Tick
    <2>1. age[p][s] \in 0..MaxDelay /\ (Claiming(p, s) => age[p][s] < MaxDelay)
      BY DEF Tick, TypeOK
    <2> QED BY <2>1, TimeAssumption
  <1> QED BY <1>1, <1>2 DEF Tick, memory, TypeOK

LEMMA NextTyped == TypeOK /\ [Next]_vars => TypeOK'
  <1> SUFFICES ASSUME TypeOK, [Next]_vars PROVE TypeOK'
    OBVIOUS
  <1>1. CASE \E p \in Proc, s \in Session, o \in Owner :
                ClientRequest(p, s, o) \/ WorkStarts(p, s, o)
    BY <1>1, RequestTyped, HoldTyped
  <1>2. CASE \E p \in Proc, s \in Session : RenewLease(p, s) \/ WorkEnds(p, s)
    BY <1>2, RenewTyped, EndTyped
  <1>3. CASE \E p \in Proc : CallStep(p) \/ Close(p) \/ Crash(p) \/ Restart(p)
    BY <1>3, CallStepTyped, ProcessTyped
  <1>4. CASE Tick
    BY <1>4, TickTyped
  <1>5. CASE UNCHANGED vars
    BY <1>5 DEF vars, TypeOK
  <1> QED BY <1>1, <1>2, <1>3, <1>4, <1>5 DEF Next

\* Every reachable state has the shape TypeOK describes.
THEOREM TypeCorrect == Spec => []TypeOK
  BY InitTyped, NextTyped, PTL DEF Spec

-----------------------------------------------------------------------------
(* Exclusion.  OneRunner alone is not inductive: a second process is kept  *)
(* out by the first one's row in `runs`, so the invariant says that a      *)
(* process that answers for a claim still has its row, and that the row    *)
(* has lost no more ticks than have passed since the process claimed it.   *)

ClaimKept ==
    \A p \in Proc, s \in Session :
        Claiming(p, s) =>
            /\ runs[s].who = p
            /\ runs[s].left + age[p][s] >= LeaseTTL

\* A call that begins or ends a hold of a session runs while it is not
\* pinned, so its claim is not the claim of other work.
HoldCallUnpinned ==
    \A p \in Proc :
        call[p].at \in {"claim", "acquire", "unclaim", "endRun"}
            => ~Pinned(p, call[p].session)

RunInv == TypeOK /\ ClaimKept /\ HoldCallUnpinned

LEMMA InitRunInv == Init => RunInv
  <1> SUFFICES ASSUME Init PROVE RunInv
    OBVIOUS
  <1>1. TypeOK
    BY InitTyped
  <1>2. \A p \in Proc : call[p] = Idle /\ \A s \in Session : ~Pinned(p, s)
    BY DEF Init, Pinned, NoPin
  <1> QED BY <1>1, <1>2 DEF RunInv, ClaimKept, HoldCallUnpinned, Claiming, Idle

LEMMA HoldCallSession ==
    ASSUME TypeOK, NEW p \in Proc,
           call[p].at \in {"claim", "acquire", "unclaim", "endRun"}
    PROVE  call[p].session \in Session
  BY CallFacts DEF TypeOK

\* A step that changes no claim, no clock, no pin and no call keeps RunInv.
LEMMA QuietStep ==
    ASSUME RunInv, TypeOK', UNCHANGED <<runs, age, call>>,
           \A p \in Proc, s \in Session : Pinned(p, s)' => Pinned(p, s)
    PROVE  RunInv'
  <1>1. ClaimKept'
    BY DEF RunInv, ClaimKept, Claiming
  <1>2. HoldCallUnpinned'
    BY HoldCallSession DEF RunInv, HoldCallUnpinned
  <1> QED BY <1>1, <1>2 DEF RunInv

LEMMA RequestKeeps ==
    ASSUME RunInv, NEW p \in Proc, NEW s \in Session, NEW o \in Owner,
           ClientRequest(p, s, o)
    PROVE  RunInv'
  <1>1. TypeOK'
    BY RequestTyped DEF RunInv
  <1>2. UNCHANGED <<runs, age, call>>
    BY DEF ClientRequest, Acquire, Takeover, Release
  <1>3. \A q \in Proc, t \in Session : Pinned(q, t)' => Pinned(q, t)
    <2>1. CASE Acquire(p, s, o) \/ Release(p, s, o)
      BY <2>1 DEF Acquire, Release, Pinned
    <2>2. CASE Takeover(p, s, o)
      BY <2>2 DEF Takeover, Pinned, RunInv, TypeOK
    <2> QED BY <2>1, <2>2 DEF ClientRequest
  <1> QED BY <1>1, <1>2, <1>3, QuietStep

LEMMA StartKeeps ==
    ASSUME RunInv, NEW p \in Proc, NEW s \in Session, NEW o \in Owner,
           WorkStarts(p, s, o)
    PROVE  RunInv'
  <1>1. TypeOK'
    BY HoldTyped DEF RunInv
  <1>2. CASE JoinHold(p, s, o)
    <2>1. UNCHANGED <<runs, age, call>>
      BY <1>2 DEF JoinHold, tables
    <2>2. \A q \in Proc, t \in Session : Pinned(q, t)' => Pinned(q, t)
      BY <1>2 DEF JoinHold, Pinned, RunInv, TypeOK
    <2> QED BY <1>1, <2>1, <2>2, QuietStep
  <1>3. CASE BeginHold(p, s, o)
    <2>1. /\ UNCHANGED <<runs, age, pinned>>
          /\ ~Pinned(p, s)
      BY <1>3 DEF BeginHold, tables, memory
    <2>2. /\ \A q \in Proc \ {p} : call'[q] = call[q]
          /\ call'[p].at = "claim"
          /\ call'[p].session = s
      BY <1>3 DEF BeginHold, RunInv, TypeOK
    <2> QED BY <1>1, <2>1, <2>2
            DEF RunInv, ClaimKept, HoldCallUnpinned, Claiming, Pinned
  <1> QED BY <1>2, <1>3 DEF WorkStarts

LEMMA RenewKeeps ==
    ASSUME RunInv, NEW p \in Proc, NEW s \in Session, RenewLease(p, s)
    PROVE  RunInv'
  <1>1. TypeOK'
    BY RenewTyped DEF RunInv
  <1>2. UNCHANGED <<runs, age, pinned>>
    BY DEF RenewLease
  <1>3. /\ \A q \in Proc \ {p} : call'[q] = call[q]
        /\ call'[p].at = "renewClaim"
    BY DEF RenewLease, RunInv, TypeOK
  <1> QED BY <1>1, <1>2, <1>3
          DEF RunInv, ClaimKept, HoldCallUnpinned, Claiming, Pinned

LEMMA EndKeeps ==
    ASSUME RunInv, NEW p \in Proc, NEW s \in Session, WorkEnds(p, s)
    PROVE  RunInv'
  <1>1. TypeOK'
    BY EndTyped DEF RunInv
  <1>2. CASE EndInnerHold(p, s)
    <2>1. UNCHANGED <<runs, age, call>>
      BY <1>2 DEF EndInnerHold, tables
    <2>2. \A q \in Proc, t \in Session : Pinned(q, t)' => Pinned(q, t)
      BY <1>2 DEF EndInnerHold, Pinned, RunInv, TypeOK
    <2> QED BY <1>1, <2>1, <2>2, QuietStep
  <1>3. CASE EndHold(p, s)
    <2>1. UNCHANGED <<runs, age>>
      BY <1>3 DEF EndHold, tables
    <2>2. /\ \A q \in Proc \ {p} : call'[q] = call[q]
          /\ call'[p].at = "endRun"
          /\ call'[p].session = s
      BY <1>3 DEF EndHold, RunInv, TypeOK
    <2>3. /\ ~Pinned(p, s)'
          /\ \A q \in Proc, t \in Session : Pinned(q, t)' => Pinned(q, t)
      BY <1>3 DEF EndHold, Pinned, NoPin, RunInv, TypeOK
    <2>4. ClaimKept'
      BY <2>1, <2>2, <2>3 DEF RunInv, ClaimKept, Claiming
    <2>5. HoldCallUnpinned'
      BY <2>2, <2>3, HoldCallSession DEF RunInv, HoldCallUnpinned
    <2> QED BY <1>1, <2>4, <2>5 DEF RunInv
  <1> QED BY <1>2, <1>3 DEF WorkEnds

\* What a process does to its own claim leaves the claims of others alone.
LEMMA ClaimTaken ==
    ASSUME RunInv, NEW p \in Proc, NEW s \in Session, MayTake(runs[s], p),
           runs' = [runs EXCEPT ![s] = Fresh(p)],
           age' = [age EXCEPT ![p][s] = 0],
           NEW q \in Proc, NEW t \in Session,
           Claiming(q, t) \/ (q = p /\ t = s)
    PROVE  runs'[t].who = q /\ runs'[t].left + age'[q][t] >= LeaseTTL
  <1>1. CASE q = p /\ t = s
    <2>1. runs'[t] = Fresh(p) /\ age'[q][t] = 0
      BY <1>1 DEF RunInv, TypeOK
    <2> QED BY <1>1, <2>1, TimeAssumption DEF Fresh
  <1>2. CASE ~(q = p /\ t = s)
    <2>1. runs[t].who = q /\ runs[t].left + age[q][t] >= LeaseTTL
      BY <1>2 DEF RunInv, ClaimKept
    <2>2. t # s
      BY <1>2, <2>1, NamesAssumption DEF MayTake
    <2>3. runs'[t] = runs[t] /\ age'[q][t] = age[q][t]
      BY <2>2 DEF RunInv, TypeOK
    <2> QED BY <2>1, <2>3
  <1> QED BY <1>1, <1>2

LEMMA ClaimDropped ==
    ASSUME RunInv, NEW p \in Proc, NEW s \in Session,
           runs' = Without(runs, s, p), age' = age,
           NEW q \in Proc, NEW t \in Session, Claiming(q, t), q # p \/ t # s
    PROVE  runs'[t].who = q /\ runs'[t].left + age'[q][t] >= LeaseTTL
  <1>1. runs[t].who = q /\ runs[t].left + age[q][t] >= LeaseTTL
    BY DEF RunInv, ClaimKept
  <1>2. runs'[t] = runs[t]
    BY <1>1 DEF Without, RunInv, TypeOK
  <1> QED BY <1>1, <1>2

\* A process that moves on in its own call does not touch the others' calls.
LEMMA CallMoves ==
    ASSUME RunInv, NEW p \in Proc,
           \A q \in Proc \ {p} :
              /\ call'[q] = call[q]
              /\ \A t \in Session : Pinned(q, t)' => Pinned(q, t),
           call'[p].at \in {"claim", "acquire", "unclaim", "endRun"}
              => ~Pinned(p, call[p].session)'
    PROVE  HoldCallUnpinned'
  <1> SUFFICES ASSUME NEW q \in Proc \ {p},
                      call'[q].at \in {"claim", "acquire", "unclaim", "endRun"}
               PROVE  ~Pinned(q, call[q].session)'
    BY DEF HoldCallUnpinned
  <1>1. call[q].session \in Session /\ ~Pinned(q, call[q].session)
    BY HoldCallSession DEF RunInv, HoldCallUnpinned
  <1> QED BY <1>1 DEF Pinned

\* A process that goes takes its pins and calls with it.
LEMMA VanishKeeps ==
    ASSUME RunInv, NEW p \in Proc, Vanish(p)
    PROVE  RunInv'
  <1>0. TypeOK /\ TypeOK'
    BY VanishTyped DEF RunInv
  <1>1. /\ call'[p] = Idle
        /\ \A q \in Proc \ {p} :
              /\ call'[q] = call[q]
              /\ pinned'[q] = pinned[q]
              /\ age'[q] = age[q]
        /\ \A s \in Session : ~Pinned(p, s)'
    BY <1>0 DEF Vanish, TypeOK, Pinned, NoPin
  <1>2. ASSUME NEW q \in Proc, NEW t \in Session, Claiming(q, t)'
        PROVE  runs'[t].who = q /\ runs'[t].left + age'[q][t] >= LeaseTTL
    <2>1. q # p /\ Claiming(q, t)
      BY <1>1, <1>2 DEF Claiming, Pinned, Idle
    <2>2. runs[t].who = q /\ runs[t].left + age[q][t] >= LeaseTTL
      BY <2>1 DEF RunInv, ClaimKept
    <2>3. runs'[t] = runs[t]
      BY <2>1, <2>2 DEF Vanish, Orphaned
    <2> QED BY <1>1, <2>1, <2>2, <2>3
  <1>3. ClaimKept'
    BY <1>2 DEF ClaimKept
  <1>4. HoldCallUnpinned'
    BY <1>1, CallMoves DEF Pinned, Idle
  <1> QED BY <1>0, <1>3, <1>4 DEF RunInv

LEMMA CallStepKeeps ==
    ASSUME RunInv, NEW p \in Proc, CallStep(p)
    PROVE  RunInv'
  <1> DEFINE c == call[p]
  <1>0. TypeOK /\ TypeOK' /\ c \in Call
    BY CallStepTyped DEF RunInv, TypeOK
  <1>1. CASE HoldClaimRun(p)
    <2>1. /\ c.at = "claim"
          /\ c.session \in Session
          /\ ~Pinned(p, c.session)
          /\ UNCHANGED pinned
      BY <1>0, <1>1, CallFacts DEF HoldClaimRun, memory, RunInv, HoldCallUnpinned
    <2>2. \A q \in Proc \ {p} : call'[q] = call[q]
      BY <1>0, <1>1 DEF HoldClaimRun, TypeOK
    <2>3. CASE MayTake(runs[c.session], p)
      <3>1. /\ runs' = [runs EXCEPT ![c.session] = Fresh(p)]
            /\ call'[p].at = "acquire"
            /\ call'[p].session = c.session
            /\ age' = [age EXCEPT ![p][c.session] = 0]
        BY <1>0, <1>1, <2>1, <2>3 DEF HoldClaimRun, TypeOK, Call, Idle
      <3>2. \A q \in Proc, t \in Session :
               Claiming(q, t)' => Claiming(q, t) \/ (q = p /\ t = c.session)
        BY <2>1, <2>2, <3>1 DEF Claiming, Pinned
      <3>4. ClaimKept'
        <4> SUFFICES ASSUME NEW q \in Proc, NEW t \in Session, Claiming(q, t)'
                     PROVE  runs'[t].who = q /\ runs'[t].left + age'[q][t] >= LeaseTTL
          BY DEF ClaimKept
        <4>1. Claiming(q, t) \/ (q = p /\ t = c.session)
          BY <3>2
        <4> HIDE DEF c
        <4> QED BY <2>1, <2>3, <3>1, <4>1, ClaimTaken, Zenon
      <3>3. HoldCallUnpinned'
        BY <2>1, <2>2, <3>1, CallMoves DEF Pinned
      <3> QED BY <1>0, <3>3, <3>4 DEF RunInv
    <2>4. CASE ~MayTake(runs[c.session], p)
      <3>1. UNCHANGED <<runs, age>> /\ call'[p] = Idle
        BY <1>0, <1>1, <2>4 DEF HoldClaimRun, TypeOK
      <3>2. ClaimKept'
        BY <2>1, <2>2, <3>1 DEF RunInv, ClaimKept, Claiming, Pinned, Idle
      <3>3. HoldCallUnpinned'
        BY <2>1, <2>2, <3>1, CallMoves DEF Pinned, Idle
      <3> QED BY <1>0, <3>2, <3>3 DEF RunInv
    <2> QED BY <2>3, <2>4
  <1>2. CASE HoldAcquire(p)
    <2>1. /\ c.at = "acquire"
          /\ c.session \in Session
          /\ ~Pinned(p, c.session)
          /\ UNCHANGED <<runs, age>>
      BY <1>0, <1>2, CallFacts DEF HoldAcquire, RunInv, HoldCallUnpinned
    <2>2. \A q \in Proc \ {p} : call'[q] = call[q]
      BY <1>0, <1>2 DEF HoldAcquire, TypeOK
    <2>3. CASE MayTake(leases[c.session], c.owner)
      <3>1. call'[p] = Idle
        BY <1>0, <1>2, <2>3 DEF HoldAcquire, TypeOK
      <3>2. \A q \in Proc, t \in Session :
               Pinned(q, t)' => Pinned(q, t) \/ (q = p /\ t = c.session)
        <4>1. pinned' = [pinned EXCEPT ![p][c.session] =
                           [owner |-> c.owner, count |-> 1, createdBy |-> c.createdBy]]
          BY <1>2, <2>3 DEF HoldAcquire
        <4> HIDE DEF c
        <4> QED BY <1>0, <2>1, <4>1 DEF Pinned, TypeOK
      <3>3. \A q \in Proc, t \in Session : Claiming(q, t)' => Claiming(q, t)
        BY <2>1, <2>2, <3>1, <3>2 DEF Claiming, Idle
      <3>5. ClaimKept'
        BY <2>1, <3>3 DEF RunInv, ClaimKept
      <3>4. HoldCallUnpinned'
        BY <2>2, <3>1, <3>2, CallMoves DEF Idle
      <3> QED BY <1>0, <3>4, <3>5 DEF RunInv
    <2>4. CASE ~MayTake(leases[c.session], c.owner)
      <3>1. /\ call'[p].at = "unclaim"
            /\ call'[p].session = c.session
            /\ UNCHANGED pinned
        BY <1>0, <1>2, <2>1, <2>4 DEF HoldAcquire, memory, TypeOK, Call, Idle
      <3>2. ClaimKept'
        BY <2>1, <2>2, <3>1 DEF RunInv, ClaimKept, Claiming, Pinned
      <3>3. HoldCallUnpinned'
        BY <2>1, <2>2, <3>1, CallMoves DEF Pinned
      <3> QED BY <1>0, <3>2, <3>3 DEF RunInv
    <2> QED BY <2>3, <2>4
  <1>3. CASE HoldUnclaim(p)
    <2>1. /\ c.session \in Session
          /\ ~Pinned(p, c.session)
          /\ UNCHANGED <<pinned, age>>
          /\ runs' = Without(runs, c.session, p)
          /\ call'[p] = Idle
          /\ \A q \in Proc \ {p} : call'[q] = call[q]
      BY <1>0, <1>3, CallFacts
         DEF HoldUnclaim, memory, RunInv, HoldCallUnpinned, TypeOK
    <2>2. ClaimKept'
      BY <2>1, ClaimDropped DEF ClaimKept, Claiming, Pinned, Idle
    <2>3. HoldCallUnpinned'
      BY <2>1, CallMoves DEF Pinned, Idle
    <2> QED BY <1>0, <2>2, <2>3 DEF RunInv
  <1>4. CASE RenewClaim(p)
    <2>1. /\ c.session \in Session
          /\ UNCHANGED pinned
          /\ call'[p] = Idle
          /\ \A q \in Proc \ {p} : call'[q] = call[q]
      BY <1>0, <1>4, CallFacts DEF RenewClaim, memory, TypeOK
    <2>2. \A q \in Proc, t \in Session : Claiming(q, t)' => Claiming(q, t)
      BY <2>1 DEF Claiming, Pinned, Idle
    <2>3. ClaimKept'
      <3>1. CASE MayTake(runs[c.session], p)
        <4>1. /\ runs' = [runs EXCEPT ![c.session] = Fresh(p)]
              /\ age' = [age EXCEPT ![p][c.session] = 0]
          BY <1>4, <3>1 DEF RenewClaim
        <4> QED BY <2>1, <2>2, <3>1, <4>1, ClaimTaken DEF ClaimKept
      <3>2. CASE ~MayTake(runs[c.session], p)
        <4>1. UNCHANGED <<runs, age>>
          BY <1>4, <3>2 DEF RenewClaim
        <4> QED BY <2>2, <4>1 DEF RunInv, ClaimKept
      <3> QED BY <3>1, <3>2
    <2>5. HoldCallUnpinned'
      BY <2>1, CallMoves DEF Pinned, Idle
    <2> QED BY <1>0, <2>3, <2>5 DEF RunInv
  <1>5. CASE EndReleaseRun(p)
    <2>1. /\ c.session \in Session
          /\ c.at = "endRun"
          /\ ~Pinned(p, c.session)
          /\ UNCHANGED <<pinned, age>>
          /\ runs' = Without(runs, c.session, p)
          /\ \A q \in Proc \ {p} : call'[q] = call[q]
      BY <1>0, <1>5, CallFacts
         DEF EndReleaseRun, memory, RunInv, HoldCallUnpinned, TypeOK
    <2>2. call'[p].at = "endCreated"
      BY <1>0, <1>5, <2>1 DEF EndReleaseRun, TypeOK, Call, Idle
    <2>3. ClaimKept'
      BY <2>1, <2>2, ClaimDropped DEF ClaimKept, Claiming, Pinned
    <2>4. HoldCallUnpinned'
      BY <2>1, <2>2, CallMoves DEF Pinned
    <2> QED BY <1>0, <2>3, <2>4 DEF RunInv
  <1>6. CASE EndReleaseCreated(p) \/ EndReleaseDeferred(p)
    <2>1. UNCHANGED <<runs, age, pinned>>
      BY <1>6 DEF EndReleaseCreated, EndReleaseDeferred
    <2>2. /\ call'[p].at \in {"idle", "endDeferred"}
          /\ \A q \in Proc \ {p} : call'[q] = call[q]
      BY <1>0, <1>6
         DEF EndReleaseCreated, EndReleaseDeferred, TypeOK, Call, Idle
    <2>3. ClaimKept'
      BY <2>1, <2>2 DEF RunInv, ClaimKept, Claiming, Pinned
    <2>4. HoldCallUnpinned'
      BY <2>1, <2>2, CallMoves DEF Pinned
    <2> QED BY <1>0, <2>3, <2>4 DEF RunInv
  <1>7. CASE CloseDone(p)
    BY <1>7, VanishKeeps DEF CloseDone
  <1>8. CASE \E s \in Session : CloseRelease(p, s)
    <2>1. UNCHANGED <<runs, age, pinned, call>>
      BY <1>8 DEF CloseRelease
    <2> QED BY <1>0, <2>1, QuietStep DEF Pinned
  <1> QED BY <1>1, <1>2, <1>3, <1>4, <1>5, <1>6, <1>7, <1>8 DEF CallStep

LEMMA ProcessKeeps ==
    ASSUME RunInv, NEW p \in Proc, Close(p) \/ Crash(p) \/ Restart(p)
    PROVE  RunInv'
  <1>0. TypeOK /\ TypeOK'
    BY ProcessTyped DEF RunInv
  <1>1. CASE Close(p)
    <2>1. /\ UNCHANGED <<runs, age>>
          /\ call'[p].at = "closing"
          /\ \A q \in Proc \ {p} : call'[q] = call[q] /\ pinned'[q] = pinned[q]
          /\ \A s \in Session : ~Pinned(p, s)'
      BY <1>0, <1>1 DEF Close, tables, TypeOK, Idle, Pinned, NoPin
    <2>2. ClaimKept'
      BY <2>1 DEF RunInv, ClaimKept, Claiming, Pinned
    <2>3. HoldCallUnpinned'
      BY <2>1, CallMoves DEF Pinned
    <2> QED BY <1>0, <2>2, <2>3 DEF RunInv
  <1>2. CASE Crash(p)
    BY <1>2, VanishKeeps DEF Crash
  <1>3. CASE Restart(p)
    <2>1. UNCHANGED <<runs, age, pinned, call>>
      BY <1>3 DEF Restart, tables, memory
    <2> QED BY <1>0, <2>1, QuietStep DEF Pinned
  <1> QED BY <1>1, <1>2, <1>3

\* A row whose process answers for it outlives one more tick.
LEMMA TickKeeps == ASSUME RunInv, Tick PROVE RunInv'
  <1>1. TypeOK /\ TypeOK'
    BY TickTyped DEF RunInv
  <1>2. /\ UNCHANGED <<pinned, call>>
        /\ \A p \in Proc, s \in Session : Claiming(p, s)' = Claiming(p, s)
    BY DEF Tick, memory, Claiming, Pinned
  <1>3. ASSUME NEW p \in Proc, NEW s \in Session, Claiming(p, s)
        PROVE  runs'[s].who = p /\ runs'[s].left + age'[p][s] >= LeaseTTL
    <2>1. /\ runs[s].who = p
          /\ runs[s].left + age[p][s] >= LeaseTTL
          /\ age[p][s] \in 0..MaxDelay
          /\ age[p][s] < MaxDelay
          /\ runs[s] \in Row(Proc \cup {Gone})
      BY <1>1, <1>3, <1>2 DEF RunInv, ClaimKept, Tick, TypeOK
    <2>2. runs[s].left \in 2..LeaseTTL
      BY <2>1, TimeAssumption DEF Row, NoRow
    <2>3. runs'[s] = [runs[s] EXCEPT !.left = runs[s].left - 1]
      BY <2>2, TimeAssumption DEF Tick, OneTickOlder
    <2>4. runs'[s].who = p /\ runs'[s].left = runs[s].left - 1
      BY <2>1, <2>2, <2>3, NamesAssumption DEF Row, NoRow
    <2>5. age'[p][s] = age[p][s] + 1
      BY <1>3 DEF Tick
    <2> QED BY <2>1, <2>2, <2>4, <2>5, TimeAssumption
  <1>4. ClaimKept'
    BY <1>2, <1>3 DEF ClaimKept
  <1>5. HoldCallUnpinned'
    BY <1>2 DEF RunInv, HoldCallUnpinned, Pinned
  <1> QED BY <1>1, <1>4, <1>5 DEF RunInv

LEMMA NextRunInv == RunInv /\ [Next]_vars => RunInv'
  <1> SUFFICES ASSUME RunInv, [Next]_vars PROVE RunInv'
    OBVIOUS
  <1>1. CASE \E p \in Proc, s \in Session, o \in Owner :
                ClientRequest(p, s, o) \/ WorkStarts(p, s, o)
    BY <1>1, RequestKeeps, StartKeeps
  <1>2. CASE \E p \in Proc, s \in Session : RenewLease(p, s) \/ WorkEnds(p, s)
    BY <1>2, RenewKeeps, EndKeeps
  <1>3. CASE \E p \in Proc : CallStep(p) \/ Close(p) \/ Crash(p) \/ Restart(p)
    BY <1>3, CallStepKeeps, ProcessKeeps
  <1>4. CASE Tick
    BY <1>4, TickKeeps
  <1>5. CASE UNCHANGED vars
    BY <1>5, NextTyped, QuietStep DEF vars, RunInv, Pinned
  <1> QED BY <1>1, <1>2, <1>3, <1>4, <1>5 DEF Next

LEMMA RunInvExcludes == RunInv => OneRunner
  BY DEF RunInv, ClaimKept, Claiming, OneRunner

\* Whatever the processes, sessions, owners and delays, only one process runs
\* work in a session at a time.
THEOREM Exclusion == Spec => []OneRunner
  BY InitRunInv, NextRunInv, RunInvExcludes, PTL DEF Spec

-----------------------------------------------------------------------------
(* The lease table implements SessionWork. *)

LEMMA WorkerFacts ==
    ASSUME OneRunner
    PROVE  /\ \A p \in Proc, s \in Session : Pinned(p, s) => Worker[s] = p
           /\ \A s \in Session : (\A p \in Proc : ~Pinned(p, s)) => Worker[s] = None
  BY DEF OneRunner, Worker

LEMMA WorkerFactsNext ==
    ASSUME OneRunner'
    PROVE  /\ \A p \in Proc, s \in Session : Pinned(p, s)' => Worker'[s] = p
           /\ \A s \in Session : (\A p \in Proc : ~Pinned(p, s)') => Worker'[s] = None
  BY DEF OneRunner, Worker

LEMMA SamePins ==
    ASSUME OneRunner, OneRunner',
           \A p \in Proc, s \in Session : Pinned(p, s)' <=> Pinned(p, s)
    PROVE  Worker' = Worker
  <1>1. ASSUME NEW s \in Session PROVE Worker'[s] = Worker[s]
    <2>1. CASE \E p \in Proc : Pinned(p, s)
      BY <2>1, WorkerFacts, WorkerFactsNext
    <2>2. CASE \A p \in Proc : ~Pinned(p, s)
      BY <2>2, WorkerFacts, WorkerFactsNext
    <2> QED BY <2>1, <2>2
  <1>2. /\ Worker = [s \in Session |-> Worker[s]]
        /\ Worker' = [s \in Session |-> Worker'[s]]
    BY DEF Worker
  <1> QED BY <1>1, <1>2

\* The one statement that starts work starts it where none runs.
LEMMA AcquireBegins ==
    ASSUME RunInv, RunInv', NEW p \in Proc, HoldAcquire(p)
    PROVE  Work!Next \/ Worker' = Worker
  <1>a. call[p].at = "acquire"
    BY DEF HoldAcquire
  <1>b. /\ call[p].session \in Session
        /\ call[p].owner \in Owner
    BY <1>a, CallFacts DEF RunInv, TypeOK
  <1> PICK s \in Session : s = call[p].session
    BY <1>b
  <1>0. OneRunner /\ OneRunner'
    BY RunInvExcludes DEF RunInv, ClaimKept, Claiming, OneRunner
  <1>1. \A q \in Proc : ~Pinned(q, s)
    <2>1. ~Pinned(p, s)
      BY <1>a DEF RunInv, HoldCallUnpinned
    <2>2. runs[s].who = p
      BY <1>a DEF RunInv, ClaimKept, Claiming
    <2> QED BY <2>1, <2>2 DEF RunInv, ClaimKept, Claiming
  <1>2. CASE MayTake(leases[s], call[p].owner)
    <2>1. pinned' = [pinned EXCEPT ![p][s] = [owner |-> call[p].owner, count |-> 1,
                                              createdBy |-> call[p].createdBy]]
      BY <1>2 DEF HoldAcquire
    <2>2. call[p].owner # None
      BY <1>b, NamesAssumption
    <2>3. /\ Pinned(p, s)'
          /\ \A q \in Proc, t \in Session : t # s => (Pinned(q, t)' <=> Pinned(q, t))
      BY <1>1, <2>1, <2>2 DEF Pinned, RunInv, TypeOK
    <2>4. Worker[s] = None /\ Worker'[s] = p
      BY <1>0, <1>1, <2>3, WorkerFacts, WorkerFactsNext
    <2>5. ASSUME NEW t \in Session, t # s PROVE Worker'[t] = Worker[t]
      <3>1. CASE \E q \in Proc : Pinned(q, t)
        BY <1>0, <2>3, <2>5, <3>1, WorkerFacts, WorkerFactsNext
      <3>2. CASE \A q \in Proc : ~Pinned(q, t)
        BY <1>0, <2>3, <2>5, <3>2, WorkerFacts, WorkerFactsNext
      <3> QED BY <3>1, <3>2
    <2>6. Worker' = [Worker EXCEPT ![s] = p]
      <3>1. /\ Worker = [t \in Session |-> Worker[t]]
            /\ Worker' = [t \in Session |-> Worker'[t]]
        BY DEF Worker
      <3> HIDE DEF Worker
      <3> QED BY <1>1, <2>4, <2>5, <3>1
    <2>7. Work!Begin(p, s)
      BY <2>4, <2>6 DEF Work!Begin
    <2> QED BY <1>1, <2>7 DEF Work!Next
  <1>3. CASE ~MayTake(leases[s], call[p].owner)
    <2>1. pinned' = pinned
      BY <1>3 DEF HoldAcquire, memory
    <2> QED BY <1>0, <2>1, SamePins DEF Pinned
  <1> QED BY <1>2, <1>3

\* A process that goes, or only drops its pins, stops its work.
LEMMA DropStops ==
    ASSUME OneRunner, OneRunner', NEW p \in Proc,
           \A q \in Proc, t \in Session : Pinned(q, t)' <=> (Pinned(q, t) /\ q # p)
    PROVE  Work!Stop(p)
  <1>1. ASSUME NEW t \in Session
        PROVE  Worker'[t] = IF Worker[t] = p THEN None ELSE Worker[t]
    <2>1. CASE Pinned(p, t)
      <3>1. \A q \in Proc : Pinned(q, t) => q = p
        BY <2>1 DEF OneRunner
      <3> QED BY <2>1, <3>1, WorkerFacts, WorkerFactsNext
    <2>2. CASE \E q \in Proc \ {p} : Pinned(q, t)
      BY <2>2, WorkerFacts, WorkerFactsNext
    <2>3. CASE \A q \in Proc : ~Pinned(q, t)
      BY <2>3, WorkerFacts, WorkerFactsNext, NamesAssumption
    <2> QED BY <2>1, <2>2, <2>3
  <1>2. Worker' = [t \in Session |-> Worker'[t]]
    BY DEF Worker
  <1> QED BY <1>1, <1>2 DEF Work!Stop

LEMMA EndEnds ==
    ASSUME OneRunner, OneRunner', TypeOK, NEW p \in Proc, NEW s \in Session,
           EndHold(p, s)
    PROVE  Work!End(p, s)
  <1>1. Pinned(p, s)
    BY NamesAssumption DEF EndHold, Pinned, TypeOK, Pin, NoPin
  <1>2. \A q \in Proc, t \in Session :
           Pinned(q, t)' <=> (Pinned(q, t) /\ ~(q = p /\ t = s))
    BY DEF EndHold, Pinned, NoPin, TypeOK
  <1>3. Worker[s] = p /\ Worker'[s] = None
    <2>1. \A q \in Proc : Pinned(q, s) => q = p
      BY <1>1 DEF OneRunner
    <2> QED BY <1>1, <1>2, <2>1, WorkerFacts, WorkerFactsNext
  <1>4. ASSUME NEW t \in Session, t # s PROVE Worker'[t] = Worker[t]
    <2>1. CASE \E q \in Proc : Pinned(q, t)
      BY <1>2, <1>4, <2>1, WorkerFacts, WorkerFactsNext
    <2>2. CASE \A q \in Proc : ~Pinned(q, t)
      BY <1>2, <1>4, <2>2, WorkerFacts, WorkerFactsNext
    <2> QED BY <2>1, <2>2
  <1>5. /\ Worker = [t \in Session |-> Worker[t]]
        /\ Worker' = [t \in Session |-> Worker'[t]]
    BY DEF Worker
  <1> HIDE DEF Worker
  <1> QED BY <1>3, <1>4, <1>5 DEF Work!End

LEMMA StepImplements ==
    ASSUME RunInv, RunInv', [Next]_vars
    PROVE  [Work!Next]_Worker
  <1>0. OneRunner /\ OneRunner' /\ TypeOK
    BY RunInvExcludes DEF RunInv, ClaimKept, Claiming, OneRunner
  <1>1. ASSUME NEW p \in Proc, NEW s \in Session, NEW o \in Owner,
               ClientRequest(p, s, o) \/ WorkStarts(p, s, o)
        PROVE  Worker' = Worker
    <2>1. \A q \in Proc, t \in Session : Pinned(q, t)' <=> Pinned(q, t)
      <3>1. CASE Takeover(p, s, o)
        BY <1>0, <3>1, NamesAssumption DEF Takeover, Pinned, TypeOK
      <3>2. CASE JoinHold(p, s, o)
        BY <1>0, <3>2 DEF JoinHold, Pinned, TypeOK
      <3>3. CASE Acquire(p, s, o) \/ Release(p, s, o) \/ BeginHold(p, s, o)
        BY <3>3 DEF Acquire, Release, BeginHold, memory, Pinned
      <3> QED BY <1>1, <3>1, <3>2, <3>3 DEF ClientRequest, WorkStarts
    <2> QED BY <1>0, <2>1, SamePins
  <1>2. ASSUME NEW p \in Proc, NEW s \in Session, RenewLease(p, s)
        PROVE  Worker' = Worker
    BY <1>0, <1>2, SamePins DEF RenewLease, Pinned
  <1>3. ASSUME NEW p \in Proc, NEW s \in Session, WorkEnds(p, s)
        PROVE  Work!End(p, s) \/ Worker' = Worker
    <2>1. CASE EndInnerHold(p, s)
      <3>1. \A q \in Proc, t \in Session : Pinned(q, t)' <=> Pinned(q, t)
        BY <1>0, <2>1 DEF EndInnerHold, Pinned, TypeOK
      <3> QED BY <1>0, <3>1, SamePins
    <2>2. CASE EndHold(p, s)
      BY <1>0, <2>2, EndEnds
    <2> QED BY <1>3, <2>1, <2>2 DEF WorkEnds
  <1>4. ASSUME NEW p \in Proc, Vanish(p) \/ Close(p)
        PROVE  Work!Stop(p)
    <2>1. \A q \in Proc, t \in Session : Pinned(q, t)' <=> (Pinned(q, t) /\ q # p)
      BY <1>0, <1>4 DEF Vanish, Close, Pinned, NoPin, TypeOK
    <2> QED BY <1>0, <2>1, DropStops
  <1>5. ASSUME NEW p \in Proc, CallStep(p)
        PROVE  Work!Next \/ Worker' = Worker
    <2>1. CASE HoldAcquire(p)
      BY <2>1, AcquireBegins
    <2>2. CASE CloseDone(p)
      BY <1>4, <2>2 DEF CloseDone, Work!Next
    <2>3. CASE \/ HoldClaimRun(p) \/ HoldUnclaim(p) \/ RenewClaim(p)
               \/ EndReleaseRun(p) \/ EndReleaseCreated(p) \/ EndReleaseDeferred(p)
               \/ \E s \in Session : CloseRelease(p, s)
      <3>1. pinned' = pinned
        BY <2>3 DEF HoldClaimRun, HoldUnclaim, RenewClaim, EndReleaseRun,
                    EndReleaseCreated, EndReleaseDeferred, CloseRelease, memory
      <3> QED BY <1>0, <3>1, SamePins DEF Pinned
    <2> QED BY <1>5, <2>1, <2>2, <2>3 DEF CallStep
  <1>6. ASSUME NEW p \in Proc, Close(p) \/ Crash(p) \/ Restart(p)
        PROVE  Work!Next \/ Worker' = Worker
    <2>1. CASE Close(p) \/ Crash(p)
      BY <1>4, <2>1 DEF Crash, Work!Next
    <2>2. CASE Restart(p)
      BY <1>0, <2>2, SamePins DEF Restart, memory, Pinned
    <2> QED BY <1>6, <2>1, <2>2
  <1>7. CASE Tick \/ UNCHANGED vars
    BY <1>0, <1>7, SamePins DEF Tick, vars, memory, Pinned
  <1>8. CASE Next
    <2>1. CASE \E p \in Proc, s \in Session, o \in Owner :
                  ClientRequest(p, s, o) \/ WorkStarts(p, s, o)
      BY <2>1, <1>1
    <2>2. CASE \E p \in Proc, s \in Session : RenewLease(p, s) \/ WorkEnds(p, s)
      BY <2>2, <1>2, <1>3 DEF Work!Next
    <2>3. CASE \E p \in Proc : CallStep(p) \/ Close(p) \/ Crash(p) \/ Restart(p)
      BY <2>3, <1>5, <1>6
    <2> QED BY <1>7, <1>8, <2>1, <2>2, <2>3 DEF Next
  <1> QED BY <1>7, <1>8

LEMMA InitImplements == Init => Work!Init
  <1> SUFFICES ASSUME Init PROVE Work!Init
    OBVIOUS
  <1>1. \A p \in Proc, s \in Session : ~Pinned(p, s)
    BY DEF Init, Pinned, NoPin
  <1> QED BY <1>1 DEF Worker, Work!Init

\* The tables, timers and crashes of SessionLeases implement SessionWork: work
\* begins in a session only when no process works there.
THEOREM Implementation == Spec => ImplementsSessionWork
  <1>1. RunInv /\ RunInv' /\ [Next]_vars => [Work!Next]_Worker
    BY StepImplements
  <1> QED BY <1>1, InitImplements, InitRunInv, NextRunInv, PTL
          DEF Spec, ImplementsSessionWork, Work!Spec

-----------------------------------------------------------------------------
(* Put-off releases. *)

LEMMA AcquireDefersNothing ==
    ASSUME TypeOK, NEW p \in Proc, NEW s, NEW o, AcquireEffect(p, s, o),
           NEW q \in Proc
    PROVE  deferred'[q] \subseteq deferred[q]
  BY DEF AcquireEffect, TypeOK

LEMMA NextNoStaleDeferral ==
    TypeOK /\ TypeOK' /\ NoStaleDeferral /\ [Next]_vars => NoStaleDeferral'
  <1> SUFFICES ASSUME TypeOK, TypeOK', NoStaleDeferral, [Next]_vars,
                      NEW q \in Proc, NEW t \in Session, t \in deferred'[q]
               PROVE  Pinned(q, t)' \/ call'[q].at = "closing"
    BY DEF NoStaleDeferral, TypeOK
  <1>0. t \in deferred[q] => Pinned(q, t) \/ call[q].at = "closing"
    BY DEF NoStaleDeferral
  <1>1. ASSUME NEW p \in Proc, NEW s \in Session, NEW o \in Owner,
               ClientRequest(p, s, o)
        PROVE  Pinned(q, t)' \/ call'[q].at = "closing"
    <2>1. CASE Acquire(p, s, o)
      BY <1>0, <2>1 DEF Acquire, AcquireEffect, Pinned, TypeOK
    <2>2. CASE Takeover(p, s, o)
      BY <1>0, <2>2, NamesAssumption DEF Takeover, Pinned, TypeOK
    <2>3. CASE Release(p, s, o)
      <3>1. CASE q = p /\ t = s /\ pinned[p][s].owner = o
        BY <2>3, <3>1, NamesAssumption DEF Release, Pinned
      <3>2. CASE ~(q = p /\ t = s /\ pinned[p][s].owner = o)
        <4>1. t \in deferred[q]
          BY <2>3, <3>2 DEF Release, TypeOK
        <4> QED BY <1>0, <2>3, <4>1 DEF Release, Pinned
      <3> QED BY <3>1, <3>2
    <2> QED BY <1>1, <2>1, <2>2, <2>3 DEF ClientRequest
  <1>2. ASSUME NEW p \in Proc, NEW s \in Session, NEW o \in Owner,
               WorkStarts(p, s, o)
        PROVE  Pinned(q, t)' \/ call'[q].at = "closing"
    <2>1. CASE JoinHold(p, s, o)
      BY <1>0, <2>1 DEF JoinHold, Pinned, TypeOK
    <2>2. CASE BeginHold(p, s, o)
      <3>1. /\ call[p].at = "idle"
            /\ q # p => call'[q] = call[q]
            /\ UNCHANGED <<pinned, deferred>>
        BY <2>2 DEF BeginHold, memory, Ready, Idle, TypeOK
      <3> QED BY <1>0, <3>1 DEF Pinned
    <2> QED BY <1>2, <2>1, <2>2 DEF WorkStarts
  <1>3. ASSUME NEW p \in Proc, NEW s \in Session, RenewLease(p, s)
        PROVE  Pinned(q, t)' \/ call'[q].at = "closing"
    <2>1. t \in deferred[q]
      BY <1>3, AcquireDefersNothing DEF RenewLease
    <2>2. /\ call[p].at = "idle"
          /\ q # p => call'[q] = call[q]
          /\ pinned' = pinned
      BY <1>3 DEF RenewLease, Ready, Idle, TypeOK
    <2> QED BY <1>0, <2>1, <2>2 DEF Pinned
  <1>4. ASSUME NEW p \in Proc, NEW s \in Session, WorkEnds(p, s)
        PROVE  Pinned(q, t)' \/ call'[q].at = "closing"
    <2>1. CASE EndInnerHold(p, s)
      BY <1>0, <2>1 DEF EndInnerHold, Pinned, TypeOK
    <2>2. CASE EndHold(p, s)
      <3>1. t \in deferred[q] /\ ~(q = p /\ t = s)
        BY <2>2 DEF EndHold, TypeOK
      <3> QED BY <1>0, <2>2, <3>1 DEF EndHold, Ready, Idle, Pinned, TypeOK
    <2> QED BY <1>4, <2>1, <2>2 DEF WorkEnds
  <1>5. ASSUME NEW p \in Proc, CallStep(p)
        PROVE  Pinned(q, t)' \/ call'[q].at = "closing"
    <2>1. CASE HoldAcquire(p)
      <3>1. t \in deferred[q]
        BY <2>1, AcquireDefersNothing DEF HoldAcquire, memory
      <3>2. q = p => Pinned(q, t)
        BY <1>0, <2>1, <3>1 DEF HoldAcquire
      <3>3. Pinned(q, t) => Pinned(q, t)'
        <4>1. call[p].owner \in Owner
          BY <2>1, CallFacts DEF HoldAcquire, TypeOK
        <4>2. CASE pinned' = [pinned EXCEPT ![p][call[p].session] =
                       [owner |-> call[p].owner, count |-> 1,
                        createdBy |-> call[p].createdBy]]
          BY <4>1, <4>2, NamesAssumption DEF Pinned, TypeOK
        <4>3. CASE pinned' = pinned
          BY <4>3 DEF Pinned
        <4> QED BY <2>1, <4>2, <4>3 DEF HoldAcquire, memory
      <3>4. q # p => call'[q] = call[q]
        BY <2>1 DEF HoldAcquire, TypeOK
      <3> QED BY <1>0, <3>1, <3>2, <3>3, <3>4
    <2>2. CASE CloseDone(p)
      <3>1. q # p /\ t \in deferred[q]
        BY <2>2 DEF CloseDone, Vanish, TypeOK
      <3> QED BY <1>0, <2>2, <3>1 DEF CloseDone, Vanish, Pinned, TypeOK
    <2>3. CASE \/ HoldClaimRun(p) \/ HoldUnclaim(p) \/ RenewClaim(p)
               \/ EndReleaseRun(p) \/ EndReleaseCreated(p) \/ EndReleaseDeferred(p)
               \/ \E s \in Session : CloseRelease(p, s)
      <3>1. /\ UNCHANGED <<pinned, deferred>>
            /\ q # p => call'[q] = call[q]
            /\ call[p].at = "closing" => call' = call
        BY <2>3 DEF HoldClaimRun, HoldUnclaim, RenewClaim, EndReleaseRun, TypeOK,
                    EndReleaseCreated, EndReleaseDeferred, CloseRelease, memory
      <3> QED BY <1>0, <3>1 DEF Pinned
    <2> QED BY <1>5, <2>1, <2>2, <2>3 DEF CallStep
  <1>6. ASSUME NEW p \in Proc, Close(p) \/ Crash(p) \/ Restart(p)
        PROVE  Pinned(q, t)' \/ call'[q].at = "closing"
    <2>1. CASE Close(p)
      BY <1>0, <2>1 DEF Close, Ready, Idle, Pinned, TypeOK
    <2>2. CASE Crash(p)
      <3>1. q # p /\ t \in deferred[q]
        BY <2>2 DEF Crash, Vanish, TypeOK
      <3> QED BY <1>0, <2>2, <3>1 DEF Crash, Vanish, Pinned, TypeOK
    <2>3. CASE Restart(p)
      BY <1>0, <2>3 DEF Restart, memory, Pinned
    <2> QED BY <1>6, <2>1, <2>2, <2>3
  <1>7. CASE Tick \/ UNCHANGED vars
    BY <1>0, <1>7 DEF Tick, vars, memory, Pinned
  <1> QED BY <1>1, <1>2, <1>3, <1>4, <1>5, <1>6, <1>7 DEF Next

\* No release is left over to take the lease of a later run.
THEOREM NoLeftOvers == Spec => []NoStaleDeferral
  <1>1. Init => NoStaleDeferral
    BY DEF Init, NoStaleDeferral
  <1> QED BY <1>1, TypeCorrect, NextNoStaleDeferral, PTL DEF Spec

-----------------------------------------------------------------------------
(* A reservation nothing is about to delete.  FirmClientKeepsSession alone  *)
(* is not inductive: it does not say that no work, no call under way and no *)
(* release put off is to take the row.                                      *)

\* Something in p will delete the lease of s that o has.
Doomed(p, s, o) ==
    \/ pinned[p][s].createdBy = o
    \/ s \in deferred[p] /\ pinned[p][s].owner = o
    \/ call[p].session = s /\ call[p].createdBy = o
    \/ /\ call[p].session = s /\ call[p].owner = o
       /\ call[p].at \in {"endRun", "endCreated", "endDeferred"}

\* Owner o has s and last renewed n ticks ago, and nothing will delete it.
Safe(s, o, n) ==
    /\ leases[s].who = o
    /\ leases[s].left + n >= LeaseTTL
    /\ \A p \in Proc : ~Doomed(p, s, o)

LEMMA DoomedSame ==
    ASSUME NEW p \in Proc, NEW s \in Session, NEW o \in Owner,
           ~Doomed(p, s, o), UNCHANGED <<pinned, deferred>>, call'[p] = call[p]
    PROVE  ~Doomed(p, s, o)'
  BY DEF Doomed

\* Changing the row of another session, or of another owner, or renewing the
\* row, is no harm.
LEMMA AcquireSafe ==
    ASSUME TypeOK, NEW s \in Session, NEW o \in Owner, NEW n \in Nat, Safe(s, o, n),
           NEW p \in Proc, NEW t \in Session, NEW w \in Owner,
           MayTake(leases[t], w), AcquireEffect(p, t, w)
    PROVE  /\ leases'[s].who = o /\ leases'[s].left + n >= LeaseTTL
           /\ \A q \in Proc : deferred'[q] \subseteq deferred[q]
  <1>1. t = s => w = o
    BY NamesAssumption DEF Safe, MayTake
  <1>2. t = s => leases'[s] = Fresh(o)
    BY <1>1 DEF AcquireEffect, TypeOK
  <1>3. t # s => leases'[s] = leases[s]
    BY DEF AcquireEffect, TypeOK
  <1>4. Fresh(o).who = o /\ Fresh(o).left = LeaseTTL
    BY DEF Fresh
  <1> QED BY <1>2, <1>3, <1>4, AcquireDefersNothing, TimeAssumption DEF Safe

LEMMA ReleaseSafe ==
    ASSUME TypeOK, NEW s \in Session, NEW o \in Owner, NEW n \in Nat, Safe(s, o, n),
           NEW p \in Proc, NEW t \in Session, NEW w \in Owner,
           ReleaseEffect(p, t, w), t # s \/ w # o
    PROVE  leases'[s] = leases[s]
  BY DEF ReleaseEffect, Without, Safe, TypeOK

LEMMA RequestSafe ==
    ASSUME TypeOK, NEW s \in Session, NEW o \in Owner, NEW n \in Nat, Safe(s, o, n),
           NEW p \in Proc, NEW t \in Session, NEW w \in Owner,
           \/ Acquire(p, t, w)
           \/ Takeover(p, t, w) /\ (t # s \/ w = o)
           \/ Release(p, t, w) /\ (t # s \/ w # o)
    PROVE  Safe(s, o, n)'
  <1>1. CASE Acquire(p, t, w)
    <2>1. UNCHANGED <<pinned, call>> /\ MayTake(leases[t], w) /\ AcquireEffect(p, t, w)
      BY <1>1 DEF Acquire
    <2> QED BY <2>1, AcquireSafe DEF Safe, Doomed
  <1>2. CASE Takeover(p, t, w) /\ (t # s \/ w = o)
    <2>1. leases'[s].who = o /\ leases'[s].left + n >= LeaseTTL
      BY <1>2, TimeAssumption DEF Takeover, Safe, Fresh, TypeOK
    <2>2. UNCHANGED call
      BY <1>2 DEF Takeover
    <2>3. \A q \in Proc : pinned'[q][s].createdBy = pinned[q][s].createdBy
      <3>1. pinned'[p][t].createdBy = pinned[p][t].createdBy
        <4>1. pinned[p][t] \in Pin
          BY DEF TypeOK
        <4>2. [pinned[p][t] EXCEPT !.owner = w].createdBy = pinned[p][t].createdBy
          BY <4>1 DEF Pin, NoPin
        <4> QED BY <1>2, <4>2 DEF Takeover, TypeOK
      <3> QED BY <1>2, <3>1 DEF Takeover, TypeOK
    <2>4. \A q \in Proc : s \in deferred'[q] =>
              s \in deferred[q] /\ pinned'[q][s] = pinned[q][s]
      BY <1>2 DEF Takeover, TypeOK
    <2> QED BY <2>1, <2>2, <2>3, <2>4 DEF Safe, Doomed
  <1>3. CASE Release(p, t, w) /\ (t # s \/ w # o)
    <2>1. UNCHANGED <<pinned, call>>
      BY <1>3 DEF Release
    <2>2. leases'[s] = leases[s]
      BY <1>3, ReleaseSafe DEF Release
    <2>3. \A q \in Proc : s \in deferred'[q] /\ pinned[q][s].owner = o => s \in deferred[q]
      <3>1. CASE pinned[p][t].owner = w
        <4>1. deferred' = [deferred EXCEPT ![p] = deferred[p] \cup {t}]
          BY <1>3, <3>1 DEF Release
        <4> QED BY <1>3, <3>1, <4>1 DEF TypeOK
      <3>2. CASE pinned[p][t].owner # w
        BY <1>3, <3>2 DEF Release
      <3> QED BY <3>1, <3>2
    <2> QED BY <2>1, <2>2, <2>3 DEF Safe, Doomed
  <1> QED BY <1>1, <1>2, <1>3

\* The work of a process, its timers and its shutdown.
LEMMA WorkSafe ==
    ASSUME TypeOK, NEW s \in Session, NEW o \in Owner, NEW n \in Nat, Safe(s, o, n),
           NEW p \in Proc, NEW t \in Session, NEW w \in Owner,
           WorkStarts(p, t, w) \/ WorkEnds(p, t) \/ RenewLease(p, t)
    PROVE  Safe(s, o, n)'
  <1>1. CASE JoinHold(p, t, w) \/ EndInnerHold(p, t)
    <2>1. /\ UNCHANGED <<leases, call, deferred>>
          /\ pinned[p][t].owner # None
      BY <1>1, NamesAssumption, PinFacts DEF JoinHold, EndInnerHold, tables, Pin, NoPin, TypeOK
    <2>2. \A q \in Proc : /\ pinned'[q][s].createdBy = pinned[q][s].createdBy
                          /\ pinned'[q][s].owner = pinned[q][s].owner
      <3>1. pinned[p][t] \in Pin
        BY DEF TypeOK
      <3>2. PICK m : pinned' = [pinned EXCEPT ![p][t].count = m]
        BY <1>1 DEF JoinHold, EndInnerHold
      <3>3. pinned' = [pinned EXCEPT ![p][t] = [pinned[p][t] EXCEPT !.count = m]]
        BY <3>2 DEF TypeOK
      <3>4. /\ [pinned[p][t] EXCEPT !.count = m].createdBy = pinned[p][t].createdBy
            /\ [pinned[p][t] EXCEPT !.count = m].owner = pinned[p][t].owner
        BY <3>1 DEF Pin, NoPin
      <3> QED BY <3>3, <3>4 DEF TypeOK
    <2> QED BY <2>1, <2>2 DEF Safe, Doomed
  <1>2. CASE BeginHold(p, t, w)
    <2>1. UNCHANGED <<leases, pinned, deferred>>
      BY <1>2 DEF BeginHold, tables, memory
    <2>2. \A q \in Proc \ {p} : call'[q] = call[q]
      BY <1>2 DEF BeginHold, TypeOK
    <2>3. call'[p] = [at |-> "claim", session |-> t, owner |-> w,
                      createdBy |-> IF leases[t].who = w THEN None ELSE w]
      BY <1>2 DEF BeginHold, TypeOK
    <2>4. ~Doomed(p, s, o)'
      BY <2>1, <2>3, NamesAssumption DEF Doomed, Safe
    <2> QED BY <2>1, <2>2, <2>4, DoomedSame DEF Safe
  <1>3. CASE EndHold(p, t)
    <2>1. UNCHANGED leases
      BY <1>3 DEF EndHold, tables
    <2>2. \A q \in Proc \ {p} : /\ call'[q] = call[q]
                                /\ pinned'[q] = pinned[q]
                                /\ deferred'[q] = deferred[q]
      BY <1>3 DEF EndHold, TypeOK
    <2>3. call'[p] = [at |-> "endRun", session |-> t,
                      owner |-> IF t \in deferred[p] THEN pinned[p][t].owner ELSE None,
                      createdBy |-> pinned[p][t].createdBy]
      BY <1>3 DEF EndHold, TypeOK
    <2>4. /\ \A u \in Session \ {t} : pinned'[p][u] = pinned[p][u]
          /\ pinned'[p][t] = NoPin
          /\ deferred'[p] = deferred[p] \ {t}
      BY <1>3 DEF EndHold, TypeOK
    <2>5. ~Doomed(p, s, o)
      BY DEF Safe
    <2>6. ~Doomed(p, s, o)'
      BY <2>3, <2>4, <2>5, NamesAssumption DEF Doomed, NoPin
    <2>7. \A q \in Proc \ {p} : ~Doomed(q, s, o)'
      BY <2>2 DEF Safe, Doomed
    <2> QED BY <2>1, <2>6, <2>7 DEF Safe
  <1>4. CASE RenewLease(p, t)
    <2>1. pinned' = pinned /\ \A q \in Proc \ {p} : call'[q] = call[q]
      BY <1>4 DEF RenewLease, TypeOK
    <2>2. call'[p] = [at |-> "renewClaim", session |-> t, owner |-> pinned[p][t].owner,
                      createdBy |-> None]
      BY <1>4 DEF RenewLease, TypeOK
    <2>3. /\ leases'[s].who = o /\ leases'[s].left + n >= LeaseTTL
          /\ \A q \in Proc : deferred'[q] \subseteq deferred[q]
      <3>1. pinned[p][t].owner \in Owner
        BY <1>4, PinFacts DEF RenewLease, Pinned, TypeOK
      <3>2. CASE MayTake(leases[t], pinned[p][t].owner)
        BY <1>4, <3>1, <3>2, AcquireSafe DEF RenewLease
      <3>3. CASE ~MayTake(leases[t], pinned[p][t].owner)
        BY <1>4, <3>3 DEF RenewLease, Safe
      <3> QED BY <3>2, <3>3
    <2>4. \A q \in Proc : ~Doomed(q, s, o)
      BY DEF Safe
    <2>5. ~Doomed(p, s, o)'
      BY <2>1, <2>2, <2>3, <2>4, NamesAssumption DEF Doomed
    <2>6. \A q \in Proc \ {p} : ~Doomed(q, s, o)'
      BY <2>1, <2>3, <2>4 DEF Doomed
    <2> QED BY <2>3, <2>5, <2>6 DEF Safe
  <1> QED BY <1>1, <1>2, <1>3, <1>4 DEF WorkStarts, WorkEnds

\* The other statements of the calls a process is in.
LEMMA CallSafe ==
    ASSUME TypeOK, HoldCallUnpinned, NoStaleDeferral,
           NEW s \in Session, NEW o \in Owner, NEW n \in Nat, Safe(s, o, n),
           NEW p \in Proc,
           \/ HoldClaimRun(p) \/ HoldAcquire(p) \/ HoldUnclaim(p) \/ RenewClaim(p)
           \/ EndReleaseRun(p) \/ EndReleaseCreated(p) \/ EndReleaseDeferred(p)
           \/ CloseDone(p) \/ Close(p) \/ Crash(p) \/ Restart(p)
    PROVE  Safe(s, o, n)'
  <1>0. /\ call[p] \in Call
        /\ \A q \in Proc : ~Doomed(q, s, o)
    BY DEF TypeOK, Safe
  <1>1. CASE HoldClaimRun(p) \/ HoldUnclaim(p) \/ RenewClaim(p) \/ EndReleaseRun(p)
    <2>1. UNCHANGED <<leases, pinned, deferred>>
      BY <1>1 DEF HoldClaimRun, HoldUnclaim, RenewClaim, EndReleaseRun, memory
    <2>2. \A q \in Proc \ {p} : call'[q] = call[q]
      BY <1>1 DEF HoldClaimRun, HoldUnclaim, RenewClaim, EndReleaseRun, TypeOK
    <2>3. \/ call'[p] = Idle
          \/ call[p].at = "claim" /\ call'[p] = [call[p] EXCEPT !.at = "acquire"]
          \/ call[p].at = "endRun" /\ call'[p] = [call[p] EXCEPT !.at = "endCreated"]
      BY <1>1 DEF HoldClaimRun, HoldUnclaim, RenewClaim, EndReleaseRun, TypeOK
    <2>4. ~Doomed(p, s, o)'
      BY <1>0, <2>1, <2>3, NamesAssumption DEF Doomed, Idle, Call
    <2> QED BY <2>1, <2>2, <2>4, DoomedSame DEF Safe
  <1>2. CASE HoldAcquire(p)
    <2>1. /\ call[p].at = "acquire" /\ call[p].session \in Session /\ call[p].owner \in Owner
          /\ ~Pinned(p, call[p].session)
      BY <1>0, <1>2, CallFacts DEF HoldAcquire, HoldCallUnpinned
    <2>2. \A q \in Proc \ {p} : call'[q] = call[q]
      BY <1>2 DEF HoldAcquire, TypeOK
    <2>3. CASE MayTake(leases[call[p].session], call[p].owner)
      <3>1. AcquireEffect(p, call[p].session, call[p].owner)
        BY <1>2, <2>3 DEF HoldAcquire
      <3>2. /\ leases'[s].who = o /\ leases'[s].left + n >= LeaseTTL
            /\ \A q \in Proc : deferred'[q] \subseteq deferred[q]
        BY <2>1, <2>3, <3>1, AcquireSafe
      <3>3. /\ call'[p] = Idle
            /\ pinned' = [pinned EXCEPT ![p][call[p].session] =
                            [owner |-> call[p].owner, count |-> 1,
                             createdBy |-> call[p].createdBy]]
        BY <1>2, <2>3 DEF HoldAcquire, TypeOK
      <3>4. call[p].session \notin deferred[p]
        BY <2>1 DEF NoStaleDeferral
      <3>5. \A q \in Proc \ {p} : pinned'[q] = pinned[q]
        BY <3>3 DEF TypeOK
      <3>6. \A q \in Proc \ {p} : ~Doomed(q, s, o)'
        BY <1>0, <2>2, <3>2, <3>5 DEF Doomed
      <3>7. ~Doomed(p, s, o)'
        <4>1. CASE s = call[p].session
          <5>1. pinned'[p][s].createdBy = call[p].createdBy /\ s \notin deferred'[p]
            BY <2>1, <3>2, <3>3, <3>4, <4>1 DEF TypeOK
          <5> QED BY <1>0, <3>3, <4>1, <5>1, NamesAssumption DEF Doomed, Idle
        <4>2. CASE s # call[p].session
          <5>1. pinned'[p][s] = pinned[p][s]
            BY <3>3, <4>2 DEF TypeOK
          <5> QED BY <1>0, <3>2, <3>3, <5>1, NamesAssumption DEF Doomed, Idle
        <4> QED BY <4>1, <4>2
      <3> QED BY <3>2, <3>6, <3>7 DEF Safe
    <2>4. CASE ~MayTake(leases[call[p].session], call[p].owner)
      <3>1. UNCHANGED <<leases, pinned, deferred>> /\ call'[p] = [call[p] EXCEPT !.at = "unclaim"]
        BY <1>2, <2>4 DEF HoldAcquire, memory, TypeOK
      <3>2. ~Doomed(p, s, o)'
        BY <1>0, <2>1, <3>1 DEF Doomed, Call, Idle
      <3> QED BY <2>2, <3>1, <3>2, DoomedSame DEF Safe
    <2> QED BY <2>3, <2>4
  <1>3. CASE EndReleaseCreated(p) \/ EndReleaseDeferred(p)
    <2>1. UNCHANGED <<pinned, deferred>> /\ \A q \in Proc \ {p} : call'[q] = call[q]
      BY <1>3 DEF EndReleaseCreated, EndReleaseDeferred, TypeOK
    <2>2. /\ call[p].session \in Session
          /\ call[p].owner \in Owner \cup {None} /\ call[p].createdBy \in Owner \cup {None}
          /\ call[p].at \in {"endCreated", "endDeferred"}
      BY <1>0, <1>3, CallFacts DEF EndReleaseCreated, EndReleaseDeferred
    <2>3. leases'[s] = leases[s]
      <3>1. CASE EndReleaseCreated(p)
        BY <1>0, <2>2, <3>1, ReleaseSafe DEF EndReleaseCreated, Doomed
      <3>2. CASE EndReleaseDeferred(p)
        BY <1>0, <2>2, <3>2, ReleaseSafe DEF EndReleaseDeferred, Doomed
      <3> QED BY <1>3, <3>1, <3>2
    <2>4. \/ call'[p] = Idle
          \/ call'[p] = [call[p] EXCEPT !.at = "endDeferred"]
      BY <1>3 DEF EndReleaseCreated, EndReleaseDeferred, TypeOK
    <2>5. ~Doomed(p, s, o)'
      BY <1>0, <2>1, <2>2, <2>4, NamesAssumption DEF Doomed, Idle, Call
    <2> QED BY <2>1, <2>3, <2>5, DoomedSame DEF Safe
  <1>4. CASE CloseDone(p) \/ Crash(p)
    <2>1. Vanish(p)
      BY <1>4 DEF CloseDone, Crash
    <2>2. /\ leases' = leases
          /\ \A q \in Proc \ {p} : /\ call'[q] = call[q] /\ pinned'[q] = pinned[q]
                                   /\ deferred'[q] = deferred[q]
          /\ call'[p] = Idle /\ deferred'[p] = {} /\ pinned'[p][s] = NoPin
      BY <2>1 DEF Vanish, TypeOK
    <2> QED BY <1>0, <2>2, NamesAssumption DEF Doomed, Safe, NoPin, Idle
  <1>5. CASE Close(p)
    <2>1. /\ leases' = leases /\ deferred' = deferred
          /\ \A q \in Proc \ {p} : call'[q] = call[q] /\ pinned'[q] = pinned[q]
          /\ call'[p] = [Idle EXCEPT !.at = "closing"] /\ pinned'[p][s] = NoPin
      BY <1>5 DEF Close, tables, TypeOK
    <2> QED BY <1>0, <2>1, NamesAssumption DEF Doomed, Safe, NoPin, Idle
  <1>6. CASE Restart(p)
    BY <1>6 DEF Restart, Safe, Doomed, tables, memory
  <1> QED BY <1>1, <1>2, <1>3, <1>4, <1>5, <1>6

LEMMA CloseReleaseSafe ==
    ASSUME TypeOK, NEW s \in Session, NEW o \in Owner, NEW n \in Nat, Safe(s, o, n),
           NEW p \in Proc, NEW t \in Session, CloseRelease(p, t),
           t # s \/ held[p][t] # o
    PROVE  Safe(s, o, n)'
  <1>1. held[p][t] \in Owner /\ UNCHANGED <<pinned, deferred, call>>
    BY DEF CloseRelease, TypeOK
  <1>2. leases'[s] = leases[s]
    BY <1>1, ReleaseSafe DEF CloseRelease
  <1> QED BY <1>1, <1>2 DEF Safe, Doomed

\* A tick takes one tick off the row and adds one to the time since.
LEMMA TickSafe ==
    ASSUME TypeOK, NEW s \in Session, NEW o \in Owner, NEW n \in Nat, Safe(s, o, n),
           n + 1 < LeaseTTL, Tick
    PROVE  Safe(s, o, n + 1)'
  <1>1. UNCHANGED <<pinned, deferred, call>>
    BY DEF Tick, memory
  <1>2. leases[s] \in Row(Owner) /\ leases'[s] = OneTickOlder(leases[s])
    BY DEF Tick, TypeOK
  <1>3. leases[s].left \in 2..LeaseTTL
    BY <1>2, TimeAssumption DEF Safe, Row, NoRow
  <1>4. leases'[s].who = o /\ leases'[s].left = leases[s].left - 1
    BY <1>2, <1>3, NamesAssumption DEF OneTickOlder, Row, NoRow, Safe
  <1>5. leases'[s].left + (n + 1) >= LeaseTTL
    BY <1>3, <1>4, TimeAssumption DEF Safe
  <1> QED BY <1>1, <1>4, <1>5 DEF Safe, Doomed

-----------------------------------------------------------------------------
(* The clients.  Every step they see is a step of the leases, so what is    *)
(* proved of those holds here.                                              *)

LEMMA ViewFacts ==
    ASSUME NEW v \in View
    PROVE  /\ v.at \in {"away", "open", "lost"} /\ v.since \in 0..LeaseTTL
           /\ v.claim \in {"none", "shared", "firm"}
           /\ v.at # "away" => v.session \in Session
           /\ v.claim = "firm" => v.session \in Session
           /\ [v EXCEPT !.claim = "none"] \in View
           /\ v.at # "away" => [v EXCEPT !.at = "lost", !.claim = "none"] \in View
           /\ v.at = "open" /\ v.since < LeaseTTL => [v EXCEPT !.since = @ + 1] \in View
  <1>1. CASE v = Away
    BY <1>1, TimeAssumption DEF View, Away
  <1>2. CASE v \in [at : {"open", "lost"}, session : Session,
                     since : 0..LeaseTTL, claim : {"none", "shared", "firm"}]
    <2>1. /\ v.at \in {"open", "lost"} /\ v.since \in 0..LeaseTTL /\ v.session \in Session
          /\ v.claim \in {"none", "shared", "firm"}
      BY <1>2
    <2>2. /\ [v EXCEPT !.claim = "none"] \in View
          /\ [v EXCEPT !.at = "lost", !.claim = "none"] \in View
      BY <1>2 DEF View
    <2>3. v.since < LeaseTTL => v.since + 1 \in 0..LeaseTTL
      BY <2>1, TimeAssumption
    <2>4. v.since < LeaseTTL => [v EXCEPT !.since = v.since + 1] \in View
      BY <1>2, <2>3 DEF View
    <2> QED BY <2>1, <2>2, <2>4
  <1> QED BY <1>1, <1>2 DEF View

LEMMA StepOfLeases == ClientsTypeOK /\ [NextClients]_clientVars => [Next]_vars
  <1> SUFFICES ASSUME ClientsTypeOK, NextClients PROVE [Next]_vars
    BY DEF clientVars
  <1> USE DEF Next
  <1>1. ASSUME NEW c \in Client, NEW s \in Session, OpenSession(c, s) \/ TakeOver(c, s)
        PROVE  Next
    BY <1>1, ClientAssumption DEF OpenSession, TakeOver, ClientRequest
  <1>2. ASSUME NEW c \in Client, RenewOpen(c) \/ CloseSession(c)
        PROVE  Next
    <2>1. client[c].session \in Session
      BY <1>2, ViewFacts DEF RenewOpen, CloseSession, ClientsTypeOK
    <2> QED BY <1>2, <2>1, ClientAssumption DEF RenewOpen, CloseSession, ClientRequest
  <1>3. ASSUME NEW c \in Client, LoseSession(c) \/ Disappear(c)
        PROVE  UNCHANGED vars
    BY <1>3 DEF LoseSession, Disappear
  <1>4. ASSUME NEW p \in Proc, NEW s \in Session, NEW o \in Owner, StartWork(p, s, o)
        PROVE  Next
    BY <1>4 DEF StartWork
  <1>5. ASSUME NEW p \in Proc, NEW s \in Session, CloseReleaseSeen(p, s)
        PROVE  Next
    BY <1>5 DEF CloseReleaseSeen, CallStep
  <1>6. ASSUME NEW p \in Proc, InnerStep(p) PROVE Next
    BY <1>6 DEF InnerStep, CallStep
  <1>7. ASSUME NEW p \in Proc, ProcessEvent(p) PROVE Next
    BY <1>7 DEF ProcessEvent
  <1>8. CASE TimePasses
    BY <1>8 DEF TimePasses
  <1> QED BY <1>1, <1>2, <1>3, <1>4, <1>5, <1>6, <1>7, <1>8 DEF NextClients

-----------------------------------------------------------------------------
(* What a client relies on. *)

Relies(d, since) ==
    client[d].claim = "firm" /\ since < LeaseTTL =>
        Safe(client[d].session, ClientOwner[d], since)

ClientInv ==
    /\ ClientsTypeOK
    /\ RunInv
    /\ NoStaleDeferral
    /\ \A d \in Client : client[d].claim = "firm" => client[d].at = "open"
    /\ \A d \in Client : Relies(d, client[d].since)

\* A client that has just renewed or taken over, and found nothing that will
\* delete its row.
LEMMA OpenedSafe ==
    ASSUME TypeOK, NEW p \in Proc, NEW s \in Session, NEW o \in Owner,
           Acquire(p, s, o) \/ Takeover(p, s, o), ClaimOn(s, o) = "firm"
    PROVE  Safe(s, o, 0)'
  <1>1. \A q \in Proc : ~DoomedBy(q, s, o)
    BY DEF ClaimOn
  <1>2. leases'[s].who = o /\ leases'[s].left + 0 >= LeaseTTL
    BY TimeAssumption DEF Acquire, AcquireEffect, Takeover, Fresh, TypeOK
  <1>3. \A q \in Proc : pinned'[q][s].createdBy = pinned[q][s].createdBy
    <2>1. CASE Acquire(p, s, o)
      BY <2>1 DEF Acquire
    <2>2. CASE Takeover(p, s, o)
      <3>1. pinned[p][s] \in Pin
        BY DEF TypeOK
      <3>2. [pinned[p][s] EXCEPT !.owner = o].createdBy = pinned[p][s].createdBy
        BY <3>1 DEF Pin, NoPin
      <3> QED BY <2>2, <3>2 DEF Takeover, TypeOK
    <2> QED BY <2>1, <2>2
  <1>4. call' = call
    BY DEF Acquire, Takeover
  <1>5. \A q \in Proc : ~Doomed(q, s, o)'
    BY <1>1, <1>3, <1>4 DEF DoomedBy, Doomed
  <1> QED BY <1>2, <1>5 DEF Safe

\* A step the other clients see, or no client sees.
LEMMA OthersRely ==
    ASSUME ClientInv, NEW d \in Client, client'[d] = client[d],
           \A s \in Session, o \in Owner, n \in Nat :
               /\ client[d].claim = "firm" /\ s = client[d].session
               /\ o = ClientOwner[d] /\ n = client[d].since /\ Safe(s, o, n)
               => Safe(s, o, n)'
    PROVE  Relies(d, client[d].since)'
  <1>1. CASE client[d].claim = "firm" /\ client[d].since < LeaseTTL
    <2>1. /\ client[d].session \in Session /\ ClientOwner[d] \in Owner
          /\ client[d].since \in Nat
      <3>1. client[d] \in View
        BY DEF ClientInv, ClientsTypeOK
      <3>2. ClientOwner[d] \in Owner
        BY ClientAssumption
      <3>3. client[d].since \in 0..LeaseTTL /\ client[d].session \in Session
        BY <1>1, <3>1, ViewFacts
      <3> QED BY <3>2, <3>3, TimeAssumption
    <2>2. Safe(client[d].session, ClientOwner[d], client[d].since)
      BY <1>1 DEF ClientInv, Relies
    <2>3. Safe(client[d].session, ClientOwner[d], client[d].since)'
      BY <1>1, <2>1, <2>2 DEF Safe, Doomed
    <2> QED BY <2>3 DEF Relies
  <1>2. CASE ~(client[d].claim = "firm" /\ client[d].since < LeaseTTL)
    BY <1>2 DEF Relies
  <1> QED BY <1>1, <1>2

\* The view of a client after others gave up or lost the reservation.
LEMMA WeakenedView ==
    ASSUME ClientsTypeOK, NEW s, NEW Lost, NEW d \in Client
    PROVE  /\ Weakened(client, s, Lost)[d] \in View
           /\ Weakened(client, s, Lost)[d].at = client[d].at
           /\ Weakened(client, s, Lost)[d].claim = "firm" =>
                 /\ Weakened(client, s, Lost)[d] = client[d]
                 /\ client[d].session # s \/ ClientOwner[d] \notin Lost
  <1>1. client[d] \in View
    BY DEF ClientsTypeOK
  <1>2. /\ [client[d] EXCEPT !.claim = "none"].claim = "none"
        /\ [client[d] EXCEPT !.claim = "none"].at = client[d].at
    BY <1>1 DEF View, Away
  <1>3. [client[d] EXCEPT !.claim = "none"] \in View
    BY <1>1, ViewFacts
  <1> QED BY <1>1, <1>2, <1>3 DEF Weakened

LEMMA OpenedView ==
    ASSUME NEW c \in Client, NEW s \in Session
    PROVE  /\ Opened(c, s) \in View /\ Opened(c, s).at = "open"
           /\ Opened(c, s).session = s /\ Opened(c, s).since = 0
           /\ Opened(c, s).claim = ClaimOn(s, ClientOwner[c])
  BY TimeAssumption DEF Opened, View, ClaimOn

\* Client c has just opened s; what the others rely on stays.
LEMMA OpenedKeeps ==
    ASSUME ClientInv, RunInv', NoStaleDeferral',
           NEW c \in Client, NEW s \in Session,
           \/ Acquire(ClientProc[c], s, ClientOwner[c])
           \/ Takeover(ClientProc[c], s, ClientOwner[c]),
           NEW view \in [Client -> View],
           client' = [view EXCEPT ![c] = Opened(c, s)],
           \A d \in Client \ {c} :
              /\ view[d].at = client[d].at
              /\ view[d].claim = "firm" =>
                    /\ view[d] = client[d]
                    /\ \/ Acquire(ClientProc[c], s, ClientOwner[c])
                       \/ client[d].session # s \/ ClientOwner[d] = ClientOwner[c]
    PROVE  ClientInv'
  <1> DEFINE o == ClientOwner[c]
             p == ClientProc[c]
  <1>1. TypeOK /\ TypeOK' /\ o \in Owner /\ p \in Proc
    BY ClientAssumption DEF ClientInv, RunInv
  <1>2. /\ Opened(c, s) \in View /\ Opened(c, s).at = "open"
        /\ Opened(c, s).session = s /\ Opened(c, s).since = 0
        /\ Opened(c, s).claim = ClaimOn(s, o)
    BY OpenedView
  <1>3. client' \in [Client -> View] /\ client'[c] = Opened(c, s)
    BY <1>2
  <1>4. \A d \in Client \ {c} : client'[d] = view[d]
    OBVIOUS
  <1>5. \A d \in Client : client'[d].claim = "firm" => client'[d].at = "open"
    BY <1>2, <1>3, <1>4 DEF ClientInv
  <1>6. Relies(c, client[c].since)'
    <2>1. CASE ClaimOn(s, o) = "firm"
      <3>1. Safe(s, o, 0)'
        BY <1>1, <2>1, OpenedSafe
      <3>2. client'[c].session = s /\ client'[c].since = 0
        BY <1>2, <1>3
      <3> QED BY <3>1, <3>2 DEF Relies
    <2>2. CASE ClaimOn(s, o) # "firm"
      BY <1>2, <1>3, <2>2 DEF Relies
    <2> QED BY <2>1, <2>2
  <1>7. ASSUME NEW d \in Client \ {c} PROVE Relies(d, client[d].since)'
    <2>1. CASE view[d].claim = "firm"
      <3>1. client'[d] = client[d] /\ client[d].claim = "firm"
        BY <1>4, <2>1
      <3>2. ASSUME NEW t \in Session, NEW w \in Owner, NEW n \in Nat,
                   t = client[d].session, w = ClientOwner[d], Safe(t, w, n)
            PROVE  Safe(t, w, n)'
        <4>1. \/ Acquire(p, s, o)
              \/ Takeover(p, s, o) /\ (s # t \/ o = w)
          BY <2>1, <3>2
        <4> HIDE DEF o, p
        <4> QED BY <1>1, <3>2, <4>1, RequestSafe
      <3> QED BY <3>1, <3>2, OthersRely
    <2>2. CASE view[d].claim # "firm"
      BY <1>4, <2>2 DEF Relies
    <2> QED BY <2>1, <2>2
  <1> QED BY <1>1, <1>3, <1>5, <1>6, <1>7 DEF ClientInv, ClientsTypeOK

LEMMA OpenKeeps ==
    ASSUME ClientInv, RunInv', NoStaleDeferral', NEW c \in Client, NEW s \in Session,
           OpenSession(c, s) \/ TakeOver(c, s) \/ (RenewOpen(c) /\ s = client[c].session)
    PROVE  ClientInv'
  <1>1. CASE OpenSession(c, s) \/ (RenewOpen(c) /\ s = client[c].session)
    <2>1. /\ Acquire(ClientProc[c], s, ClientOwner[c])
          /\ client' = [client EXCEPT ![c] = Opened(c, s)]
          /\ client \in [Client -> View]
      BY <1>1 DEF OpenSession, RenewOpen, ClientInv, ClientsTypeOK
    <2> QED BY <2>1, OpenedKeeps
  <1>2. CASE TakeOver(c, s)
    <2> DEFINE view == Weakened(client, s, Owner \ {ClientOwner[c]})
    <2>1. /\ Takeover(ClientProc[c], s, ClientOwner[c])
          /\ client' = [view EXCEPT ![c] = Opened(c, s)]
      BY <1>2 DEF TakeOver
    <2>2. ClientsTypeOK
      BY DEF ClientInv
    <2>3. view \in [Client -> View]
      BY <2>2, WeakenedView DEF Weakened
    <2>4. \A d \in Client \ {c} :
              /\ view[d].at = client[d].at
              /\ view[d].claim = "firm" =>
                    /\ view[d] = client[d]
                    /\ \/ Acquire(ClientProc[c], s, ClientOwner[c])
                       \/ client[d].session # s \/ ClientOwner[d] = ClientOwner[c]
      BY <2>2, WeakenedView, ClientAssumption
    <2> HIDE DEF view
    <2> QED BY <2>1, <2>3, <2>4, OpenedKeeps
  <1> QED BY <1>1, <1>2

\* A reservation is given up, by a client or by a process that shuts down.
LEMMA GivenUpKeeps ==
    ASSUME ClientInv, RunInv', NoStaleDeferral', NEW s \in Session, NEW o \in Owner,
           NEW p \in Proc,
           Release(p, s, o) \/ (CloseRelease(p, s) /\ held[p][s] = o),
           client' \in [Client -> View],
           \A d \in Client : client'[d].claim = "firm" =>
              client'[d] = Weakened(client, s, {o})[d]
    PROVE  ClientInv'
  <1>1. TypeOK /\ TypeOK' /\ ClientsTypeOK
    BY DEF ClientInv, RunInv
  <1>2. ASSUME NEW d \in Client, client'[d].claim = "firm"
        PROVE  /\ client'[d] = client[d] /\ client[d].at = "open"
               /\ client[d].session # s \/ ClientOwner[d] # o
    BY <1>1, <1>2, WeakenedView DEF ClientInv
  <1>3. ASSUME NEW d \in Client PROVE Relies(d, client[d].since)'
    <2>1. CASE client'[d].claim = "firm"
      <3>1. client'[d] = client[d] /\ (client[d].session # s \/ ClientOwner[d] # o)
        BY <1>2, <2>1
      <3>2. ASSUME NEW t \in Session, NEW w \in Owner, NEW n \in Nat,
                   t = client[d].session, w = ClientOwner[d], Safe(t, w, n)
            PROVE  Safe(t, w, n)'
        <4>1. s # t \/ o # w
          BY <3>1, <3>2
        <4> QED BY <1>1, <3>2, <4>1, RequestSafe, CloseReleaseSafe
      <3> QED BY <3>1, <3>2, OthersRely
    <2>2. CASE client'[d].claim # "firm"
      BY <2>2 DEF Relies
    <2> QED BY <2>1, <2>2
  <1> QED BY <1>1, <1>2, <1>3 DEF ClientInv, ClientsTypeOK

\* Client c stops relying on its session without a word to its process.
LEMMA AloneKeeps ==
    ASSUME ClientInv, RunInv', NoStaleDeferral', NEW c \in Client,
           LoseSession(c) \/ Disappear(c)
    PROVE  ClientInv'
  <1>1. TypeOK' /\ client[c] \in View
    BY DEF ClientInv, RunInv, ClientsTypeOK
  <1>2. UNCHANGED vars
    BY DEF LoseSession, Disappear
  <1>3. /\ client' \in [Client -> View] /\ client'[c].claim = "none"
        /\ \A d \in Client \ {c} : client'[d] = client[d]
    <2>1. CASE LoseSession(c)
      <3>1. /\ [client[c] EXCEPT !.at = "lost", !.claim = "none"] \in View
            /\ [client[c] EXCEPT !.at = "lost", !.claim = "none"].claim = "none"
        <4>1. client[c].at # "away"
          BY <2>1 DEF LoseSession
        <4> QED BY <1>1, <4>1, ViewFacts DEF View, Away
      <3>2. client' = [client EXCEPT ![c] = [client[c] EXCEPT !.at = "lost", !.claim = "none"]]
        BY <2>1 DEF LoseSession, ClientInv, ClientsTypeOK
      <3> QED BY <3>1, <3>2 DEF ClientInv, ClientsTypeOK
    <2>2. CASE Disappear(c)
      BY <2>2 DEF Disappear, ClientInv, ClientsTypeOK, View, Away
    <2> QED BY <2>1, <2>2
  <1>4. \A s \in Session, o \in Owner, n \in Nat : Safe(s, o, n) => Safe(s, o, n)'
    BY <1>2 DEF Safe, Doomed, vars
  <1>5. ASSUME NEW d \in Client PROVE Relies(d, client[d].since)'
    <2>1. CASE d = c
      BY <1>3, <2>1 DEF Relies
    <2>2. CASE d # c
      BY <1>3, <1>4, <2>2, OthersRely
    <2> QED BY <2>1, <2>2
  <1> QED BY <1>1, <1>3, <1>5 DEF ClientInv, ClientsTypeOK

\* Time passes for the leases and for what the clients think of them.
LEMMA TimeKeeps ==
    ASSUME ClientInv, RunInv', NoStaleDeferral', TimePasses
    PROVE  ClientInv'
  <1>1. TypeOK /\ TypeOK' /\ client \in [Client -> View]
    BY DEF ClientInv, RunInv, ClientsTypeOK
  <1>2. ASSUME NEW d \in Client
        PROVE  /\ client'[d] \in View
               /\ client'[d].claim = "firm" => client'[d].at = "open"
               /\ Relies(d, client[d].since)'
    <2>0. client[d] \in View
      BY <1>1
    <2>1. CASE client[d].at = "open" /\ client[d].since < LeaseTTL
      <3>1. client'[d] = [client[d] EXCEPT !.since = client[d].since + 1]
        BY <2>1 DEF TimePasses
      <3>2. /\ client'[d] \in View /\ client'[d].at = "open"
            /\ client'[d].claim = client[d].claim /\ client'[d].session = client[d].session
            /\ client'[d].since = client[d].since + 1
        <4>1. client'[d] \in View
          BY <2>0, <2>1, <3>1, ViewFacts
        <4>2. client[d] \in [at : {"open", "lost"}, session : Session,
                             since : 0..LeaseTTL, claim : {"none", "shared", "firm"}]
          BY <2>0, <2>1 DEF View, Away
        <4> QED BY <2>1, <3>1, <4>1, <4>2
      <3>3. ASSUME client'[d].claim = "firm", client'[d].since < LeaseTTL
            PROVE  Safe(client[d].session, ClientOwner[d], client[d].since)'
        <4>1. /\ client[d].session \in Session /\ ClientOwner[d] \in Owner
              /\ client[d].since \in 0..LeaseTTL
          BY <2>0, <2>1, ViewFacts, ClientAssumption
        <4>2. client[d].since \in Nat
          BY <4>1, TimeAssumption
        <4>3. Safe(client[d].session, ClientOwner[d], client[d].since)
          BY <2>1, <3>2, <3>3 DEF ClientInv, Relies
        <4>4. \A s \in Session, o \in Owner, n \in Nat :
                  Safe(s, o, n) /\ n + 1 < LeaseTTL => Safe(s, o, n + 1)'
          BY <1>1, TickSafe DEF TimePasses
        <4>5. client[d].since + 1 < LeaseTTL
          BY <3>2, <3>3
        <4>6. \A s, o, n : s = client'[d].session /\ n = client'[d].since /\ o = ClientOwner[d]
                 /\ Safe(s, o, n)' => Safe(client[d].session, ClientOwner[d], client[d].since)'
          BY DEF Safe, Doomed
        <4> QED BY <3>2, <4>1, <4>2, <4>3, <4>4, <4>5, <4>6
      <3>4. Relies(d, client[d].since)'
        BY <3>3 DEF Relies
      <3> QED BY <2>1, <3>2, <3>4
    <2>2. CASE ~(client[d].at = "open" /\ client[d].since < LeaseTTL)
      <3>1. client'[d] = client[d]
        BY <2>2 DEF TimePasses
      <3>2. client[d].claim = "firm" => client[d].at = "open"
        BY DEF ClientInv
      <3> QED BY <2>0, <2>2, <3>1, <3>2 DEF Relies
    <2> QED BY <2>1, <2>2
  <1>3. client' \in [Client -> View]
    BY <1>2 DEF TimePasses
  <1> QED BY <1>1, <1>2, <1>3 DEF ClientInv, ClientsTypeOK

\* What the processes do, the clients do not see.
LEMMA UnseenKeeps ==
    ASSUME ClientInv, RunInv', NoStaleDeferral', client' = client,
           \A s \in Session, o \in Owner, n \in Nat : Safe(s, o, n) => Safe(s, o, n)'
    PROVE  ClientInv'
  <1>1. TypeOK'
    BY DEF RunInv
  <1>2. \A d \in Client : Relies(d, client[d].since)'
    BY OthersRely
  <1> QED BY <1>1, <1>2 DEF ClientInv, ClientsTypeOK

LEMMA NextClientInv == ClientInv /\ [NextClients]_clientVars => ClientInv'
  <1> SUFFICES ASSUME ClientInv, [NextClients]_clientVars PROVE ClientInv'
    OBVIOUS
  <1>0. TypeOK /\ HoldCallUnpinned /\ NoStaleDeferral /\ ClientsTypeOK
    BY DEF ClientInv, RunInv
  <1>1. RunInv' /\ NoStaleDeferral'
    <2>1. [Next]_vars
      BY <1>0, StepOfLeases
    <2>2. RunInv'
      BY <2>1, NextRunInv DEF ClientInv
    <2>3. TypeOK'
      BY <2>2 DEF RunInv
    <2> QED BY <1>0, <2>1, <2>2, <2>3, NextNoStaleDeferral
  <1>2. ASSUME NEW c \in Client, NEW s \in Session, OpenSession(c, s) \/ TakeOver(c, s)
        PROVE  ClientInv'
    BY <1>1, <1>2, OpenKeeps
  <1>3. ASSUME NEW c \in Client, RenewOpen(c)
        PROVE  ClientInv'
    <2>1. client[c].session \in Session
      BY <1>0, <1>3, ViewFacts DEF RenewOpen, ClientsTypeOK
    <2> QED BY <1>1, <1>3, <2>1, OpenKeeps
  <1>4. ASSUME NEW c \in Client, CloseSession(c)
        PROVE  ClientInv'
    <2>1. client[c].session \in Session /\ ClientOwner[c] \in Owner /\ ClientProc[c] \in Proc
      BY <1>0, <1>4, ViewFacts, ClientAssumption DEF CloseSession, ClientsTypeOK
    <2> DEFINE view == Weakened(client, client[c].session, {ClientOwner[c]})
    <2>2. /\ Release(ClientProc[c], client[c].session, ClientOwner[c])
          /\ client' = [view EXCEPT ![c] = Away]
      BY <1>4 DEF CloseSession
    <2>3. view \in [Client -> View]
      BY <1>0, WeakenedView DEF Weakened
    <2>4. Away \in View /\ Away.claim = "none"
      BY DEF View, Away
    <2> HIDE DEF view
    <2>5. /\ client' \in [Client -> View]
          /\ \A d \in Client : client'[d].claim = "firm" => client'[d] = view[d]
      BY <2>2, <2>3, <2>4
    <2> USE DEF view
    <2> QED BY <1>1, <2>1, <2>2, <2>5, GivenUpKeeps
  <1>5. ASSUME NEW c \in Client, LoseSession(c) \/ Disappear(c)
        PROVE  ClientInv'
    BY <1>1, <1>5, AloneKeeps
  <1>6. ASSUME NEW p \in Proc, NEW s \in Session, NEW o \in Owner, StartWork(p, s, o)
        PROVE  ClientInv'
    BY <1>0, <1>1, <1>6, WorkSafe, UnseenKeeps DEF StartWork
  <1>7. ASSUME NEW p \in Proc, NEW s \in Session, CloseReleaseSeen(p, s)
        PROVE  ClientInv'
    <2>1. CloseRelease(p, s) /\ client' = Weakened(client, s, {held[p][s]})
      BY <1>7 DEF CloseReleaseSeen
    <2>2. held[p][s] \in Owner
      BY <1>0, <2>1 DEF CloseRelease, TypeOK
    <2>3. Weakened(client, s, {held[p][s]}) \in [Client -> View]
      <3>1. \A d \in Client : Weakened(client, s, {held[p][s]})[d] \in View
        BY <1>0, WeakenedView
      <3> QED BY <3>1 DEF Weakened
    <2> QED BY <1>1, <2>1, <2>2, <2>3, GivenUpKeeps
  <1>8. ASSUME NEW p \in Proc, InnerStep(p) PROVE ClientInv'
    <2>1. client' = client
      BY <1>8 DEF InnerStep
    <2>2. \A s \in Session, o \in Owner, n \in Nat : Safe(s, o, n) => Safe(s, o, n)'
      BY <1>0, <1>8, CallSafe, WorkSafe DEF InnerStep
    <2> QED BY <1>1, <2>1, <2>2, UnseenKeeps
  <1>9. ASSUME NEW p \in Proc, ProcessEvent(p) PROVE ClientInv'
    <2>1. client' = client
      BY <1>9 DEF ProcessEvent
    <2>2. \A s \in Session, o \in Owner, n \in Nat : Safe(s, o, n) => Safe(s, o, n)'
      BY <1>0, <1>9, CallSafe, WorkSafe DEF ProcessEvent
    <2> QED BY <1>1, <2>1, <2>2, UnseenKeeps
  <1>10. CASE TimePasses
    BY <1>1, <1>10, TimeKeeps
  <1>11. CASE UNCHANGED clientVars
    <2>1. client' = client /\ UNCHANGED vars
      BY <1>11 DEF clientVars
    <2>2. \A s \in Session, o \in Owner, n \in Nat : Safe(s, o, n) => Safe(s, o, n)'
      BY <2>1 DEF Safe, Doomed, vars
    <2> QED BY <1>1, <2>1, <2>2, UnseenKeeps
  <1> QED BY <1>2, <1>3, <1>4, <1>5, <1>6, <1>7, <1>8, <1>9, <1>10, <1>11 DEF NextClients

LEMMA InitClientInv == InitClients => ClientInv
  <1> SUFFICES ASSUME InitClients PROVE ClientInv
    OBVIOUS
  <1>1. RunInv
    BY InitRunInv DEF InitClients
  <1>2. client \in [Client -> View] /\ \A d \in Client : client[d].claim = "none"
    BY DEF InitClients, View, Away
  <1>3. NoStaleDeferral
    BY DEF InitClients, Init, NoStaleDeferral
  <1> QED BY <1>1, <1>2, <1>3 DEF ClientInv, ClientsTypeOK, RunInv, Relies

LEMMA ClientInvKeepsSession == ClientInv => FirmClientKeepsSession
  BY DEF ClientInv, Relies, Safe, FirmClientKeepsSession

\* What is known of the leases holds with clients on top of them.
THEOREM ClientsUseLeases == SpecClients => Spec
  <1>1. ClientInv => ClientsTypeOK
    BY DEF ClientInv
  <1>2. InitClients => Init
    BY DEF InitClients
  <1> QED BY <1>1, <1>2, InitClientInv, NextClientInv, StepOfLeases, PTL DEF SpecClients, Spec

\* A client that opened a session and renews in time keeps it until its own
\* side gives it up or another owner takes it over, whatever the processes,
\* the other clients and their work do.
THEOREM KeepsSession == SpecClients => []FirmClientKeepsSession
  BY InitClientInv, NextClientInv, ClientInvKeepsSession, PTL DEF SpecClients

-----------------------------------------------------------------------------
(* Running work and its reservation, where one process serves everybody:    *)
(* a release or a takeover then goes through the process that runs the      *)
(* work, which puts it off or passes the work on.  The timer renews the     *)
(* lease and then the claim, so the clock of the claim may start again some  *)
(* ticks after the lease was renewed: at most MaxDelay - 1.                  *)


\* The lease of the work q runs in s, and how much of it the next renewal finds.
Lasts(q, s) ==
    Pinned(q, s) =>
        /\ leases[s].who = pinned[q][s].owner
        /\ leases[s].left + age[q][s] > LeaseTTL - MaxDelay
        /\ call[q].at = "renewClaim" /\ call[q].session = s =>
              leases[s].left + age[q][s] > LeaseTTL

\* The statements that delete leases run when the work is over.
EndUnpinned ==
    \A p \in Proc :
        /\ call[p].at = "closing" => \A s \in Session : ~Pinned(p, s)
        /\ call[p].at \in {"endRun", "endCreated", "endDeferred"} =>
              ~Pinned(p, call[p].session)

ReserveInv ==
    /\ RunInv
    /\ EndUnpinned
    /\ \A q \in Proc, s \in Session : Lasts(q, s)

OneProcess == \A p, q \in Proc : p = q
EarlyRenewal == MaxDelay > 0 /\ 2 * MaxDelay <= LeaseTTL

LEMMA PinnedOwner ==
    ASSUME TypeOK, NEW q \in Proc, NEW s \in Session
    PROVE  /\ Pinned(q, s) => pinned[q][s].owner \in Owner /\ pinned[q][s].owner # None
           /\ age[q][s] \in 0..MaxDelay
           /\ leases[s] \in Row(Owner)
  <1>1. pinned[q][s] \in Pin /\ age[q][s] \in 0..MaxDelay /\ leases[s] \in Row(Owner)
    BY DEF TypeOK
  <1> QED BY <1>1, PinFacts DEF Pinned

\* A row that has just been written for the owner of the work.
LEMMA FreshLasts ==
    ASSUME TypeOK', EarlyRenewal, NEW q \in Proc, NEW s \in Session,
           leases'[s] = Fresh(pinned'[q][s].owner),
           call'[q].at = "renewClaim" => age'[q][s] > 0
    PROVE  Lasts(q, s)'
  <1>1. age'[q][s] \in 0..MaxDelay
    BY DEF TypeOK
  <1>2. leases'[s].who = pinned'[q][s].owner /\ leases'[s].left = LeaseTTL
    BY DEF Fresh
  <1> QED BY <1>1, <1>2, TimeAssumption DEF Lasts, EarlyRenewal

\* A step that leaves row, pin and age alone and begins no renewal of s.
LEMMA SameLasts ==
    ASSUME NEW q \in Proc, NEW s \in Session, Lasts(q, s),
           leases'[s] = leases[s], pinned'[q][s].owner = pinned[q][s].owner,
           age'[q][s] = age[q][s],
           call'[q].at = "renewClaim" => call'[q] = call[q]
    PROVE  Lasts(q, s)'
  BY DEF Lasts, Pinned

LEMMA RequestLasts ==
    ASSUME OneProcess, EarlyRenewal, ReserveInv, TypeOK', NEW q \in Proc, NEW s \in Session,
           NEW p \in Proc, NEW t \in Session, NEW o \in Owner, ClientRequest(p, t, o)
    PROVE  Lasts(q, s)'
  <1>1. /\ p = q /\ call[q] = Idle /\ UNCHANGED <<call, age>> /\ TypeOK
        /\ Lasts(q, s)
    BY DEF OneProcess, ClientRequest, Acquire, Takeover, Release, Ready, ReserveInv, RunInv
  <1>2. call'[q].at # "renewClaim"
    BY <1>1 DEF Idle
  <1>3. CASE Acquire(p, t, o)
    <2>1. CASE t = s /\ Pinned(q, s)
      <3>1. o = pinned[q][s].owner
        BY <1>1, <1>3, <2>1, PinnedOwner DEF Acquire, MayTake, Lasts
      <3>2. leases'[s] = Fresh(pinned'[q][s].owner)
        BY <1>1, <1>3, <2>1, <3>1 DEF Acquire, AcquireEffect, TypeOK
      <3> QED BY <1>2, <3>2, FreshLasts
    <2>2. CASE t # s
      BY <1>1, <1>2, <1>3, <2>2, SameLasts DEF Acquire, AcquireEffect, TypeOK
    <2>3. CASE ~Pinned(q, s)
      BY <1>3, <2>3 DEF Acquire, Lasts, Pinned
    <2> QED BY <2>1, <2>2, <2>3
  <1>4. CASE Takeover(p, t, o)
    <2>1. CASE t = s /\ Pinned(q, s)
      <3>1. pinned'[q][s].owner = o
        <4>1. pinned[q][s] \in Pin
          BY <1>1 DEF TypeOK
        <4>2. [pinned[q][s] EXCEPT !.owner = o].owner = o
          BY <4>1 DEF Pin, NoPin
        <4> QED BY <1>1, <1>4, <2>1, <4>2 DEF Takeover, TypeOK
      <3>2. leases'[s] = Fresh(pinned'[q][s].owner)
        BY <1>1, <1>4, <2>1, <3>1 DEF Takeover, TypeOK
      <3> QED BY <1>2, <3>2, FreshLasts
    <2>2. CASE t # s
      <3>1. leases'[s] = leases[s]
        BY <1>1, <1>4, <2>2 DEF Takeover, TypeOK
      <3>2. pinned'[q][s] = pinned[q][s]
        <4>1. CASE Pinned(p, t)
          BY <1>1, <1>4, <2>2, <4>1 DEF Takeover, TypeOK
        <4>2. CASE ~Pinned(p, t)
          BY <1>4, <4>2 DEF Takeover
        <4> QED BY <4>1, <4>2
      <3> QED BY <1>1, <1>2, <3>1, <3>2, SameLasts
    <2>3. CASE t = s /\ ~Pinned(q, s)
      BY <1>1, <1>4, <2>3 DEF Takeover, Lasts, Pinned
    <2> QED BY <2>1, <2>2, <2>3
  <1>5. CASE Release(p, t, o)
    <2>1. CASE Pinned(q, s)
      <3>1. leases'[s] = leases[s]
        <4>1. CASE pinned[p][t].owner = o
          BY <1>5, <4>1 DEF Release
        <4>2. CASE pinned[p][t].owner # o
          BY <1>1, <1>5, <2>1, <4>2 DEF Release, ReleaseEffect, Without, Lasts, TypeOK
        <4> QED BY <4>1, <4>2
      <3> QED BY <1>1, <1>2, <1>5, <3>1, SameLasts DEF Release
    <2>2. CASE ~Pinned(q, s)
      BY <1>5, <2>2 DEF Release, Lasts, Pinned
    <2> QED BY <2>1, <2>2
  <1> QED BY <1>3, <1>4, <1>5 DEF ClientRequest

LEMMA WorkLasts ==
    ASSUME OneProcess, EarlyRenewal, ReserveInv, TypeOK', NEW q \in Proc, NEW s \in Session,
           NEW p \in Proc, NEW t \in Session, NEW o \in Owner,
           WorkStarts(p, t, o) \/ WorkEnds(p, t) \/ RenewLease(p, t)
    PROVE  Lasts(q, s)'
  <1>1. p = q /\ call[q] = Idle /\ age' = age /\ TypeOK /\ Lasts(q, s)
    BY DEF OneProcess, ReserveInv, RunInv, WorkStarts, WorkEnds, JoinHold, BeginHold,
           EndInnerHold, EndHold, RenewLease, Ready
  <1>2. CASE JoinHold(p, t, o) \/ EndInnerHold(p, t)
    <2>1. leases' = leases /\ call' = call /\ call'[q].at # "renewClaim"
      BY <1>1, <1>2 DEF JoinHold, EndInnerHold, tables, Idle
    <2>2. pinned'[q][s].owner = pinned[q][s].owner
      <3>1. pinned[p][t] \in Pin
        BY <1>1 DEF TypeOK
      <3>2. PICK m : pinned' = [pinned EXCEPT ![p][t].count = m]
        BY <1>2 DEF JoinHold, EndInnerHold
      <3>3. pinned' = [pinned EXCEPT ![p][t] = [pinned[p][t] EXCEPT !.count = m]]
        BY <1>1, <3>2 DEF TypeOK
      <3>4. [pinned[p][t] EXCEPT !.count = m].owner = pinned[p][t].owner
        BY <3>1 DEF Pin, NoPin
      <3> QED BY <1>1, <3>3, <3>4 DEF TypeOK
    <2> QED BY <1>1, <2>1, <2>2, SameLasts
  <1>3. CASE BeginHold(p, t, o)
    <2>1. leases' = leases /\ pinned' = pinned /\ call'[q].at = "claim"
      BY <1>1, <1>3 DEF BeginHold, tables, memory, TypeOK
    <2> QED BY <1>1, <2>1, SameLasts
  <1>4. CASE EndHold(p, t)
    <2>1. leases' = leases /\ call'[q].at = "endRun"
      BY <1>1, <1>4 DEF EndHold, tables, TypeOK
    <2>2. CASE t = s
      BY <1>1, <1>4, <2>2 DEF EndHold, Lasts, Pinned, NoPin, TypeOK
    <2>3. CASE t # s
      <3>1. pinned'[q][s] = pinned[q][s]
        BY <1>1, <1>4, <2>3 DEF EndHold, TypeOK
      <3> QED BY <1>1, <2>1, <3>1, SameLasts
    <2> QED BY <2>2, <2>3
  <1>5. CASE RenewLease(p, t)
    <2>1. /\ pinned' = pinned /\ Pinned(q, t) /\ age[q][t] > 0
          /\ call'[q].session = t
          /\ leases[t].who = pinned[q][t].owner
      BY <1>1, <1>5 DEF RenewLease, TypeOK, ReserveInv, Lasts
    <2>2. AcquireEffect(q, t, pinned[q][t].owner)
      BY <1>1, <1>5, <2>1 DEF RenewLease, MayTake
    <2>3. CASE t = s
      BY <1>1, <2>1, <2>2, <2>3, FreshLasts DEF AcquireEffect, TypeOK
    <2>4. CASE t # s
      <3>1. leases'[s] = leases[s]
        BY <1>1, <2>2, <2>4 DEF AcquireEffect, TypeOK
      <3> QED BY <1>1, <2>1, <2>4, <3>1 DEF Lasts, Pinned
    <2> QED BY <2>3, <2>4
  <1> QED BY <1>2, <1>3, <1>4, <1>5 DEF WorkStarts, WorkEnds

LEMMA CallLasts ==
    ASSUME OneProcess, EarlyRenewal, ReserveInv, TypeOK', NEW q \in Proc, NEW s \in Session,
           NEW p \in Proc, CallStep(p) \/ Close(p) \/ Crash(p) \/ Restart(p)
    PROVE  Lasts(q, s)'
  <1>1. p = q /\ TypeOK /\ Lasts(q, s) /\ call[q] \in Call
    BY DEF OneProcess, ReserveInv, RunInv, TypeOK
  <1>2. CASE HoldClaimRun(p)
    <2>1. /\ ~Pinned(q, call[q].session) /\ leases' = leases /\ pinned' = pinned
          /\ \A u \in Session : u # call[q].session => age'[q][u] = age[q][u]
      BY <1>1, <1>2 DEF HoldClaimRun, memory, TypeOK, ReserveInv, RunInv, HoldCallUnpinned
    <2>2. call'[q].at # "renewClaim"
      BY <1>1, <1>2 DEF HoldClaimRun, Idle, TypeOK, Call
    <2>3. CASE s = call[q].session
      BY <2>1, <2>3 DEF Lasts, Pinned
    <2>4. CASE s # call[q].session
      BY <1>1, <2>1, <2>2, <2>4, SameLasts
    <2> QED BY <2>3, <2>4
  <1>3. CASE HoldAcquire(p)
    <2>1. /\ call[q].at = "acquire" /\ call[q].session \in Session /\ call[q].owner \in Owner
          /\ age' = age
      BY <1>1, <1>3, CallFacts DEF HoldAcquire
    <2>2. CASE MayTake(leases[call[q].session], call[q].owner)
      <3>1. /\ AcquireEffect(q, call[q].session, call[q].owner)
            /\ pinned' = [pinned EXCEPT ![q][call[q].session] =
                            [owner |-> call[q].owner, count |-> 1,
                             createdBy |-> call[q].createdBy]]
            /\ call'[q] = Idle
        BY <1>1, <1>3, <2>2 DEF HoldAcquire, TypeOK
      <3>2. call'[q].at # "renewClaim"
        BY <3>1 DEF Idle
      <3>3. CASE s = call[q].session
        <4>1. leases'[s] = Fresh(pinned'[q][s].owner)
          BY <1>1, <2>1, <3>1, <3>3 DEF AcquireEffect, TypeOK
        <4> QED BY <3>2, <4>1, FreshLasts
      <3>4. CASE s # call[q].session
        <4>1. leases'[s] = leases[s] /\ pinned'[q][s] = pinned[q][s]
          BY <1>1, <2>1, <3>1, <3>4 DEF AcquireEffect, TypeOK
        <4> QED BY <1>1, <2>1, <3>2, <4>1, SameLasts
      <3> QED BY <3>3, <3>4
    <2>3. CASE ~MayTake(leases[call[q].session], call[q].owner)
      <3>1. leases' = leases /\ pinned' = pinned /\ call'[q].at # "renewClaim"
        BY <1>1, <1>3, <2>1, <2>3 DEF HoldAcquire, memory, TypeOK, Call, Idle
      <3> QED BY <1>1, <2>1, <3>1, SameLasts
    <2> QED BY <2>2, <2>3
  <1>4. CASE HoldUnclaim(p) \/ EndReleaseRun(p)
    <2>1. leases' = leases /\ pinned' = pinned /\ age' = age
      BY <1>4 DEF HoldUnclaim, EndReleaseRun, memory
    <2>2. call'[q].at # "renewClaim"
      BY <1>1, <1>4 DEF HoldUnclaim, EndReleaseRun, Idle, TypeOK, Call
    <2> QED BY <1>1, <2>1, <2>2, SameLasts
  <1>5. CASE RenewClaim(p)
    <2>1. /\ leases' = leases /\ pinned' = pinned /\ call'[q] = Idle
          /\ call[q].at = "renewClaim"
          /\ \A u \in Session : u # call[q].session => age'[q][u] = age[q][u]
      BY <1>1, <1>5 DEF RenewClaim, memory, TypeOK
    <2>2. call'[q].at # "renewClaim"
      BY <2>1 DEF Idle
    <2>3. CASE s = call[q].session /\ Pinned(q, s)
      <3>1. /\ leases[s].who = pinned[q][s].owner
            /\ leases[s].left + age[q][s] > LeaseTTL
            /\ age[q][s] \in 0..MaxDelay /\ age'[q][s] \in 0..MaxDelay
            /\ leases[s] \in Row(Owner)
        BY <1>1, <2>1, <2>3, PinnedOwner DEF Lasts, TypeOK
      <3>2. leases[s].left \in 0..LeaseTTL
        BY <3>1, TimeAssumption DEF Row, NoRow
      <3>3. leases[s].left + age'[q][s] > LeaseTTL - MaxDelay
        BY <3>1, <3>2, TimeAssumption
      <3> QED BY <2>1, <2>2, <3>1, <3>3 DEF Lasts
    <2>4. CASE s = call[q].session /\ ~Pinned(q, s)
      BY <2>1, <2>4 DEF Lasts, Pinned
    <2>5. CASE s # call[q].session
      BY <1>1, <2>1, <2>2, <2>5, SameLasts
    <2> QED BY <2>3, <2>4, <2>5
  <1>6. CASE EndReleaseCreated(p) \/ EndReleaseDeferred(p)
    <2>1. /\ ~Pinned(q, call[q].session) /\ pinned' = pinned /\ age' = age
      BY <1>1, <1>6 DEF EndReleaseCreated, EndReleaseDeferred, ReserveInv, EndUnpinned
    <2>2. call'[q].at # "renewClaim"
      BY <1>1, <1>6 DEF EndReleaseCreated, EndReleaseDeferred, Idle, TypeOK, Call
    <2>3. CASE s = call[q].session
      BY <2>1, <2>3 DEF Lasts, Pinned
    <2>4. CASE s # call[q].session
      <3>1. leases'[s] = leases[s]
        BY <1>1, <1>6, <2>4 DEF EndReleaseCreated, EndReleaseDeferred, ReleaseEffect, Without,
                                TypeOK
      <3> QED BY <1>1, <2>1, <2>2, <3>1, SameLasts
    <2> QED BY <2>3, <2>4
  <1>7. CASE CloseDone(p) \/ Crash(p) \/ Close(p)
    BY <1>1, <1>7 DEF CloseDone, Crash, Vanish, Close, Lasts, Pinned, NoPin, TypeOK
  <1>8. CASE \E t \in Session : CloseRelease(p, t)
    BY <1>1, <1>8 DEF CloseRelease, Lasts, Pinned, ReserveInv, EndUnpinned
  <1>9. CASE Restart(p)
    BY <1>1, <1>9 DEF Restart, Lasts, Pinned, tables, memory
  <1> QED BY <1>2, <1>3, <1>4, <1>5, <1>6, <1>7, <1>8, <1>9 DEF CallStep

LEMMA TickLasts ==
    ASSUME OneProcess, EarlyRenewal, ReserveInv, TypeOK', NEW q \in Proc, NEW s \in Session,
           Tick
    PROVE  Lasts(q, s)'
  <1>1. pinned' = pinned /\ call' = call /\ TypeOK
    BY DEF Tick, memory, ReserveInv, RunInv
  <1>2. CASE Pinned(q, s)
    <2>1. /\ leases[s].who = pinned[q][s].owner /\ leases[s].who # None
          /\ leases[s].left + age[q][s] > LeaseTTL - MaxDelay
          /\ call[q].at = "renewClaim" /\ call[q].session = s =>
                leases[s].left + age[q][s] > LeaseTTL
          /\ age[q][s] \in 0..MaxDelay /\ age[q][s] < MaxDelay
          /\ leases[s] \in Row(Owner)
      BY <1>1, <1>2, PinnedOwner DEF ReserveInv, Lasts, Tick, Claiming
    <2>2. leases[s].left \in 2..LeaseTTL
      BY <2>1, TimeAssumption DEF Row, NoRow, EarlyRenewal
    <2>3. leases'[s] = OneTickOlder(leases[s]) /\ age'[q][s] = age[q][s] + 1
      BY <1>2 DEF Tick, Claiming
    <2>4. leases'[s].who = leases[s].who /\ leases'[s].left = leases[s].left - 1
      BY <2>1, <2>2, <2>3 DEF OneTickOlder, Row, NoRow
    <2>5. leases'[s].left + age'[q][s] = leases[s].left + age[q][s]
      BY <2>1, <2>2, <2>3, <2>4, TimeAssumption
    <2> QED BY <1>1, <2>1, <2>4, <2>5 DEF Lasts
  <1>3. CASE ~Pinned(q, s)
    BY <1>1, <1>3 DEF Lasts, Pinned
  <1> QED BY <1>2, <1>3

\* A call that deletes leases begins where the last pin goes, and while it
\* lasts its process begins no work.
LEMMA NextEndUnpinned ==
    ASSUME TypeOK, TypeOK', EndUnpinned, [Next]_vars
    PROVE  EndUnpinned'
  <1> DEFINE Ending == {"endRun", "endCreated", "endDeferred"}
             Over(q) == /\ call[q].at = "closing" => \A s \in Session : ~Pinned(q, s)
                        /\ call[q].at \in Ending => ~Pinned(q, call[q].session)
  <1> SUFFICES ASSUME NEW q \in Proc PROVE Over(q)'
    BY DEF EndUnpinned
  <1>0. Over(q) /\ call[q] \in Call
    BY DEF EndUnpinned, TypeOK
  <1>1. ASSUME call'[q] = call[q], \A s \in Session : Pinned(q, s)' => Pinned(q, s)
        PROVE  Over(q)'
    <2>1. call[q].at \in Ending => call[q].session \in Session
      BY <1>0, CallFacts
    <2> QED BY <1>0, <1>1, <2>1
  <1>2. ASSUME call'[q].at \notin Ending \cup {"closing"}
        PROVE  Over(q)'
    BY <1>2
  <1>3. ASSUME NEW p \in Proc, NEW s \in Session, NEW o \in Owner,
               ClientRequest(p, s, o)
        PROVE  Over(q)'
    <2>1. call' = call
      BY <1>3 DEF ClientRequest, Acquire, Takeover, Release
    <2>2. \A t \in Session : Pinned(q, t)' => Pinned(q, t)
      <3>1. CASE Acquire(p, s, o) \/ Release(p, s, o)
        BY <3>1 DEF Acquire, Release, Pinned
      <3>2. CASE Takeover(p, s, o)
        BY <3>2 DEF Takeover, Pinned, TypeOK
      <3> QED BY <1>3, <3>1, <3>2 DEF ClientRequest
    <2> QED BY <1>1, <2>1, <2>2
  <1>4. ASSUME NEW p \in Proc, NEW s \in Session, NEW o \in Owner,
               WorkStarts(p, s, o)
        PROVE  Over(q)'
    <2>1. CASE q = p
      <3>1. call'[q].at \in {"idle", "claim"}
        BY <1>4, <2>1 DEF WorkStarts, JoinHold, BeginHold, Ready, Idle, TypeOK
      <3> QED BY <1>2, <3>1
    <2>2. CASE q # p
      BY <1>1, <1>4, <2>2 DEF WorkStarts, JoinHold, BeginHold, Pinned, memory, TypeOK
    <2> QED BY <2>1, <2>2
  <1>5. ASSUME NEW p \in Proc, NEW s \in Session, RenewLease(p, s) \/ EndInnerHold(p, s)
        PROVE  Over(q)'
    <2>1. CASE q = p
      <3>1. call'[q].at \in {"idle", "renewClaim"}
        BY <1>5, <2>1 DEF RenewLease, EndInnerHold, Ready, Idle, TypeOK
      <3> QED BY <1>2, <3>1
    <2>2. CASE q # p
      BY <1>1, <1>5, <2>2 DEF RenewLease, EndInnerHold, Pinned, TypeOK
    <2> QED BY <2>1, <2>2
  <1>6. ASSUME NEW p \in Proc, NEW s \in Session, EndHold(p, s)
        PROVE  Over(q)'
    <2>1. CASE q = p
      <3>1. call'[q].at = "endRun" /\ call'[q].session = s /\ pinned'[q][s] = NoPin
        BY <1>6, <2>1 DEF EndHold, TypeOK
      <3> QED BY <3>1 DEF Pinned, NoPin
    <2>2. CASE q # p
      BY <1>1, <1>6, <2>2 DEF EndHold, Pinned, TypeOK
    <2> QED BY <2>1, <2>2
  <1>7. ASSUME NEW p \in Proc, CallStep(p) \/ Close(p) \/ Crash(p) \/ Restart(p)
        PROVE  Over(q)'
    <2>1. CASE q # p
      <3>1. call'[q] = call[q] /\ pinned'[q] = pinned[q]
        BY <1>7, <2>1 DEF CallStep, HoldClaimRun, HoldAcquire, HoldUnclaim, RenewClaim,
              EndReleaseRun, EndReleaseCreated, EndReleaseDeferred, CloseDone, Vanish,
              CloseRelease, Close, Crash, Restart, memory, TypeOK
      <3> QED BY <1>1, <3>1 DEF Pinned
    <2>2. CASE q = p /\ (HoldClaimRun(p) \/ HoldAcquire(p) \/ HoldUnclaim(p) \/ RenewClaim(p))
      <3>1. call'[q].at \in {"idle", "acquire", "unclaim"}
        BY <1>0, <2>2 DEF HoldClaimRun, HoldAcquire, HoldUnclaim, RenewClaim, Idle, Call, TypeOK
      <3> QED BY <1>2, <3>1
    <2>3. CASE q = p /\ (EndReleaseRun(p) \/ EndReleaseCreated(p) \/ EndReleaseDeferred(p))
      <3>1. /\ pinned' = pinned /\ call[q].at \in Ending
            /\ \/ call'[q].at = "idle"
               \/ call'[q].at \in Ending /\ call'[q].session = call[q].session
        BY <1>0, <2>3 DEF EndReleaseRun, EndReleaseCreated, EndReleaseDeferred, memory, Idle,
                          Call, TypeOK
      <3> QED BY <1>0, <3>1 DEF Pinned
    <2>4. CASE q = p /\ (CloseDone(p) \/ Close(p) \/ Crash(p))
      <3>1. call'[q].at \in {"idle", "closing"} /\ \A t \in Session : pinned'[q][t] = NoPin
        BY <2>4 DEF CloseDone, Crash, Vanish, Close, Idle, TypeOK
      <3> QED BY <3>1 DEF Pinned, NoPin
    <2>5. CASE q = p /\ (Restart(p) \/ \E s \in Session : CloseRelease(p, s))
      BY <1>1, <2>5 DEF Restart, CloseRelease, memory, Pinned
    <2> QED BY <1>7, <2>1, <2>2, <2>3, <2>4, <2>5 DEF CallStep
  <1>8. CASE Tick \/ UNCHANGED vars
    BY <1>1, <1>8 DEF Tick, vars, memory, Pinned
  <1> QED BY <1>3, <1>4, <1>5, <1>6, <1>7, <1>8 DEF Next, WorkEnds

LEMMA NextReserveInv ==
    OneProcess /\ EarlyRenewal /\ ReserveInv /\ [Next]_vars => ReserveInv'
  <1> SUFFICES ASSUME OneProcess, EarlyRenewal, ReserveInv, [Next]_vars PROVE ReserveInv'
    OBVIOUS
  <1>1. RunInv' /\ TypeOK /\ TypeOK'
    BY NextRunInv DEF ReserveInv, RunInv
  <1>2. EndUnpinned'
    BY <1>1, NextEndUnpinned DEF ReserveInv
  <1>3. ASSUME NEW q \in Proc, NEW s \in Session PROVE Lasts(q, s)'
    <2>1. CASE UNCHANGED vars
      BY <2>1 DEF vars, ReserveInv, Lasts, Pinned
    <2>2. ASSUME NEW p \in Proc, NEW t \in Session, RenewLease(p, t) \/ WorkEnds(p, t)
          PROVE  Lasts(q, s)'
      <3>1. CASE Owner = {}
        BY <2>2, <3>1, <1>1, PinnedOwner, PinFacts DEF RenewLease, WorkEnds, EndInnerHold,
                                        EndHold, Pinned, Pin, NoPin, TypeOK
      <3>2. CASE Owner # {}
        BY <1>1, <2>2, <3>2, WorkLasts
      <3> QED BY <3>1, <3>2
    <2> QED BY <1>1, <2>1, <2>2, RequestLasts, WorkLasts, CallLasts, TickLasts DEF Next
  <1> QED BY <1>1, <1>2, <1>3 DEF ReserveInv

LEMMA InitReserveInv == Init => ReserveInv
  <1> SUFFICES ASSUME Init PROVE ReserveInv
    OBVIOUS
  <1>1. RunInv
    BY InitRunInv
  <1> QED BY <1>1 DEF Init, ReserveInv, EndUnpinned, Lasts, Pinned, NoPin, Idle

LEMMA ReserveInvKeeps == ReserveInv => RunKeepsReservation
  BY DEF ReserveInv, Lasts, RunKeepsReservation

\* Where one process serves everybody and renews early enough, running work
\* keeps its session reserved for the owner it runs for until it ends.
THEOREM WorkKeepsReservation ==
    ASSUME OneProcess, EarlyRenewal
    PROVE  Spec => []RunKeepsReservation
  <1>1. Init => ReserveInv
    BY InitReserveInv
  <1>2. ReserveInv /\ [Next]_vars => ReserveInv'
    BY NextReserveInv
  <1> QED BY <1>1, <1>2, ReserveInvKeeps, PTL DEF Spec

\* The same with clients on top.
THEOREM ServedWorkKeepsReservation ==
    ASSUME OneProcess, EarlyRenewal
    PROVE  SpecClients => []RunKeepsReservation
  BY WorkKeepsReservation, ClientsUseLeases, PTL
=============================================================================
