--------------------------- MODULE SessionLeases ---------------------------
(***************************************************************************)
(* Session reservations (packages/core/src/sessions/SessionLeases.ts).     *)
(*                                                                         *)
(* Processes that share one SQLite file (the service and local terminals)  *)
(* keep two tables: `leases` says which client app may use a session,      *)
(* `runs` says which process runs work in it.  Every process also keeps    *)
(* memory of its own: the reservations it made (`held`), the sessions its  *)
(* running work pins (`pinned`) and the releases it put off until that     *)
(* work ends (`deferred`, the code's releaseWhenUnpinned).                 *)
(*                                                                         *)
(* One database statement is one step.  A JavaScript call that makes       *)
(* several of them is synchronous, so nothing else happens in its process  *)
(* between them, but the other processes and the clock move on: `call[p]`  *)
(* is where p is inside such a call.                                       *)
(*                                                                         *)
(* Time is counted in ticks.  A row carries the ticks it has left instead  *)
(* of the instant it expires, and an expired row is dropped at once: the   *)
(* code treats it like a missing one (acquire, ownedBy, assertAvailable).  *)
(***************************************************************************)
EXTENDS Integers, FiniteSets, Sequences

CONSTANTS
    Proc,       \* processes that open the lease file
    Session,    \* session ids
    Owner,      \* lease owners: "<device>.<app>"
    None,       \* no owner, no process, no session
    Gone,       \* the run token of any process that no longer exists
    LeaseTTL,   \* ticks a row lives without renewal (60 seconds)
    MaxDelay,   \* most ticks between two renewals of a run claim
    MaxHolds    \* bound: nested holds of one session in one process

ASSUME TimeAssumption ==
    /\ LeaseTTL \in Nat
    /\ MaxDelay \in Nat
    /\ MaxDelay < LeaseTTL
    /\ MaxHolds \in Nat \ {0}

ASSUME NamesAssumption ==
    /\ None \notin Proc \cup Session \cup Owner \cup {Gone}
    /\ Gone \notin Proc \cup Owner

VARIABLES
    leases,     \* session -> row: the owner it is reserved for
    runs,       \* session -> row: the process running work in it
    up,         \* process -> is it alive?
    held,       \* process -> session -> owner it reserved the session for
    pinned,     \* process -> session -> pin of its running work
    deferred,   \* process -> sessions to release when the work ends
    call,       \* process -> the call it is in the middle of
    age         \* process -> session -> ticks since it last claimed the run

tables == <<leases, runs>>
memory == <<held, pinned, deferred>>
vars   == <<leases, runs, up, held, pinned, deferred, call, age>>

-----------------------------------------------------------------------------
(* Rows, pins and calls. *)

NoRow == [who |-> None, left |-> 0]
Fresh(who) == [who |-> who, left |-> LeaseTTL]
Row(Who) == {NoRow} \cup [who : Who, left : 1..LeaseTTL]

\* The upsert's WHERE clause: our own row, or one that has expired.
MayTake(row, who) == row.who \in {who, None}

\* DELETE ... WHERE session_id = s AND owner (token) = who.
Without(table, s, who) ==
    IF table[s].who = who THEN [table EXCEPT ![s] = NoRow] ELSE table

\* Mutant: a row never loses its last tick.
NeverExpires(row) == IF row.left <= 1 THEN row ELSE [row EXCEPT !.left = @ - 1]

OneTickOlder(row) == IF row.left <= 1 THEN NoRow ELSE [row EXCEPT !.left = @ - 1]

\* The rows of a process that is gone: nobody has its token any more.
Orphaned(table, p) ==
    [s \in Session |-> IF table[s].who = p THEN [table[s] EXCEPT !.who = Gone]
                                            ELSE table[s]]

NoPin == [owner |-> None, count |-> 0, createdBy |-> None]
Pin == {NoPin} \cup
       [owner : Owner, count : 1..MaxHolds, createdBy : Owner \cup {None}]
Pinned(p, s) == pinned[p][s].owner # None

Idle == [at |-> "idle", session |-> None, owner |-> None, createdBy |-> None]
Call == {Idle} \cup
        [at : {"claim", "acquire", "unclaim"}, session : Session,
         owner : Owner, createdBy : Owner \cup {None}] \cup
        [at : {"renewClaim", "endRun", "endCreated", "endDeferred"},
         session : Session, owner : Owner \cup {None},
         createdBy : Owner \cup {None}] \cup
        {[Idle EXCEPT !.at = "closing"]}

Ready(p) == up[p] /\ call[p] = Idle

\* p is answerable for the run claim on s: it runs work there, or is in a
\* hold that has claimed it already.
Claiming(p, s) ==
    \/ Pinned(p, s)
    \/ call[p].at = "acquire" /\ call[p].session = s

Init ==
    /\ leases = [s \in Session |-> NoRow]
    /\ runs = [s \in Session |-> NoRow]
    /\ up = [p \in Proc |-> TRUE]
    /\ held = [p \in Proc |-> [s \in Session |-> None]]
    /\ pinned = [p \in Proc |-> [s \in Session |-> NoPin]]
    /\ deferred = [p \in Proc |-> {}]
    /\ call = [p \in Proc |-> Idle]
    /\ age = [p \in Proc |-> [s \in Session |-> 0]]

-----------------------------------------------------------------------------
(* A client's requests.  A request that finds the session busy throws and  *)
(* changes nothing.                                                        *)

\* The effects of acquire(s, o) when the upsert changes the row; it runs in
\* a process whose pin it may find, and then revokes a deferred release.
AcquireEffect(p, s, o) ==
    /\ leases' = [leases EXCEPT ![s] = Fresh(o)]
    /\ held' = [held EXCEPT ![p][s] = o]
    /\ deferred' = [deferred EXCEPT ![p] =
                      IF pinned[p][s].owner = o THEN @ \ {s} ELSE @]

Acquire(p, s, o) ==
    /\ Ready(p)
    /\ MayTake(leases[s], o)
    /\ AcquireEffect(p, s, o)
    /\ UNCHANGED <<runs, up, pinned, call, age>>

Takeover(p, s, o) ==
    /\ Ready(p)
    /\ leases' = [leases EXCEPT ![s] = Fresh(o)]
    /\ held' = [held EXCEPT ![p][s] = o]
    /\ deferred' = [deferred EXCEPT ![p] = @ \ {s}]
    /\ pinned' = IF Pinned(p, s) THEN [pinned EXCEPT ![p][s].owner = o] ELSE pinned
    /\ UNCHANGED <<runs, up, call, age>>

\* The statements of release(s, o) once the session is not pinned for o.
ReleaseEffect(p, s, o) ==
    /\ leases' = Without(leases, s, o)
    /\ held' = [held EXCEPT ![p][s] = IF @ = o THEN None ELSE @]

\* Mutant: a release does not look at running work.
ReleaseAtOnce(p, s, o) ==
    /\ Ready(p)
    /\ ReleaseEffect(p, s, o)
    /\ UNCHANGED <<deferred, runs, up, pinned, call, age>>

Release(p, s, o) ==
    /\ Ready(p)
    /\ IF pinned[p][s].owner = o
         THEN /\ deferred' = [deferred EXCEPT ![p] = @ \cup {s}]
              /\ UNCHANGED <<leases, held>>
         ELSE /\ ReleaseEffect(p, s, o)
              /\ UNCHANGED deferred
    /\ UNCHANGED <<runs, up, pinned, call, age>>

-----------------------------------------------------------------------------
(* hold: reserve a session for running work. *)

\* A hold inside a hold of the same owner.
JoinHold(p, s, o) ==
    /\ Ready(p)
    /\ pinned[p][s].owner = o
    /\ pinned[p][s].count < MaxHolds
    /\ pinned' = [pinned EXCEPT ![p][s].count = @ + 1]
    /\ UNCHANGED <<tables, up, held, deferred, call, age>>

\* Mutant: every hold takes the lease for one it created.
BeginHoldAsCreator(p, s, o) ==
    /\ Ready(p)
    /\ ~Pinned(p, s)
    /\ call' = [call EXCEPT ![p] =
                  [at |-> "claim", session |-> s, owner |-> o, createdBy |-> o]]
    /\ UNCHANGED <<tables, up, memory, age>>

\* ownedBy: does the owner have a live lease before the work starts?
BeginHold(p, s, o) ==
    /\ Ready(p)
    /\ ~Pinned(p, s)
    /\ call' = [call EXCEPT ![p] =
                  [at |-> "claim", session |-> s, owner |-> o,
                   createdBy |-> IF leases[s].who = o THEN None ELSE o]]
    /\ UNCHANGED <<tables, up, memory, age>>

\* Mutant: the claim's upsert has no WHERE clause.
HoldClaimRunAnyway(p) ==
    /\ call[p].at = "claim"
    /\ runs' = [runs EXCEPT ![call[p].session] = Fresh(p)]
    /\ call' = [call EXCEPT ![p].at = "acquire"]
    /\ age' = [age EXCEPT ![p][call[p].session] = 0]
    /\ UNCHANGED <<leases, up, memory>>

HoldClaimRun(p) ==
    /\ call[p].at = "claim"
    /\ LET s == call[p].session IN
       IF MayTake(runs[s], p)
         THEN /\ runs' = [runs EXCEPT ![s] = Fresh(p)]
              /\ call' = [call EXCEPT ![p].at = "acquire"]
              /\ age' = [age EXCEPT ![p][s] = 0]
         ELSE /\ call' = [call EXCEPT ![p] = Idle]
              /\ UNCHANGED <<runs, age>>
    /\ UNCHANGED <<leases, up, memory>>

HoldAcquire(p) ==
    /\ call[p].at = "acquire"
    /\ LET s == call[p].session
           o == call[p].owner IN
       IF MayTake(leases[s], o)
         THEN /\ AcquireEffect(p, s, o)
              /\ pinned' = [pinned EXCEPT ![p][s] =
                              [owner |-> o, count |-> 1,
                               createdBy |-> call[p].createdBy]]
              /\ call' = [call EXCEPT ![p] = Idle]
         ELSE /\ call' = [call EXCEPT ![p].at = "unclaim"]
              /\ UNCHANGED <<leases, memory>>
    /\ UNCHANGED <<runs, up, age>>

\* The acquire failed: give the claim back and throw.
HoldUnclaim(p) ==
    /\ call[p].at = "unclaim"
    /\ runs' = Without(runs, call[p].session, p)
    /\ call' = [call EXCEPT ![p] = Idle]
    /\ UNCHANGED <<leases, up, memory, age>>

-----------------------------------------------------------------------------
(* The timer of a pin: renew the lease for its owner, then the run claim.  *)
(* Errors are swallowed, so the second statement runs whatever the first   *)
(* one did.                                                                *)

RenewLease(p, s) ==
    /\ Ready(p)
    /\ Pinned(p, s)
    /\ age[p][s] > 0
    /\ LET o == pinned[p][s].owner IN
       /\ IF MayTake(leases[s], o)
            THEN AcquireEffect(p, s, o)
            ELSE UNCHANGED <<leases, held, deferred>>
       /\ call' = [call EXCEPT ![p] =
                     [at |-> "renewClaim", session |-> s, owner |-> o,
                      createdBy |-> None]]
    /\ UNCHANGED <<runs, up, pinned, age>>

\* Mutant: the timer renews the lease and forgets the claim.
RenewLeaseOnly(p) ==
    /\ call[p].at = "renewClaim"
    /\ age' = [age EXCEPT ![p][call[p].session] = 0]
    /\ call' = [call EXCEPT ![p] = Idle]
    /\ UNCHANGED <<tables, up, memory>>

RenewClaim(p) ==
    /\ call[p].at = "renewClaim"
    /\ LET s == call[p].session IN
       IF MayTake(runs[s], p)
         THEN /\ runs' = [runs EXCEPT ![s] = Fresh(p)]
              /\ age' = [age EXCEPT ![p][s] = 0]
         ELSE UNCHANGED <<runs, age>>
    /\ call' = [call EXCEPT ![p] = Idle]
    /\ UNCHANGED <<leases, up, memory>>

-----------------------------------------------------------------------------
(* The function hold returns, called when the work ends. *)

EndInnerHold(p, s) ==
    /\ Ready(p)
    /\ pinned[p][s].count > 1
    /\ pinned' = [pinned EXCEPT ![p][s].count = @ - 1]
    /\ UNCHANGED <<tables, up, held, deferred, call, age>>

\* Mutant: the release that was put off stays on the list when it is applied.
EndHoldKeepsDeferral(p, s) ==
    /\ Ready(p)
    /\ pinned[p][s].count = 1
    /\ pinned' = [pinned EXCEPT ![p][s] = NoPin]
    /\ call' = [call EXCEPT ![p] =
                  [at |-> "endRun", session |-> s,
                   owner |-> IF s \in deferred[p] THEN pinned[p][s].owner
                                                  ELSE None,
                   createdBy |-> pinned[p][s].createdBy]]
    /\ UNCHANGED <<tables, up, held, deferred, age>>

\* The last hold ends: the pin goes, then the claim, then the lease the hold
\* created, then the lease whose release was put off.
EndHold(p, s) ==
    /\ Ready(p)
    /\ pinned[p][s].count = 1
    /\ pinned' = [pinned EXCEPT ![p][s] = NoPin]
    /\ deferred' = [deferred EXCEPT ![p] = @ \ {s}]
    /\ call' = [call EXCEPT ![p] =
                  [at |-> "endRun", session |-> s,
                   owner |-> IF s \in deferred[p] THEN pinned[p][s].owner
                                                  ELSE None,
                   createdBy |-> pinned[p][s].createdBy]]
    /\ UNCHANGED <<tables, up, held, age>>

EndReleaseRun(p) ==
    /\ call[p].at = "endRun"
    /\ runs' = Without(runs, call[p].session, p)
    /\ call' = [call EXCEPT ![p].at = "endCreated"]
    /\ UNCHANGED <<leases, up, memory, age>>

EndReleaseCreated(p) ==
    /\ call[p].at = "endCreated"
    /\ IF call[p].createdBy # None
         THEN ReleaseEffect(p, call[p].session, call[p].createdBy)
         ELSE UNCHANGED <<leases, held>>
    /\ call' = [call EXCEPT ![p].at = "endDeferred"]
    /\ UNCHANGED <<runs, up, pinned, deferred, age>>

EndReleaseDeferred(p) ==
    /\ call[p].at = "endDeferred"
    /\ IF call[p].owner # None
         THEN ReleaseEffect(p, call[p].session, call[p].owner)
         ELSE UNCHANGED <<leases, held>>
    /\ call' = [call EXCEPT ![p] = Idle]
    /\ UNCHANGED <<runs, up, pinned, deferred, age>>

-----------------------------------------------------------------------------
(* Shutdown, crash and restart of a process; the clock. *)

\* close() drops the pins, then releases what the process holds, one
\* reservation at a time.  It leaves the run claims to expire.
Close(p) ==
    /\ Ready(p)
    /\ pinned' = [pinned EXCEPT ![p] = [s \in Session |-> NoPin]]
    /\ call' = [call EXCEPT ![p] = [Idle EXCEPT !.at = "closing"]]
    /\ UNCHANGED <<tables, up, held, deferred, age>>

CloseRelease(p, s) ==
    /\ call[p].at = "closing"
    /\ held[p][s] # None
    /\ ReleaseEffect(p, s, held[p][s])
    /\ UNCHANGED <<runs, up, pinned, deferred, call, age>>

\* The process and its memory are gone.
Vanish(p) ==
    /\ runs' = Orphaned(runs, p)
    /\ up' = [up EXCEPT ![p] = FALSE]
    /\ held' = [held EXCEPT ![p] = [s \in Session |-> None]]
    /\ pinned' = [pinned EXCEPT ![p] = [s \in Session |-> NoPin]]
    /\ deferred' = [deferred EXCEPT ![p] = {}]
    /\ call' = [call EXCEPT ![p] = Idle]
    /\ age' = [age EXCEPT ![p] = [s \in Session |-> 0]]
    /\ UNCHANGED leases

CloseDone(p) ==
    /\ call[p].at = "closing"
    /\ \A s \in Session : held[p][s] = None
    /\ Vanish(p)

Crash(p) == up[p] /\ Vanish(p)

\* A new process has a new run token and an empty memory.
Restart(p) ==
    /\ ~up[p]
    /\ up' = [up EXCEPT ![p] = TRUE]
    /\ UNCHANGED <<tables, memory, call, age>>

\* Time passes; no live process lets a run claim age past MaxDelay.
Tick ==
    /\ \A p \in Proc, s \in Session : Claiming(p, s) => age[p][s] < MaxDelay
    /\ leases' = [s \in Session |-> OneTickOlder(leases[s])]
    /\ runs' = [s \in Session |-> OneTickOlder(runs[s])]
    /\ age' = [p \in Proc |-> [s \in Session |->
                 IF Claiming(p, s) THEN age[p][s] + 1 ELSE 0]]
    /\ UNCHANGED <<up, memory, call>>

-----------------------------------------------------------------------------
ClientRequest(p, s, o) ==
    Acquire(p, s, o) \/ Takeover(p, s, o) \/ Release(p, s, o)

WorkStarts(p, s, o) == JoinHold(p, s, o) \/ BeginHold(p, s, o)

WorkEnds(p, s) == EndInnerHold(p, s) \/ EndHold(p, s)

\* The next statement of the call p is in.
CallStep(p) ==
    \/ HoldClaimRun(p) \/ HoldAcquire(p) \/ HoldUnclaim(p)
    \/ RenewClaim(p)
    \/ EndReleaseRun(p) \/ EndReleaseCreated(p) \/ EndReleaseDeferred(p)
    \/ CloseDone(p)
    \/ \E s \in Session : CloseRelease(p, s)

Next ==
    \/ \E p \in Proc, s \in Session, o \in Owner :
          ClientRequest(p, s, o) \/ WorkStarts(p, s, o)
    \/ \E p \in Proc, s \in Session : RenewLease(p, s) \/ WorkEnds(p, s)
    \/ \E p \in Proc : CallStep(p) \/ Close(p) \/ Crash(p) \/ Restart(p)
    \/ Tick

Spec == Init /\ [][Next]_vars

\* Statements of a call follow one another, timers fire, time passes.
Fairness ==
    /\ \A p \in Proc : WF_vars(CallStep(p))
    /\ \A p \in Proc, s \in Session : WF_vars(RenewLease(p, s))
    /\ WF_vars(Tick)

FairSpec == Spec /\ Fairness
-----------------------------------------------------------------------------
(* Correctness. *)

\* The shape of the state.
TypeOK ==
    /\ leases \in [Session -> Row(Owner)]
    /\ runs \in [Session -> Row(Proc \cup {Gone})]
    /\ up \in [Proc -> BOOLEAN]
    /\ held \in [Proc -> [Session -> Owner \cup {None}]]
    /\ pinned \in [Proc -> [Session -> Pin]]
    /\ deferred \in [Proc -> SUBSET Session]
    /\ call \in [Proc -> Call]
    /\ age \in [Proc -> [Session -> 0..MaxDelay]]

\* Only one process runs work in a session at a time, whichever owners the
\* clients have, through crashes, takeovers and restarts, as long as every
\* timer keeps within MaxDelay (hold, claimRun and the renewal timer).
OneRunner ==
    \A s \in Session, p, q \in Proc : Pinned(p, s) /\ Pinned(q, s) => p = q

\* A release that was put off belongs to work that still runs: none is left
\* behind to take the lease of a later run (release, hold's end, takeover).
NoStaleDeferral ==
    \A p \in Proc : \A s \in deferred[p] :
        Pinned(p, s) \/ call[p].at = "closing"

\* Running work keeps its session reserved for the owner it runs for until
\* it ends, whatever clients release or take over meanwhile.
RunKeepsReservation ==
    \A p \in Proc, s \in Session :
        Pinned(p, s) => leases[s].who = pinned[p][s].owner

\* A release put off while work runs is "applied when it ends": until then
\* only the owner's own return to the session, or a takeover, revokes it.
\* (A lease the work created for its owner goes at its end in any case.)  The
\* code does not keep this: see the README.
PutOffReleaseStays ==
    [][\A p \in Proc : \A s \in deferred[p] \ deferred'[p] :
          \/ ~Pinned(p, s)'
          \/ pinned[p][s].createdBy = pinned[p][s].owner
          \/ \E o \in Owner : Acquire(p, s, o) \/ Takeover(p, s, o)]_vars

\* The claim of a process that crashed does not block the session for ever.
AbandonedClaimExpires ==
    \A s \in Session : (runs[s].who = Gone) ~> (runs[s].who # Gone)

\* What the reservations promise about work: see SessionWork.
Worker == [s \in Session |->
    IF \E p \in Proc : Pinned(p, s) THEN CHOOSE p \in Proc : Pinned(p, s)
                                     ELSE None]

Work == INSTANCE SessionWork WITH worker <- Worker

\* Every behaviour of the lease table is one of SessionWork: work in a session
\* begins only when no other process works there.
ImplementsSessionWork == Work!Spec
=============================================================================
