--------------------------- MODULE SessionClients ---------------------------
(***************************************************************************)
(* Client apps on top of SessionLeases: what a page or a terminal that     *)
(* opened a session believes, and what the lease table says.  The client   *)
(* side is packages/client/src/sessionLease.ts as used by useSessionLease  *)
(* in the web app and the TUI.                                             *)
(*                                                                         *)
(* A client talks to one process: web pages to the service, a local TUI to *)
(* itself.  Clients of the same app share an owner.  A request and its     *)
(* answer are one step; a request that gets no answer is one not made.     *)
(***************************************************************************)
EXTENDS SessionLeases

CONSTANTS
    Client,
    ClientProc,     \* client -> the process it talks to
    ClientOwner,    \* client -> the owner it is to that process
    WorkOwners      \* process -> owners it runs work for

ASSUME ClientAssumption ==
    /\ ClientProc \in [Client -> Proc]
    /\ ClientOwner \in [Client -> Owner]
    /\ WorkOwners \in [Proc -> SUBSET Owner]

VARIABLE
    client      \* client -> what it has open

clientVars == <<client, vars>>

\* claim records why the client may rely on its reservation: "firm" when no
\* running work had created the lease it renewed, "shared" when some had,
\* "none" once its own side gave the reservation up or somebody took it over.
Away == [at |-> "away", session |-> None, since |-> 0, claim |-> "none"]
View == {Away} \cup [at : {"open", "lost"}, session : Session,
                     since : 0..LeaseTTL, claim : {"none", "shared", "firm"}]

InitClients ==
    /\ Init
    /\ client = [c \in Client |-> Away]

\* Work whose end will delete the lease of o whoever renews it meanwhile.
DoomedBy(p, s, o) ==
    \/ pinned[p][s].createdBy = o
    \/ s \in deferred'[p] /\ pinned'[p][s].owner = o
    \/ call[p].session = s /\ call[p].createdBy = o
    \/ /\ call[p].session = s /\ call[p].owner = o
       /\ call[p].at \in {"endRun", "endCreated", "endDeferred"}

ClaimOn(s, o) == IF \E p \in Proc : DoomedBy(p, s, o) THEN "shared" ELSE "firm"

\* Client c has session s open, reserved this moment.
Opened(c, s) ==
    [at |-> "open", session |-> s, since |-> 0, claim |-> ClaimOn(s, ClientOwner[c])]

\* The reservations of s for owners in Lost are no longer relied on.
Weakened(view, s, Lost) ==
    [d \in Client |-> IF view[d].session = s /\ ClientOwner[d] \in Lost
                        THEN [view[d] EXCEPT !.claim = "none"] ELSE view[d]]

-----------------------------------------------------------------------------
(* What a client does. *)

OpenSession(c, s) ==
    /\ client[c].at = "away"
    /\ Acquire(ClientProc[c], s, ClientOwner[c])
    /\ client' = [client EXCEPT ![c] = Opened(c, s)]

\* renewSessionLease: every interval, and when the page is visible again.
RenewOpen(c) ==
    /\ client[c].at = "open"
    /\ client[c].since > 0
    /\ LET s == client[c].session IN
       /\ Acquire(ClientProc[c], s, ClientOwner[c])
       /\ client' = [client EXCEPT ![c] = Opened(c, s)]

\* Mutant: SESSION_BUSY is retried like a network error.
IgnoreBusy(c) ==
    /\ client[c].at = "open"
    /\ Ready(ClientProc[c])
    /\ ~MayTake(leases[client[c].session], ClientOwner[c])
    /\ UNCHANGED clientVars

\* SESSION_BUSY ends the renewal: the client keeps the session read-only.
LoseSession(c) ==
    /\ client[c].at = "open"
    /\ Ready(ClientProc[c])
    /\ ~MayTake(leases[client[c].session], ClientOwner[c])
    /\ client' = [client EXCEPT ![c].at = "lost", ![c].claim = "none"]
    /\ UNCHANGED vars

\* Take over a session the client lost, or one it found busy.
TakeOver(c, s) ==
    /\ \/ client[c].at = "away"
       \/ client[c].at = "lost" /\ client[c].session = s
    /\ Takeover(ClientProc[c], s, ClientOwner[c])
    /\ client' = [Weakened(client, s, Owner \ {ClientOwner[c]})
                    EXCEPT ![c] = Opened(c, s)]

\* The session is closed, by a page that lost it too: release and forget.
CloseSession(c) ==
    /\ client[c].at # "away"
    /\ LET s == client[c].session
           o == ClientOwner[c] IN
       /\ Release(ClientProc[c], s, o)
       /\ client' = [Weakened(client, s, {o}) EXCEPT ![c] = Away]

\* The page or terminal disappears without a word.
Disappear(c) ==
    /\ client[c].at # "away"
    /\ client' = [client EXCEPT ![c] = Away]
    /\ UNCHANGED vars

-----------------------------------------------------------------------------
(* Everything else, as the clients see it. *)

StartWork(p, s, o) ==
    /\ o \in WorkOwners[p]
    /\ WorkStarts(p, s, o)
    /\ UNCHANGED client

\* A process that shuts down releases its clients' sessions.
CloseReleaseSeen(p, s) ==
    /\ CloseRelease(p, s)
    /\ client' = Weakened(client, s, {held[p][s]})

\* The calls a process makes of its own accord.
InnerStep(p) ==
    /\ \/ HoldClaimRun(p) \/ HoldAcquire(p) \/ HoldUnclaim(p)
       \/ RenewClaim(p)
       \/ EndReleaseRun(p) \/ EndReleaseCreated(p) \/ EndReleaseDeferred(p)
       \/ CloseDone(p)
       \/ \E s \in Session : RenewLease(p, s)
    /\ UNCHANGED client

ProcessEvent(p) ==
    /\ \/ Close(p) \/ Crash(p) \/ Restart(p)
       \/ \E s \in Session : WorkEnds(p, s)
    /\ UNCHANGED client

TimePasses ==
    /\ Tick
    /\ client' = [c \in Client |->
                    IF client[c].at = "open" /\ client[c].since < LeaseTTL
                      THEN [client[c] EXCEPT !.since = @ + 1] ELSE client[c]]

NextClients ==
    \/ \E c \in Client :
          \/ RenewOpen(c) \/ LoseSession(c) \/ CloseSession(c) \/ Disappear(c)
          \/ \E s \in Session : OpenSession(c, s) \/ TakeOver(c, s)
    \/ \E p \in Proc, s \in Session, o \in Owner : StartWork(p, s, o)
    \/ \E p \in Proc, s \in Session : CloseReleaseSeen(p, s)
    \/ \E p \in Proc : InnerStep(p) \/ ProcessEvent(p)
    \/ TimePasses

SpecClients == InitClients /\ [][NextClients]_clientVars

\* A request waits in its process until it is handled, however busy the
\* process is; calls finish, timers fire, time passes.  Nothing forces a
\* process to come back, work to end or a client to leave.
FairClients ==
    /\ SpecClients
    /\ \A c \in Client : SF_clientVars(RenewOpen(c) \/ LoseSession(c))
    /\ \A p \in Proc : WF_clientVars(InnerStep(p))
    /\ \A p \in Proc, s \in Session : WF_clientVars(CloseReleaseSeen(p, s))
    /\ WF_clientVars(TimePasses)

-----------------------------------------------------------------------------
(* Correctness. *)

ClientsTypeOK ==
    /\ TypeOK
    /\ client \in [Client -> View]

\* A client that opened a session and renews in time keeps it reserved, until
\* its own side gives it up or another owner takes it over: no other client's
\* request, no end of work and no crash elsewhere costs it the session.
FirmClientKeepsSession ==
    \A c \in Client :
        LET s == client[c].session IN
        client[c].claim = "firm" /\ client[c].since < LeaseTTL =>
            /\ leases[s].who = ClientOwner[c]
            /\ leases[s].left + client[c].since >= LeaseTTL

\* Another owner holds the session that client c has open.
Displaced(c) ==
    /\ client[c].at = "open"
    /\ leases[client[c].session].who \notin {None, ClientOwner[c]}

\* The client's process answers requests.
Serving(c) == up[ClientProc[c]] /\ call[ClientProc[c]].at # "closing"

\* "The displaced client finds out at its next renewal": a client whose
\* session another owner holds loses it (LoseSession), unless the session is
\* free or its own again first, or its process stops answering.
DisplacedClientFindsOut ==
    \A c \in Client : Displaced(c) ~> (~Displaced(c) \/ ~Serving(c))
=============================================================================
