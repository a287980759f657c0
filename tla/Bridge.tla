------------------------------- MODULE Bridge -------------------------------
(***************************************************************************)
(* The workspace bridge: the relay that passes encrypted frames between    *)
(* the devices of a workspace (apps/bridge/src/relay/Relay.ts,             *)
(* RelayStore.ts), the connection each device keeps to it                  *)
(* (packages/core/src/workspace/bridge/BridgePeer.ts) and the journal that *)
(* makes an operation happen once however often it is asked for            *)
(* (WorkspaceStore.once).                                                  *)
(*                                                                         *)
(* A connection is seen from both ends: the network may be cut long before *)
(* either end notices, and a device may come back while the relay still    *)
(* has its old connection.  Encryption, chunks and membership are left     *)
(* out; a message that had not been sent, or had expired, is a lost one.   *)
(***************************************************************************)
EXTENDS Naturals, Sequences, SequencesExt, FiniteSets

CONSTANTS Devices,
          Calls,          \* operations, each with its request id
          From, To,       \* who asks, and who carries out
          InboxLimit,     \* INBOX_LIMIT: messages the relay keeps for a device
          MaxConnections, \* bound: connections each device makes
          MaxTries,       \* bound: how often a call is asked for
          Mishaps,        \* what may go wrong, of Kinds
          MaxMishaps      \* bound: how often something goes wrong

(* The network is cut, a device's service restarts, the relay ends in good  *)
(* order or not, a stored message expires, a connection lags.               *)
Kinds == {"cut", "restart", "stop", "crash", "expired", "slow"}

ASSUME BridgeConstants ==
  /\ IsFiniteSet(Calls)
  /\ From \in [Calls -> Devices] /\ To \in [Calls -> Devices]
  /\ \A q \in Calls : From[q] # To[q]
  /\ InboxLimit \in Nat \ {0}
  /\ MaxConnections \in [Devices -> Nat]
  /\ Mishaps \subseteq Kinds
  /\ {MaxTries, MaxMishaps} \subseteq Nat

(* A device waits for so many calls, and carries out so many; a request     *)
(* beyond them is refused before it is sent, or dropped though its message  *)
(* was acknowledged.  Neither happens to fewer calls, and the module is of  *)
(* those.                                                                   *)
PendingLimit == 32
InFlightLimit == 64

ASSUME WithinLimits ==
  \A d \in Devices :
    /\ Cardinality({q \in Calls : From[q] = d}) <= PendingLimit
    /\ Cardinality({q \in Calls : To[q] = d}) <= InFlightLimit

VARIABLES
  conn,    \* every connection made, as either end sees it
  held,    \* the relay's memory, for each device: delivered, not acknowledged
  inbox,   \* the relay's database, for each device in the order of insertion
  pending, \* BridgePeer.pending: calls awaiting an answer
  arrived, \* deliveries acknowledged and being decrypted
  seen,    \* BridgePeer.seen: messages dispatched before
  jobs,    \* BridgePeer.inflight: calls being carried out, and answers owed
  journal, \* the requests table
  told,    \* the last answer the asker had
  count    \* how often what is bounded has happened, and messages were sent

vars == <<conn, held, inbox, pending, arrived, seen, jobs, journal, told, count>>

Init ==
  /\ conn = <<>>
  /\ held = [d \in Devices |-> <<>>]
  /\ inbox = [d \in Devices |-> <<>>]
  /\ pending = [d \in Devices |-> {}]
  /\ arrived = [d \in Devices |-> {}]
  /\ seen = [d \in Devices |-> {}]
  /\ jobs = [q \in Calls |-> 0]
  /\ journal = [q \in Calls |-> "none"]
  /\ told = [q \in Calls |-> "nothing"]
  /\ count = [mishaps |-> 0, kinds |-> {},
              tries |-> [q \in Calls |-> 0],
              sent |-> [q \in Calls |-> [request |-> 0, response |-> 0]]]

---------------------------------------------------------------------------
(* Connections and messages.                                                *)

Made(d) == {c \in DOMAIN conn : conn[c].device = d}

(* BridgePeer.connected: its newest connection is open and has been told it *)
(* is ready.                                                                *)
Connected(d) == \E c \in Made(d) : conn[c].open /\ conn[c].ready

(* Relay.connections: those it holds authenticated.                         *)
Online(cs, d) == {c \in DOMAIN cs : cs[c].device = d /\ cs[c].relay = "ready"}

Happens(kind) ==
  /\ kind \in Mishaps
  /\ count.mishaps < MaxMishaps
  /\ count' = [count EXCEPT !.mishaps = @ + 1, !.kinds = @ \cup {kind}]

(* Each transmission is a message of its own, with an id of its own.        *)
Message(kind, q, n, result) ==
  [kind |-> kind, call |-> q, n |-> n, result |-> result,
   to |-> IF kind = "request" THEN To[q] ELSE From[q]]

Requests(qs) ==
  SetToSeq({Message("request", q, count.sent[q].request + 1, "nothing") : q \in qs})

Responses(q, result, n) ==
  [i \in 1..n |-> Message("response", q, count.sent[q].response + i, result)]

(* send: nothing goes out without a connection, or over one that is cut.    *)
Sent(cs, d, frames) ==
  [c \in DOMAIN cs |->
     IF cs[c].device = d /\ cs[c].open /\ cs[c].ready /\ ~cs[c].cut
     THEN [cs[c] EXCEPT !.out = @ \o frames] ELSE cs[c]]

SendFrame(m) == [type |-> "send", message |-> m]
SendFrames(ms) == [i \in DOMAIN ms |-> SendFrame(ms[i])]

(* deliver: what the relay sends down a connection.                         *)
Delivered(cs, c, ms) ==
  IF cs[c].cut THEN cs
  ELSE [cs EXCEPT ![c].in = @ \o [i \in DOMAIN ms |-> [type |-> "delivery", message |-> ms[i]]]]

(* closeSocket: the relay ignores what still comes on it.                   *)
ClosedByRelay(cs, which) ==
  [c \in DOMAIN cs |-> IF c \in which THEN [cs[c] EXCEPT !.relay = "closed", !.out = <<>>] ELSE cs[c]]

(* A message is in a store once, under an id of its own.                    *)
Without(ms, m) ==
  IF Contains(ms, m) THEN RemoveAt(ms, CHOOSE i \in DOMAIN ms : ms[i] = m) ELSE ms

(* What the relay keeps for a device: the stored before the held.           *)
Stored(d) == inbox[d] \o held[d]

(* persist: held messages of a device go to the database, after its others. *)
Persisted(d) ==
  /\ inbox' = [inbox EXCEPT ![d] = Stored(d)]
  /\ held' = [held EXCEPT ![d] = <<>>]

---------------------------------------------------------------------------
(* The network.                                                             *)

(* connect, with the challenge answered.                                    *)
Connect(d) ==
  /\ \A c \in Made(d) : ~conn[c].open
  /\ Cardinality(Made(d)) < MaxConnections[d]
  /\ conn' = Append(conn, [device |-> d, open |-> TRUE, ready |-> FALSE, relay |-> "opening",
                           cut |-> FALSE, out |-> <<[type |-> "auth"]>>, in |-> <<>>])
  /\ UNCHANGED <<held, inbox, pending, arrived, seen, jobs, journal, told, count>>

(* The network fails: what is under way is lost, and neither end knows.     *)
Cut(c) ==
  /\ ~conn[c].cut
  /\ conn[c].open
  /\ Happens("cut")
  /\ conn' = [conn EXCEPT ![c].cut = TRUE, ![c].out = <<>>, ![c].in = <<>>]
  /\ UNCHANGED <<held, inbox, pending, arrived, seen, jobs, journal, told>>

(* The device finds its connection gone, at the latest when pings fail.     *)
PeerCloses(c) ==
  /\ conn[c].open
  /\ conn[c].cut \/ (conn[c].relay \in {"closed", "gone"} /\ conn[c].in = <<>>)
  /\ conn' = [conn EXCEPT ![c].open = FALSE, ![c].ready = FALSE, ![c].cut = TRUE,
                           ![c].out = <<>>, ![c].in = <<>>]
  /\ UNCHANGED <<held, inbox, pending, arrived, seen, jobs, journal, told, count>>

\* Mutant: what was held for a device is not stored when its connection ends.
RelayForgets(c) ==
  /\ conn[c].relay # "gone"
  /\ conn[c].cut \/ ~conn[c].open \/ conn[c].relay = "closed"
  /\ conn' = [conn EXCEPT ![c].relay = "gone", ![c].out = <<>>]
  /\ held' = IF Online(conn, conn[c].device) \subseteq {c}
             THEN [held EXCEPT ![conn[c].device] = <<>>] ELSE held
  /\ UNCHANGED <<inbox, pending, arrived, seen, jobs, journal, told, count>>

(* Relay.closed: held messages are stored, unless a newer connection has    *)
(* taken them over.                                                         *)
RelayCloses(c) ==
  /\ conn[c].relay # "gone"
  /\ conn[c].cut \/ ~conn[c].open \/ conn[c].relay = "closed"
  /\ conn' = [conn EXCEPT ![c].relay = "gone", ![c].out = <<>>]
  /\ IF conn[c].relay # "opening" /\ Online(conn, conn[c].device) \subseteq {c}
     THEN Persisted(conn[c].device) ELSE UNCHANGED <<held, inbox>>
  /\ UNCHANGED <<pending, arrived, seen, jobs, journal, told, count>>

---------------------------------------------------------------------------
(* The relay.                                                               *)

\* Mutant: an older connection of the device stays.
AuthenticateBeside(c) ==
  /\ conn[c].relay = "opening" /\ conn[c].out # <<>>
  /\ LET d == conn[c].device
         ready == [conn EXCEPT ![c].relay = "ready", ![c].out = Tail(@),
                               ![c].in = <<[type |-> "ready"]>>]
     IN conn' = Delivered(ready, c, Stored(d))
  /\ Persisted(conn[c].device)
  /\ UNCHANGED <<pending, arrived, seen, jobs, journal, told, count>>

(* authenticate: the newer connection of a device replaces the older, and   *)
(* all the relay keeps for the device is sent down it.                      *)
Authenticate(c) ==
  /\ conn[c].relay = "opening" /\ conn[c].out # <<>>
  /\ LET d == conn[c].device
         ready == [conn EXCEPT ![c].relay = "ready", ![c].out = Tail(@),
                               ![c].in = <<[type |-> "ready"]>>]
     IN conn' = ClosedByRelay(Delivered(ready, c, Stored(d)), Online(conn, d))
  /\ Persisted(conn[c].device)
  /\ UNCHANGED <<pending, arrived, seen, jobs, journal, told, count>>

NextFrame(c) == conn[c].relay = "ready" /\ conn[c].out # <<>>

InboxSize(d) == Len(inbox[d]) + Len(held[d])

(* handle: a full inbox closes the sender, whose message is not kept.       *)
Full(c) ==
  /\ NextFrame(c) /\ Head(conn[c].out).type = "send"
  /\ InboxSize(Head(conn[c].out).message.to) >= InboxLimit
  /\ conn' = ClosedByRelay(conn, {c})
  /\ UNCHANGED <<held, inbox, pending, arrived, seen, jobs, journal, told, count>>

(* handle: a message is held while the device is online, stored while it is *)
(* not.  A connection that lags is closed instead of being sent more.       *)
Takes(c) ==
  /\ NextFrame(c) /\ Head(conn[c].out).type = "send"
  /\ LET m == Head(conn[c].out).message
         taken == [conn EXCEPT ![c].out = Tail(@)]
         online == Online(conn, m.to)
     IN /\ InboxSize(m.to) < InboxLimit
        /\ IF online = {}
           THEN /\ inbox' = [inbox EXCEPT ![m.to] = Append(@, m)]
                /\ conn' = taken
                /\ UNCHANGED <<held, count>>
           ELSE /\ held' = [held EXCEPT ![m.to] = Append(@, m)]
                /\ UNCHANGED inbox
                /\ \/ /\ conn' = [x \in DOMAIN conn |->
                                    IF x \in online THEN Delivered(taken, x, <<m>>)[x] ELSE taken[x]]
                      /\ UNCHANGED count
                   \/ /\ Happens("slow")
                      /\ conn' = ClosedByRelay(taken, online)
  /\ UNCHANGED <<pending, arrived, seen, jobs, journal, told>>

(* handle: an acknowledged message is forgotten.                            *)
Acked(c) ==
  /\ NextFrame(c) /\ Head(conn[c].out).type = "ack"
  /\ held' = [held EXCEPT ![conn[c].device] = Without(@, Head(conn[c].out).message)]
  /\ inbox' = [inbox EXCEPT ![conn[c].device] = Without(@, Head(conn[c].out).message)]
  /\ conn' = [conn EXCEPT ![c].out = Tail(@)]
  /\ UNCHANGED <<pending, arrived, seen, jobs, journal, told, count>>

(* scheduleFlush: what has been held five seconds is stored, for each       *)
(* device the first n it was sent.                                          *)
Flush ==
  /\ \E n \in [Devices -> 0..InboxLimit] :
       /\ \A d \in Devices : n[d] <= Len(held[d])
       /\ inbox' = [d \in Devices |-> inbox[d] \o SubSeq(held[d], 1, n[d])]
       /\ held' = [d \in Devices |-> SubSeq(held[d], n[d] + 1, Len(held[d]))]
  /\ held' # held
  /\ UNCHANGED <<conn, pending, arrived, seen, jobs, journal, told, count>>

(* purge: a stored message expires.                                         *)
Expire(d, i) ==
  /\ Happens("expired")
  /\ inbox' = [inbox EXCEPT ![d] = RemoveAt(@, i)]
  /\ UNCHANGED <<conn, held, pending, arrived, seen, jobs, journal, told>>

Hangup == [c \in DOMAIN conn |-> [conn[c] EXCEPT !.cut = TRUE, !.relay = "gone", !.out = <<>>, !.in = <<>>]]

(* The relay ends, and another takes its place: in good order what it held  *)
(* is stored (close), in a crash it is lost.                                *)
Stop ==
  /\ Happens("stop")
  /\ conn' = Hangup
  /\ inbox' = [d \in Devices |-> Stored(d)]
  /\ held' = [d \in Devices |-> <<>>]
  /\ UNCHANGED <<pending, arrived, seen, jobs, journal, told>>

Crash ==
  /\ Happens("crash")
  /\ conn' = Hangup
  /\ held' = [d \in Devices |-> <<>>]
  /\ UNCHANGED <<inbox, pending, arrived, seen, jobs, journal, told>>

---------------------------------------------------------------------------
(* The devices.                                                             *)

Transmitted(cs, d, qs) ==
  /\ conn' = Sent(cs, d, SendFrames(Requests(qs)))
  /\ count' = [count EXCEPT !.sent = [q \in Calls |->
       IF q \in qs THEN [count.sent[q] EXCEPT !.request = @ + 1] ELSE count.sent[q]]]

(* request: a call is asked for, again under the same id if need be.        *)
Ask(q) ==
  /\ count.tries[q] < MaxTries
  /\ q \notin pending[From[q]]
  /\ Connected(From[q])
  /\ pending' = [pending EXCEPT ![From[q]] = @ \cup {q}]
  /\ conn' = Sent(conn, From[q], SendFrames(Requests({q})))
  /\ count' = [count EXCEPT !.tries[q] = @ + 1, !.sent[q].request = @ + 1]
  /\ UNCHANGED <<held, inbox, arrived, seen, jobs, journal, told>>

TimeOut(q) ==
  /\ q \in pending[From[q]]
  /\ pending' = [pending EXCEPT ![From[q]] = @ \ {q}]
  /\ UNCHANGED <<conn, held, inbox, arrived, seen, jobs, journal, told, count>>

NextIn(c) == conn[c].open /\ conn[c].in # <<>>

\* Mutant: what is awaited is not asked for again.
BecomesReadyOnly(c) ==
  /\ NextIn(c) /\ Head(conn[c].in).type = "ready"
  /\ conn' = [conn EXCEPT ![c].in = Tail(@), ![c].ready = TRUE]
  /\ UNCHANGED <<held, inbox, pending, arrived, seen, jobs, journal, told, count>>

(* receive: on `ready' all that is awaited is asked for again.              *)
BecomesReady(c) ==
  /\ NextIn(c) /\ Head(conn[c].in).type = "ready"
  /\ Transmitted([conn EXCEPT ![c].in = Tail(@), ![c].ready = TRUE],
                 conn[c].device, pending[conn[c].device])
  /\ UNCHANGED <<held, inbox, pending, arrived, seen, jobs, journal, told>>

(* receive: a delivery is acknowledged, then decrypted.                     *)
Receive(c) ==
  /\ NextIn(c) /\ Head(conn[c].in).type = "delivery"
  /\ LET m == Head(conn[c].in).message
         d == conn[c].device
     IN /\ conn' = Sent([conn EXCEPT ![c].in = Tail(@)], d, <<[type |-> "ack", message |-> m]>>)
        /\ arrived' = [arrived EXCEPT ![d] = @ \cup {m}]
  /\ UNCHANGED <<held, inbox, pending, seen, jobs, journal, told, count>>

(* A message that was dispatched before is dropped.                         *)
Opened(d, m) ==
  /\ arrived' = [arrived EXCEPT ![d] = @ \ {m}]
  /\ seen' = [seen EXCEPT ![d] = @ \cup {m}]

Repeated(d, m) ==
  /\ m \in seen[d]
  /\ Opened(d, m)
  /\ UNCHANGED <<conn, held, inbox, pending, jobs, journal, told, count>>

(* dispatch of a response: only a call still awaited has use for it.        *)
TakeAnswer(d, m) ==
  /\ m.kind = "response" /\ m \notin seen[d]
  /\ Opened(d, m)
  /\ pending' = [pending EXCEPT ![d] = @ \ {m.call}]
  /\ told' = IF m.call \in pending[d] THEN [told EXCEPT ![m.call] = m.result] ELSE told
  /\ UNCHANGED <<conn, held, inbox, jobs, journal, count>>

Answered(cs, q, result, n) ==
  /\ conn' = Sent(cs, To[q], SendFrames(Responses(q, result, n)))
  /\ count' = [count EXCEPT !.sent[q].response = @ + n]

\* Mutant: a call is carried out again once it is no longer in progress.
TakeRequestAgain(d, m) ==
  /\ m.kind = "request" /\ m \notin seen[d]
  /\ Opened(d, m)
  /\ jobs' = [jobs EXCEPT ![m.call] = @ + 1]
  /\ journal' = [journal EXCEPT ![m.call] = "running"]
  /\ UNCHANGED <<conn, count, held, inbox, pending, told>>

\* Mutant: only the journal is asked, and it says the call is in progress.
TakeRequestJournalOnly(d, m) ==
  /\ m.kind = "request" /\ m \notin seen[d]
  /\ Opened(d, m)
  /\ IF journal[m.call] = "none"
     THEN /\ jobs' = [jobs EXCEPT ![m.call] = @ + 1]
          /\ journal' = [journal EXCEPT ![m.call] = "running"]
          /\ UNCHANGED <<conn, count>>
     ELSE /\ Answered(conn, m.call, journal[m.call], 1)
          /\ UNCHANGED <<jobs, journal>>
  /\ UNCHANGED <<held, inbox, pending, told>>

(* dispatch of a request: one that is being carried out is awaited by this  *)
(* message too (inflight); else the journal says (WorkspaceStore.once)      *)
(* whether to carry it out, or what became of it.                           *)
TakeRequest(d, m) ==
  /\ m.kind = "request" /\ m \notin seen[d]
  /\ Opened(d, m)
  /\ IF jobs[m.call] > 0 \/ journal[m.call] = "none"
     THEN /\ jobs' = [jobs EXCEPT ![m.call] = @ + 1]
          /\ journal' = [journal EXCEPT ![m.call] = "running"]
          /\ UNCHANGED <<conn, count>>
     ELSE /\ Answered(conn, m.call, journal[m.call], 1)
          /\ UNCHANGED <<jobs, journal>>
  /\ UNCHANGED <<held, inbox, pending, told>>

(* The operation ends: its result is journaled, and everyone who asked is   *)
(* answered.                                                                *)
Finish(q) ==
  /\ jobs[q] > 0
  /\ journal' = [journal EXCEPT ![q] = "complete"]
  /\ jobs' = [jobs EXCEPT ![q] = 0]
  /\ Answered(conn, q, "complete", jobs[q])
  /\ UNCHANGED <<held, inbox, pending, arrived, seen, told>>

(* The service of a device dies and comes back: what it kept in memory is   *)
(* gone, and what it was carrying out is marked (interruptRequests).        *)
Restart(d) ==
  /\ Happens("restart")
  /\ conn' = [c \in DOMAIN conn |->
       IF conn[c].device = d /\ conn[c].open
       THEN [conn[c] EXCEPT !.open = FALSE, !.ready = FALSE, !.cut = TRUE, !.out = <<>>, !.in = <<>>]
       ELSE conn[c]]
  /\ pending' = [pending EXCEPT ![d] = {}]
  /\ arrived' = [arrived EXCEPT ![d] = {}]
  /\ seen' = [seen EXCEPT ![d] = {}]
  /\ jobs' = [q \in Calls |-> IF To[q] = d THEN 0 ELSE jobs[q]]
  /\ journal' = [q \in Calls |->
       IF To[q] = d /\ journal[q] = "running" THEN "interrupted" ELSE journal[q]]
  /\ UNCHANGED <<held, inbox, told>>

---------------------------------------------------------------------------
Network == \E c \in DOMAIN conn : Cut(c) \/ PeerCloses(c) \/ RelayCloses(c)

Relay ==
  \/ \E c \in DOMAIN conn : Authenticate(c) \/ Full(c) \/ Takes(c) \/ Acked(c)
  \/ Flush
  \/ \E d \in Devices : \E i \in DOMAIN inbox[d] : Expire(d, i)
  \/ Stop \/ Crash

Peers ==
  \/ \E d \in Devices : Connect(d) \/ Restart(d)
  \/ \E q \in Calls : Ask(q) \/ TimeOut(q) \/ Finish(q)
  \/ \E c \in DOMAIN conn : BecomesReady(c) \/ Receive(c)
  \/ \E d \in Devices : \E m \in arrived[d] : Repeated(d, m) \/ TakeAnswer(d, m) \/ TakeRequest(d, m)

Next == Network \/ Relay \/ Peers

Spec == Init /\ [][Next]_vars

---------------------------------------------------------------------------
(* The types of the state, and with them: a message goes to whom it is for, *)
(* under a number given before, an answer under way says what became of the *)
(* call, and an acknowledgment under way is of a message the device has     *)
(* (BridgePeer.receive, dispatch).                                          *)
States == {"none", "running", "complete", "interrupted"}
Ends == {"complete", "interrupted"}

Messages == [kind : {"request", "response"}, call : Calls, n : Nat,
             result : Ends \cup {"nothing"}, to : Devices]
Numbered(q, kind) == IF kind = "request" THEN count.sent[q].request ELSE count.sent[q].response
TrueMessages ==
  {m \in Messages :
     /\ m.to = IF m.kind = "request" THEN To[m.call] ELSE From[m.call]
     /\ m.n <= Numbered(m.call, m.kind)
     /\ m.kind = "response" => m.result \in Ends /\ journal[m.call] = m.result}

(* What a device has received.                                              *)
Has == [d \in Devices |-> arrived[d] \cup seen[d]]

OutFrames(sent, acked) ==
  [type : {"auth"}] \cup [type : {"send"}, message : sent] \cup [type : {"ack"}, message : acked]
InFrames(sent) == [type : {"ready"}] \cup [type : {"delivery"}, message : sent]

Connections(sent, acked) ==
  {k \in [device : Devices, open : BOOLEAN, ready : BOOLEAN, cut : BOOLEAN,
          relay : {"opening", "ready", "closed", "gone"},
          out : Seq(OutFrames(sent, sent)), in : Seq(InFrames(sent))] :
     /\ k.out \in Seq(OutFrames(sent, acked[k.device]))
     /\ k.open \/ k.out = <<>>}

TypeOK ==
  /\ conn \in Seq(Connections(TrueMessages, Has))
  /\ held \in [Devices -> Seq(TrueMessages)]
  /\ inbox \in [Devices -> Seq(TrueMessages)]
  /\ pending \in [Devices -> SUBSET Calls]
  /\ arrived \in [Devices -> SUBSET TrueMessages]
  /\ seen \in [Devices -> SUBSET TrueMessages]
  /\ jobs \in [Calls -> Nat]
  /\ journal \in [Calls -> States]
  /\ \A q \in Calls : jobs[q] > 0 <=> journal[q] = "running"
  /\ told \in [Calls -> Ends \cup {"nothing"}]
  /\ count \in [mishaps : Nat, kinds : SUBSET Kinds, tries : [Calls -> Nat],
                sent : [Calls -> [request : Nat, response : Nat]]]

(* Whatever is lost, repeated, replayed or restarted, an operation is       *)
(* carried out at most once and its asker is told only what became of it    *)
(* (WorkspaceStore.once, BridgePeer.dispatch).                              *)
Call == INSTANCE RemoteCall WITH work <- journal
CarriedOutOnce == Call!Spec

(* A message the relay took is kept until its device has acknowledged it:   *)
(* only an acknowledgment, its expiry or a crash lose it.                   *)
KeptUntilAcked ==
  [][\A d \in Devices : \A m \in ToSet(Stored(d)) :
          \/ m \in ToSet(Stored(d)') \/ m \in arrived[d] \cup seen[d]
          \/ Crash \/ \E i \in DOMAIN inbox[d] : Expire(d, i)]_vars

(* A device has one connection at the relay, so a message is delivered once *)
(* per connection and none goes down a connection that was replaced.        *)
OneConnection == \A d \in Devices : Cardinality(Online(conn, d)) <= 1

(* A call awaited on a connection that works is on its way, being carried   *)
(* out or answered, if only the asker has lost connections: then asking     *)
(* again on reconnecting is enough.                                         *)
Travels(q) ==
  \/ \E c \in DOMAIN conn : \E i \in DOMAIN conn[c].out :
       conn[c].out[i].type = "send" /\ conn[c].out[i].message.call = q
  \/ \E d \in Devices : \E m \in ToSet(Stored(d)) \cup arrived[d] : m.call = q
  \/ jobs[q] > 0

Works(d) == \E c \in Made(d) : conn[c].open /\ conn[c].ready /\ ~conn[c].cut /\ conn[c].relay = "ready"

Unharmed(q) ==
  /\ count.kinds \subseteq {"cut"}
  /\ Cardinality(Made(To[q])) <= 1
  /\ \A c \in Made(To[q]) : ~conn[c].cut /\ conn[c].relay \in {"opening", "ready"}

AskerRecovers ==
  \A q \in Calls :
    q \in pending[From[q]] /\ Works(From[q]) /\ Unharmed(q) => Travels(q)

(* The same, whoever lost a connection: completed results replay            *)
(* (docs/workspaces.md, Transport and interruptions).                       *)
AnswerFindsAsker ==
  \A q \in Calls :
    q \in pending[From[q]] /\ Works(From[q]) /\ Works(To[q])
      /\ count.kinds \subseteq {"cut"} => Travels(q)
=============================================================================
