---------------------------- MODULE ChunkTransfers ----------------------------
(***************************************************************************)
(* Messages too large for one frame, from one peer of a workspace to       *)
(* another (core workspace/bridge/ChunkTransfers.ts).  The sender splits a *)
(* text into chunks, sends the first, then windows of them, each chunk     *)
(* holding one of the slots all its transfers share until it is            *)
(* acknowledged; the receiver assembles them and hands the text on once.   *)
(*                                                                         *)
(* The relay between the peers keeps what it has for a peer that is away   *)
(* and gives a frame at most once (module Bridge): here it is the set of   *)
(* the frames on their way.                                                *)
(***************************************************************************)
EXTENDS Integers, Sequences, FiniteSets

CONSTANTS Transfers,
          Chunks,         \* how many chunks a transfer has
          Window,         \* WINDOW: chunks of a transfer under way together
          PeerWindow,     \* PEER_WINDOW: chunks of a peer under way together
          MaxAssemblies,  \* transfers a receiver assembles at once
          Room,           \* chunks a receiver keeps at once
          MaxFaults       \* bound: losses, cuts and timers that come too early

ASSUME ChunkConstants ==
  /\ IsFiniteSet(Transfers)
  /\ Chunks \in [Transfers -> Nat \ {0}]
  /\ Window \in Nat \ {0} /\ PeerWindow \in Nat \ {0}
  /\ MaxAssemblies \in Nat \ {0} /\ Room \in Nat \ {0}
  /\ MaxFaults \in Nat

VARIABLES
  transfer,   \* calls of transmit
  chunk,      \* calls of sendChunk
  slots,      \* slots: the chunks that wait for one
  active,     \* active: slots taken
  generation, \* generation
  net,        \* frames on their way
  assembly,   \* assemblies of the receiver
  online,     \* which peers are connected
  faults,
  accepted,   \* history: the chunks the receiver took
  delivered   \* history: how often it handed the text on

vars == <<transfer, chunk, slots, active, generation, net, assembly, online, faults,
          accepted, delivered>>

Indices(t) == 0 .. Chunks[t] - 1
Parts == UNION {{t} \X Indices(t) : t \in Transfers}
NoAssembly == [open |-> FALSE, parts |-> {}, next |-> 0, last |-> -1, old |-> FALSE]

Init ==
  /\ transfer = [t \in Transfers |-> [stage |-> "idle", from |-> 0, to |-> 0, window |-> 1,
                                      generation |-> 0]]
  /\ chunk = [t \in Transfers |-> [i \in Indices(t) |-> "none"]]
  /\ slots = <<>> /\ active = 0 /\ generation = 0
  /\ net = {}
  /\ assembly = [t \in Transfers |-> NoAssembly]
  /\ online = [sender |-> TRUE, receiver |-> TRUE]
  /\ faults = 0
  /\ accepted = [t \in Transfers |-> {}]
  /\ delivered = [t \in Transfers |-> 0]

---------------------------------------------------------------------------
(* The sender.                                                              *)

Holds(t, i) == chunk[t][i] \in {"holding", "waiting"}

(* sendChunk for the chunks from..to of t: some have a slot, others queue.  *)
Asked(t, from, to) ==
  LET taken == IF PeerWindow - active < to - from + 1 THEN PeerWindow - active ELSE to - from + 1 IN
  /\ chunk' = [chunk EXCEPT ![t] = [i \in Indices(t) |->
       IF i \in from .. from + taken - 1 THEN "holding"
       ELSE IF i \in from .. to THEN "queued" ELSE @[i]]]
  /\ active' = active + taken
  /\ slots' = slots \o [k \in 1 .. to - from + 1 - taken |-> <<t, from + taken + k - 1>>]

\* Mutant: the first window does not wait for the first acknowledgment.
StartPipelined(t) ==
  /\ transfer[t].stage = "idle"
  /\ LET to == IF Chunks[t] < Window THEN Chunks[t] - 1 ELSE Window - 1 IN
     /\ transfer' = [transfer EXCEPT ![t] = [@ EXCEPT !.stage = "sending", !.generation = generation, !.to = to]]
     /\ Asked(t, 0, to)
  /\ UNCHANGED <<generation, net, assembly, online, faults, accepted, delivered>>

(* transmit begins, of a request or of an answer (which may be ready while  *)
(* the peer is away): chunk zero goes alone and negotiates the window.      *)
Start(t) ==
  /\ transfer[t].stage = "idle"
  /\ transfer' = [transfer EXCEPT ![t] = [@ EXCEPT !.stage = "sending", !.generation = generation]]
  /\ Asked(t, 0, 0)
  /\ UNCHANGED <<generation, net, assembly, online, faults, accepted, delivered>>

\* Mutant: a slot is not given back.
ReleasedNever(state, n) ==
  /\ chunk' = state
  /\ UNCHANGED <<slots, active>>

(* The finally of sendChunk, for n chunks that are through: their slots go  *)
(* to the first that wait.                                                  *)
Released(state, n) ==
  LET given == IF n < Len(slots) THEN n ELSE Len(slots) IN
  /\ chunk' = [t \in Transfers |-> [i \in Indices(t) |->
       IF \E k \in 1..given : slots[k] = <<t, i>> THEN "holding" ELSE state[t][i]]]
  /\ slots' = SubSeq(slots, given + 1, Len(slots))
  /\ active' = active - (n - given)

(* A chunk that has its slot is sent, unless the peer was disconnected      *)
(* since the transfer began, or is.                                         *)
Send(t, i) ==
  /\ chunk[t][i] = "holding"
  /\ IF transfer[t].generation = generation /\ online.sender
     THEN /\ chunk' = [chunk EXCEPT ![t][i] = "waiting"]
          /\ net' = net \cup {[type |-> "chunk", of |-> t, index |-> i, window |-> 0]}
          /\ UNCHANGED <<slots, active>>
     ELSE Released([chunk EXCEPT ![t][i] = "failed"], 1) /\ UNCHANGED net
  /\ UNCHANGED <<transfer, generation, assembly, online, faults, accepted, delivered>>

(* acknowledge: the first acknowledgment says how wide the receiver reads.  *)
TakeAck(a) ==
  /\ a \in net /\ a.type = "ack" /\ online.sender
  /\ net' = net \ {a}
  /\ IF chunk[a.of][a.index] = "waiting"
     THEN /\ Released([chunk EXCEPT ![a.of][a.index] = "acked"], 1)
          /\ transfer' = IF a.index = 0 THEN [transfer EXCEPT ![a.of].window = a.window] ELSE transfer
     ELSE UNCHANGED <<transfer, chunk, slots, active>>
  /\ UNCHANGED <<generation, assembly, online, faults, accepted, delivered>>

OnTheWay(t, i) == \E f \in net : f.of = t /\ f.index = i

(* The acknowledgment timer, which may come before the acknowledgment.      *)
TimeOut(t, i) ==
  /\ chunk[t][i] = "waiting"
  /\ OnTheWay(t, i) => faults < MaxFaults
  /\ faults' = IF OnTheWay(t, i) THEN faults + 1 ELSE faults
  /\ Released([chunk EXCEPT ![t][i] = "failed"], 1)
  /\ UNCHANGED <<transfer, generation, net, assembly, online, accepted, delivered>>

(* transmit goes on when its window is through.                             *)
Continue(t) ==
  LET k == transfer[t]
      from == k.to + 1
      to == IF k.to + k.window < Chunks[t] THEN k.to + k.window ELSE Chunks[t] - 1
  IN
  /\ k.stage = "sending"
  /\ \A i \in k.from .. k.to : chunk[t][i] = "acked"
  /\ IF from = Chunks[t]
     THEN transfer' = [transfer EXCEPT ![t].stage = "done"] /\ UNCHANGED <<chunk, slots, active>>
     ELSE transfer' = [transfer EXCEPT ![t] = [k EXCEPT !.from = from, !.to = to]] /\ Asked(t, from, to)
  /\ UNCHANGED <<generation, net, assembly, online, faults, accepted, delivered>>

(* The first of its chunks that fails ends it; the others keep their slots. *)
GiveUp(t) ==
  /\ transfer[t].stage = "sending"
  /\ \E i \in transfer[t].from .. transfer[t].to : chunk[t][i] = "failed"
  /\ transfer' = [transfer EXCEPT ![t].stage = "failed"]
  /\ UNCHANGED <<chunk, slots, active, generation, net, assembly, online, faults, accepted, delivered>>

Under(type) == {f \in net : f.type = type}

\* Mutant: what waits for a slot is forgotten.
CutSenderForgets ==
  /\ online.sender /\ faults < MaxFaults
  /\ online' = [online EXCEPT !.sender = FALSE]
  /\ faults' = faults + 1
  /\ generation' = generation + 1
  /\ slots' = <<>>
  /\ LET waiting == {p \in Parts : chunk[p[1]][p[2]] = "waiting"} IN
     /\ chunk' = [t \in Transfers |-> [i \in Indices(t) |->
                   IF <<t, i>> \in waiting THEN "failed" ELSE chunk[t][i]]]
     /\ active' = active - Cardinality(waiting)
  /\ UNCHANGED <<transfer, net, assembly, accepted, delivered>>

(* reset, when the sender's connection closes: what waits for an            *)
(* acknowledgment fails; what waits for a slot is left to find out.  Chunks *)
(* the connection was carrying may be gone.                                 *)
CutSender ==
  /\ online.sender /\ faults < MaxFaults
  /\ online' = [online EXCEPT !.sender = FALSE]
  /\ faults' = faults + 1
  /\ generation' = generation + 1
  /\ LET waiting == {p \in Parts : chunk[p[1]][p[2]] = "waiting"} IN
     Released([t \in Transfers |-> [i \in Indices(t) |->
                IF <<t, i>> \in waiting THEN "failed" ELSE chunk[t][i]]], Cardinality(waiting))
  /\ \E lost \in SUBSET Under("chunk") : net' = net \ lost
  /\ UNCHANGED <<transfer, assembly, accepted, delivered>>

---------------------------------------------------------------------------
(* The receiver.                                                            *)

(* What it still keeps when a chunk comes: the sweep is receive's.          *)
Swept == [t \in Transfers |-> IF assembly[t].old THEN NoAssembly ELSE assembly[t]]
Kept(open) == Cardinality({p \in Parts : p[2] \in open[p[1]].parts})
Open(open) == {t \in Transfers : open[t].open}

(* A chunk that does not fit what the receiver has is refused.              *)
Refused(item, i, isLast, open) ==
  \/ ~item.open /\ (Cardinality(Open(open)) >= MaxAssemblies \/ i # 0)
  \/ i >= item.next + Window
  \/ i \in item.parts
  \/ item.last # -1 /\ i > item.last
  \/ isLast /\ (item.last # -1 \/ \E j \in item.parts : j > i)

\* The first index missing.
Next1(parts, n) == CHOOSE j \in 0..n : j \notin parts /\ \A k \in 0 .. j - 1 : k \in parts

Taken(item, t, i) ==
  [open |-> TRUE, parts |-> item.parts \cup {i}, next |-> Next1(item.parts \cup {i}, Chunks[t]),
   last |-> IF i = Chunks[t] - 1 THEN i ELSE item.last, old |-> FALSE]

\* Mutant: the last chunk completes the text.
CompleteAtLast(item) == item.last \in item.parts
Complete(item) == item.last # -1 /\ item.next = item.last + 1

(* receive: the chunk is kept and acknowledged; the last one missing makes  *)
(* the text complete.  A chunk that was decrypted while the connection      *)
(* closed is kept as well, but its acknowledgment cannot be sent, and what  *)
(* it completes is not handed on.  An older relay wants no window.          *)
Receive(f) ==
  /\ f \in net /\ f.type = "chunk"
  /\ LET t == f.of
         taken == Taken(Swept[t], t, f.index)
         full == [Swept EXCEPT ![t] = taken]
     IN
     IF Refused(Swept[t], f.index, f.index = Chunks[t] - 1, Swept) \/ Kept(full) > Room
     THEN /\ assembly' = IF Refused(Swept[t], f.index, f.index = Chunks[t] - 1, Swept) THEN Swept
                         ELSE [Swept EXCEPT ![t] = NoAssembly]
          /\ net' = net \ {f}
          /\ UNCHANGED <<accepted, delivered>>
     ELSE /\ assembly' = IF Complete(taken) THEN [Swept EXCEPT ![t] = NoAssembly] ELSE full
          /\ \E w \in IF f.index = 0 THEN {1, Window} ELSE {1} :
               net' = (net \ {f}) \cup
                 {a \in {[type |-> "ack", of |-> t, index |-> f.index, window |-> w]} : online.receiver}
          /\ accepted' = [accepted EXCEPT ![t] = @ \cup {f.index}]
          /\ delivered' = IF Complete(taken) /\ online.receiver
                          THEN [delivered EXCEPT ![t] = @ + 1] ELSE delivered
  /\ UNCHANGED <<transfer, chunk, slots, active, generation, online, faults>>

(* A minute without a chunk.                                                *)
Age(t) ==
  /\ assembly[t].open /\ ~assembly[t].old
  /\ transfer[t].stage = "failed" \/ faults < MaxFaults
  /\ faults' = IF transfer[t].stage = "failed" THEN faults ELSE faults + 1
  /\ assembly' = [assembly EXCEPT ![t].old = TRUE]
  /\ UNCHANGED <<transfer, chunk, slots, active, generation, net, online, accepted, delivered>>

(* reset, when the receiver's connection closes.  Acknowledgments it was    *)
(* carrying may be gone.                                                    *)
CutReceiver ==
  /\ online.receiver /\ faults < MaxFaults
  /\ online' = [online EXCEPT !.receiver = FALSE]
  /\ faults' = faults + 1
  /\ assembly' = [t \in Transfers |-> NoAssembly]
  /\ \E lost \in SUBSET Under("ack") : net' = net \ lost
  /\ UNCHANGED <<transfer, chunk, slots, active, generation, accepted, delivered>>

Reconnect ==
  /\ online.sender = FALSE \/ online.receiver = FALSE
  /\ online' = [sender |-> TRUE, receiver |-> TRUE]
  /\ UNCHANGED <<transfer, chunk, slots, active, generation, net, assembly, faults, accepted, delivered>>

(* A frame is lost: refused or expired at the relay, or taken by a peer     *)
(* whose connection closed before it was handled.                           *)
Lose(f) ==
  /\ f \in net /\ faults < MaxFaults
  /\ net' = net \ {f}
  /\ faults' = faults + 1
  /\ UNCHANGED <<transfer, chunk, slots, active, generation, assembly, online, accepted, delivered>>

---------------------------------------------------------------------------
Next ==
  \/ \E t \in Transfers : Start(t) \/ Continue(t) \/ GiveUp(t) \/ Age(t)
  \/ \E t \in Transfers : \E i \in Indices(t) : Send(t, i) \/ TimeOut(t, i)
  \/ \E f \in net : TakeAck(f) \/ Receive(f) \/ Lose(f)
  \/ CutSender \/ CutReceiver \/ Reconnect

(* Promises go on, timers fire, the relay delivers, peers connect again.    *)
Fairness ==
  /\ \A t \in Transfers : WF_vars(Continue(t)) /\ WF_vars(GiveUp(t))
  /\ \A p \in Parts : WF_vars(Send(p[1], p[2])) /\ WF_vars(TimeOut(p[1], p[2]))
  /\ WF_vars(\E f \in net : TakeAck(f) \/ Receive(f))
  /\ WF_vars(Reconnect)

Spec == Init /\ [][Next]_vars /\ Fairness

---------------------------------------------------------------------------
Frames == [type : {"chunk", "ack"}, of : Transfers, index : Nat, window : {0, 1, Window}]

TypeOK ==
  /\ transfer \in [Transfers -> [stage : {"idle", "sending", "done", "failed"}, from : Nat, to : Nat,
                                 window : {1, Window}, generation : Nat]]
  /\ DOMAIN chunk = Transfers
  /\ \A t \in Transfers :
       chunk[t] \in [Indices(t) -> {"none", "queued", "holding", "waiting", "acked", "failed"}]
  /\ slots \in Seq(Parts) /\ active \in Nat /\ generation \in Nat
  /\ net \subseteq Frames /\ \A f \in net : f.index < Chunks[f.of]
  /\ assembly \in [Transfers -> [open : BOOLEAN, parts : SUBSET Nat, next : Nat,
                                 last : Nat \cup {-1}, old : BOOLEAN]]
  /\ online \in [sender : BOOLEAN, receiver : BOOLEAN]
  /\ faults \in Nat
  /\ accepted \in [Transfers -> SUBSET Nat]
  /\ delivered \in [Transfers -> Nat]

(* A text is handed on whole and at most once, and a sender that was told   *)
(* its text is across is right, whatever was lost, cut or late meanwhile.   *)
WholeOnce ==
  \A t \in Transfers :
    /\ delivered[t] <= 1
    /\ delivered[t] = 1 => accepted[t] = Indices(t)
    /\ transfer[t].stage = "done" => delivered[t] = 1

(* The slots taken are those of chunks under way; nobody queues while one   *)
(* is free, and whoever queues will be called.                              *)
SlotsAccounted ==
  /\ active = Cardinality({p \in Parts : Holds(p[1], p[2])})
  /\ active <= PeerWindow
  /\ slots # <<>> => active = PeerWindow
  /\ \A p \in Parts : chunk[p[1]][p[2]] = "queued" <=> \E k \in 1..Len(slots) : slots[k] = p

Started == {t \in Transfers : transfer[t].stage # "idle"}

(* Reordered chunks alone never make a receiver refuse one: without a fault *)
(* every transfer succeeds, as long as the receiver has room for all.       *)
NoFailureWithoutFault ==
  /\ faults = 0
  /\ Cardinality(Started) <= MaxAssemblies
  /\ Cardinality({p \in Parts : p[1] \in Started}) <= Room
  => \A t \in Transfers : transfer[t].stage # "failed"

(* A transfer ends, and its chunks give their slots back.                   *)
TransfersEnd ==
  \A t \in Transfers :
    transfer[t].stage = "sending" ~>
      /\ transfer[t].stage \in {"done", "failed"}
      /\ \A i \in Indices(t) : ~Holds(t, i)
===============================================================================
