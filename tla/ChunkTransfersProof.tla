------------------------- MODULE ChunkTransfersProof -------------------------
(* A long text arrives whole and at most once, a sender that was told so is *)
(* right, and the slots for chunks are accounted for, proved for any number *)
(* of transfers and chunks, any window and any number of faults; and where  *)
(* there are no faults, no transfer fails.                                  *)
EXTENDS ChunkTransfers, TLAPS, FiniteSetTheorems, SequenceTheorems, WellFoundedInduction

---------------------------------------------------------------------------
(* The strengthening.                                                       *)

States == {"none", "queued", "holding", "waiting", "acked", "failed"}
Stages == {"idle", "sending", "done", "failed"}

SenderShape ==
  /\ transfer \in [Transfers -> [stage : Stages, from : Nat, to : Nat, window : {1, Window},
                                 generation : Nat]]
  /\ DOMAIN chunk = Transfers
  /\ \A t \in Transfers : chunk[t] \in [Indices(t) -> States]
  /\ active \in Int /\ active <= PeerWindow
  /\ generation \in Nat

ReceiverShape ==
  /\ assembly \in [Transfers -> [open : BOOLEAN, parts : SUBSET Nat, next : Nat,
                                 last : Nat \cup {-1}, old : BOOLEAN]]
  /\ accepted \in [Transfers -> SUBSET Nat]
  /\ \A t \in Transfers : accepted[t] \subseteq Indices(t)
  /\ delivered \in [Transfers -> Nat]

NetShape ==
  /\ net \subseteq Frames
  /\ \A f \in net : f.index \in Indices(f.of)
  /\ \A f \in net : IF f.type = "ack" THEN f.window \in {1, Window} ELSE f.window = 0

(* A chunk queues for a slot at one place, and before it is sent.           *)
SlotsOK ==
  /\ slots \in Seq(Parts)
  /\ \A k \in 1..Len(slots) : chunk[slots[k][1]][slots[k][2]] = "queued"
  /\ \A j, k \in 1..Len(slots) : slots[j] = slots[k] => j = k

(* What is beyond the window of a transfer was not begun.                   *)
NotYet ==
  \A t \in Transfers :
    /\ transfer[t].stage = "idle" =>
         /\ transfer[t].from = 0 /\ transfer[t].to = 0
         /\ \A i \in Indices(t) : chunk[t][i] = "none"
    /\ transfer[t].stage = "sending" =>
         /\ transfer[t].from <= transfer[t].to
         /\ transfer[t].to < Chunks[t]
         /\ \A i \in Indices(t) : i > transfer[t].to => chunk[t][i] = "none"

(* What a transfer has behind it is acknowledged.                           *)
BehindAcked ==
  \A t \in Transfers :
    /\ transfer[t].stage = "sending" =>
         \A i \in Indices(t) : i < transfer[t].from => chunk[t][i] = "acked"
    /\ transfer[t].stage = "done" => \A i \in Indices(t) : chunk[t][i] = "acked"

Sent(t, i) == \E f \in net : f.type = "chunk" /\ f.of = t /\ f.index = i
Acking(t, i) == \E f \in net : f.type = "ack" /\ f.of = t /\ f.index = i

(* A chunk is on its way at most until it is taken, and is sent once.       *)
SentOnce ==
  \A t \in Transfers : \A i \in Indices(t) :
    /\ Sent(t, i) => i \notin accepted[t]
    /\ Sent(t, i) \/ i \in accepted[t] => chunk[t][i] \in {"waiting", "acked", "failed"}

(* Only what the receiver took is acknowledged.                             *)
AckedAccepted ==
  \A t \in Transfers : \A i \in Indices(t) :
    Acking(t, i) \/ chunk[t][i] = "acked" => i \in accepted[t]

(* A text that was not handed on has a chunk nobody will acknowledge.       *)
Unacknowledged(t) ==
  \E i \in Indices(t) : i \in accepted[t] /\ ~Acking(t, i) /\ chunk[t][i] # "acked"

CompleteOrFails ==
  \A t \in Transfers :
    /\ delivered[t] \in {0, 1}
    /\ delivered[t] = 1 => accepted[t] = Indices(t)
    /\ accepted[t] = Indices(t) => delivered[t] = 1 \/ Unacknowledged(t)

(* An assembly that is open has every chunk that was taken, and lacks one.  *)
OpenHasAll ==
  \A t \in Transfers :
    /\ assembly[t].open =>
         /\ assembly[t].parts = accepted[t]
         /\ assembly[t].last = IF Chunks[t] - 1 \in accepted[t] THEN Chunks[t] - 1 ELSE -1
         /\ 0 \in accepted[t]
         /\ accepted[t] # Indices(t)
    /\ ~assembly[t].open => assembly[t].parts = {} /\ assembly[t].last = -1

(* Without its first chunk no text is begun.                                *)
FirstFirst == \A t \in Transfers : accepted[t] # {} => 0 \in accepted[t]

IInv ==
  /\ SenderShape /\ ReceiverShape /\ NetShape
  /\ SlotsOK /\ NotYet /\ BehindAcked
  /\ SentOnce /\ AckedAccepted /\ CompleteOrFails
  /\ OpenHasAll /\ FirstFirst

---------------------------------------------------------------------------
(* Data.                                                                    *)

LEMMA IndicesNat ==
  ASSUME NEW t \in Transfers
  PROVE  /\ Chunks[t] \in Nat \ {0}
         /\ \A i : i \in Indices(t) <=> i \in Nat /\ i < Chunks[t]
         /\ 0 \in Indices(t) /\ Chunks[t] - 1 \in Indices(t)
<1>1. Chunks[t] \in Nat \ {0}
  BY ChunkConstants
<1> QED
  BY <1>1 DEF Indices

LEMMA PartsPairs ==
  /\ \A t \in Transfers : \A i \in Indices(t) : <<t, i>> \in Parts
  /\ \A p \in Parts : p[1] \in Transfers /\ p[2] \in Indices(p[1]) /\ p = <<p[1], p[2]>>
BY DEF Parts

LEMMA PartsFinite == IsFiniteSet(Parts)
<1>1. \A t \in Transfers : IsFiniteSet({t} \X Indices(t))
  <2>1. TAKE t \in Transfers
  <2>2. Chunks[t] - 1 \in Int
    BY <2>1, ChunkConstants
  <2>3. IsFiniteSet(Indices(t))
    BY <2>2, FS_Interval DEF Indices
  <2>4. IsFiniteSet({t})
    BY FS_Singleton
  <2> QED
    BY <2>3, <2>4, FS_Product
<1> DEFINE S == {{t} \X Indices(t) : t \in Transfers}
<1>2. IsFiniteSet(S)
  <2>1. IsFiniteSet(Transfers)
    BY ChunkConstants
  <2> DEFINE g == [t \in Transfers |-> {t} \X Indices(t)]
  <2>2. g \in Surjection(Transfers, S)
    BY DEF Surjection
  <2> QED
    BY <2>1, <2>2, FS_Surjection
<1>3. \A s \in S : IsFiniteSet(s)
  BY <1>1
<1>4. IsFiniteSet(UNION S)
  BY <1>2, <1>3, FS_UNION
<1> QED
  BY <1>4 DEF Parts

(* The first index missing is found.                                        *)
LEMMA FirstMissing ==
  ASSUME NEW n \in Nat, NEW parts \in SUBSET (0 .. n - 1)
  PROVE  /\ Next1(parts, n) \in 0 .. n
         /\ Next1(parts, n) = n <=> parts = 0 .. n - 1
<1> DEFINE missing == {j \in 0..n : j \notin parts}
           good(j) == j \notin parts /\ \A k \in 0 .. j - 1 : k \in parts
<1>1. n \in missing
  OBVIOUS
<1> DEFINE less == {p \in Nat \X Nat : p[1] < p[2]}
<1>0. IsWellFoundedOn(less, Nat)
  BY NatLessThanWellFounded DEF OpToRel
<1>2. PICK x \in missing : \A y \in missing : ~(<<y, x>> \in less)
  <2>1. missing \subseteq Nat /\ missing # {}
    BY <1>1
  <2> HIDE DEF missing, less
  <2> QED
    BY <1>0, <2>1, WFMin, Zenon
<1>3. \E j \in 0..n : good(j)
  <2>1. ASSUME NEW k \in 0 .. x - 1, k \notin parts PROVE FALSE
    <3>1. k \in missing /\ k \in Nat /\ x \in Nat /\ k < x
      BY <2>1
    <3>2. <<k, x>> \in less
      BY <3>1
    <3> QED
      BY <1>2, <3>1, <3>2
  <2> QED
    BY <2>1
<1>4. Next1(parts, n) \in 0..n /\ good(Next1(parts, n))
  BY <1>3 DEF Next1
<1> HIDE DEF good
<1>5. ASSUME Next1(parts, n) = n PROVE parts = 0 .. n - 1
  BY <1>4, <1>5 DEF good
<1>6. ASSUME parts = 0 .. n - 1 PROVE Next1(parts, n) = n
  BY <1>4, <1>6 DEF good
<1> QED
  BY <1>4, <1>5, <1>6

---------------------------------------------------------------------------
(* The slots.                                                               *)

(* Nothing but chunks that queue changes when a slot is passed on.          *)
LEMMA ReleasedSlots ==
  ASSUME SlotsOK, active \in Int, active <= PeerWindow,
         NEW state, NEW n \in Nat, Released(state, n),
         DOMAIN state = Transfers,
         \A t \in Transfers : state[t] \in [Indices(t) -> States],
         \A k \in 1..Len(slots) : state[slots[k][1]][slots[k][2]] = "queued"
  PROVE  /\ SlotsOK'
         /\ active' \in Int /\ active' <= PeerWindow
         /\ DOMAIN chunk' = Transfers
         /\ \A t \in Transfers : chunk'[t] \in [Indices(t) -> States]
         /\ \A t \in Transfers : \A i \in Indices(t) :
              \/ chunk'[t][i] = state[t][i]
              \/ state[t][i] = "queued" /\ chunk'[t][i] = "holding"
<1> DEFINE given == IF n < Len(slots) THEN n ELSE Len(slots)
<1>1. slots \in Seq(Parts) /\ Len(slots) \in Nat /\ given \in Nat /\ given <= Len(slots) /\ given <= n
  BY DEF SlotsOK
<1>2. /\ chunk' = [t \in Transfers |-> [i \in Indices(t) |->
            IF \E k \in 1..given : slots[k] = <<t, i>> THEN "holding" ELSE state[t][i]]]
      /\ slots' = SubSeq(slots, given + 1, Len(slots))
      /\ active' = active - (n - given)
  BY DEF Released
<1> HIDE DEF given
<1>3. active' \in Int /\ active' <= PeerWindow
  BY <1>1, <1>2, ChunkConstants
<1>4. \A t \in Transfers : \A i \in Indices(t) :
        /\ chunk'[t][i] = IF \E k \in 1..given : slots[k] = <<t, i>> THEN "holding" ELSE state[t][i]
        /\ chunk'[t][i] \in States
  BY <1>2 DEF States
<1>5. DOMAIN chunk' = Transfers /\ \A t \in Transfers : chunk'[t] \in [Indices(t) -> States]
  BY <1>2, <1>4
<1>6. ASSUME NEW t \in Transfers, NEW i \in Indices(t)
      PROVE  \/ chunk'[t][i] = state[t][i]
             \/ state[t][i] = "queued" /\ chunk'[t][i] = "holding"
  <2>1. CASE \E k \in 1..given : slots[k] = <<t, i>>
    <3>1. PICK k \in 1..given : slots[k] = <<t, i>>
      BY <2>1
    <3>2. state[t][i] = "queued"
      BY <1>1, <3>1
    <3> QED
      BY <1>4, <2>1, <3>2
  <2>2. CASE ~ \E k \in 1..given : slots[k] = <<t, i>>
    BY <1>4, <2>2
  <2> QED
    BY <2>1, <2>2
<1>7. /\ slots' \in Seq(Parts)
      /\ Len(slots') = Len(slots) - given
      /\ \A k \in 1..Len(slots') : k + given \in 1..Len(slots) /\ slots'[k] = slots[k + given]
  <2> DEFINE first == given + 1
             last == Len(slots)
  <2>1. first \in 1 .. Len(slots) + 1 /\ last \in first - 1 .. Len(slots)
    BY <1>1
  <2> HIDE DEF first, last
  <2>2. /\ SubSeq(slots, first, last) \in Seq(Parts)
        /\ Len(SubSeq(slots, first, last)) = IF first <= last THEN last - first + 1 ELSE 0
        /\ \A k \in 1 .. last - first + 1 : SubSeq(slots, first, last)[k] = slots[first + k - 1]
    BY <1>1, <2>1, SubSeqProperties
  <2>3. /\ slots' \in Seq(Parts) /\ Len(slots') = Len(slots) - given
        /\ \A k \in 1 .. Len(slots) - given : slots'[k] = slots[first + k - 1]
    BY <1>1, <1>2, <2>2 DEF first, last
  <2>4. \A k \in 1 .. Len(slots) - given : k + given \in 1..Len(slots) /\ first + k - 1 = k + given
    BY <1>1 DEF first
  <2> QED
    BY <2>3, <2>4
<1>8. ASSUME NEW k \in 1..Len(slots')
      PROVE  chunk'[slots'[k][1]][slots'[k][2]] = "queued"
  <2> DEFINE p == slots[k + given]
  <2>1. k + given \in 1..Len(slots) /\ slots'[k] = p
    BY <1>7
  <2>2. p \in Parts
    BY <1>1, <2>1
  <2>3. p[1] \in Transfers /\ p[2] \in Indices(p[1]) /\ p = <<p[1], p[2]>>
    BY <2>2, PartsPairs
  <2>4. ~ \E j \in 1..given : slots[j] = p
    BY <1>1, <2>1 DEF SlotsOK
  <2>5. state[p[1]][p[2]] = "queued"
    BY <2>1
  <2> HIDE DEF p
  <2>6. chunk'[p[1]][p[2]] = IF \E j \in 1..given : slots[j] = <<p[1], p[2]>> THEN "holding" ELSE state[p[1]][p[2]]
    BY <1>4, <2>3
  <2>7. chunk'[p[1]][p[2]] = state[p[1]][p[2]]
    BY <2>3, <2>4, <2>6
  <2> QED
    BY <2>1, <2>5, <2>7
<1>9. ASSUME NEW j \in 1..Len(slots'), NEW k \in 1..Len(slots'), slots'[j] = slots'[k]
      PROVE  j = k
  <2>1. /\ j + given \in 1..Len(slots) /\ slots'[j] = slots[j + given]
        /\ k + given \in 1..Len(slots) /\ slots'[k] = slots[k + given]
    BY <1>7
  <2>2. slots[j + given] = slots[k + given]
    BY <1>9, <2>1
  <2>3. j + given = k + given
    BY <2>1, <2>2 DEF SlotsOK
  <2>4. j \in Int /\ k \in Int
    BY <1>1, <1>7
  <2> QED
    BY <1>1, <2>3, <2>4
<1> QED
  BY <1>3, <1>5, <1>6, <1>7, <1>8, <1>9 DEF SlotsOK

(* Chunks that ask for slots get one or queue, and no other chunk changes.  *)
LEMMA AskedSlots ==
  ASSUME SlotsOK, SenderShape,
         NEW t \in Transfers, NEW from \in Nat, NEW to \in Nat,
         from <= to, to < Chunks[t],
         \A i \in from .. to : chunk[t][i] = "none",
         Asked(t, from, to)
  PROVE  /\ SlotsOK'
         /\ active' \in Int /\ active' <= PeerWindow
         /\ DOMAIN chunk' = Transfers
         /\ \A u \in Transfers : chunk'[u] \in [Indices(u) -> States]
         /\ \A u \in Transfers : \A i \in Indices(u) :
              \/ chunk'[u][i] = chunk[u][i]
              \/ u = t /\ i \in from .. to /\ chunk'[u][i] \in {"queued", "holding"}
<1> DEFINE taken == IF PeerWindow - active < to - from + 1 THEN PeerWindow - active ELSE to - from + 1
           rest == to - from + 1 - taken
           more == [k \in 1 .. rest |-> <<t, from + taken + k - 1>>]
<1>1. /\ taken \in Nat /\ taken <= to - from + 1 /\ taken <= PeerWindow - active
      /\ rest \in Nat /\ rest = to - from + 1 - taken
  BY ChunkConstants DEF SenderShape
<1>2. /\ chunk' = [chunk EXCEPT ![t] = [i \in Indices(t) |->
            IF i \in from .. from + taken - 1 THEN "holding"
            ELSE IF i \in from .. to THEN "queued" ELSE chunk[t][i]]]
      /\ active' = active + taken
      /\ slots' = slots \o more
  BY DEF Asked
<1> HIDE DEF taken, rest
<1>3. active' \in Int /\ active' <= PeerWindow
  BY <1>1, <1>2, ChunkConstants DEF SenderShape
<1>4. Chunks[t] \in Nat /\ \A i : i \in Indices(t) <=> i \in Nat /\ i < Chunks[t]
  BY IndicesNat
<1>5. /\ DOMAIN chunk' = Transfers
      /\ \A u \in Transfers : u # t => chunk'[u] = chunk[u]
      /\ chunk'[t] = [i \in Indices(t) |->
            IF i \in from .. from + taken - 1 THEN "holding"
            ELSE IF i \in from .. to THEN "queued" ELSE chunk[t][i]]
  BY <1>2 DEF SenderShape
<1>6. \A u \in Transfers : chunk'[u] \in [Indices(u) -> States]
  BY <1>5 DEF SenderShape, States
<1>7. \A u \in Transfers : \A i \in Indices(u) :
        \/ chunk'[u][i] = chunk[u][i]
        \/ u = t /\ i \in from .. to /\ chunk'[u][i] \in {"queued", "holding"}
  BY <1>1, <1>4, <1>5
<1>8. \A k \in 1..rest : /\ more[k] = <<t, from + taken + k - 1>>
                         /\ from + taken + k - 1 \in from + taken .. to
                         /\ from + taken + k - 1 \in Indices(t)
  BY <1>1, <1>4
<1>9. more \in Seq(Parts) /\ Len(more) = rest
  <2>1. \A k \in 1..rest : more[k] \in Parts
    BY <1>8, PartsPairs
  <2>2. more \in [1..rest -> Parts]
    BY <2>1
  <2> HIDE DEF more
  <2>3. more \in Seq(Parts)
    BY <1>1, <2>2, SeqDef
  <2> QED
    BY <1>1, <2>2, <2>3, LenProperties
<1> HIDE DEF more
<1>10. slots \in Seq(Parts)
  BY DEF SlotsOK
<1>11. /\ slots' \in Seq(Parts)
       /\ Len(slots') = Len(slots) + rest
       /\ \A k \in 1..Len(slots') : slots'[k] = IF k <= Len(slots) THEN slots[k] ELSE more[k - Len(slots)]
  <2>1. /\ slots \o more \in Seq(Parts)
        /\ Len(slots \o more) = Len(slots) + Len(more)
        /\ \A k \in 1..Len(slots) + Len(more) :
             (slots \o more)[k] = IF k <= Len(slots) THEN slots[k] ELSE more[k - Len(slots)]
    BY <1>9, <1>10, ConcatProperties
  <2> QED
    BY <1>2, <1>9, <2>1
<1>12. \A k \in 1..Len(slots) : /\ slots[k] \in Parts
                                /\ chunk[slots[k][1]][slots[k][2]] = "queued"
  BY <1>10 DEF SlotsOK
<1>13. ASSUME NEW k \in 1..Len(slots')
       PROVE  chunk'[slots'[k][1]][slots'[k][2]] = "queued"
  <2>1. CASE k <= Len(slots)
    <3> DEFINE p == slots[k]
    <3>1. slots'[k] = p /\ p \in Parts /\ chunk[p[1]][p[2]] = "queued"
      BY <1>10, <1>11, <1>12, <2>1
    <3>2. p[1] \in Transfers /\ p[2] \in Indices(p[1])
      BY <3>1, PartsPairs
    <3> HIDE DEF p
    <3> QED
      BY <1>7, <3>1, <3>2
  <2>2. CASE ~(k <= Len(slots))
    <3>1. k - Len(slots) \in 1..rest /\ slots'[k] = more[k - Len(slots)]
      BY <1>1, <1>10, <1>11, <2>2
    <3>2. PICK i \in from + taken .. to : slots'[k] = <<t, i>>
      BY <1>8, <3>1
    <3>3. i \in Indices(t) /\ i \in from .. to /\ i \notin from .. from + taken - 1
      BY <1>1, <1>4
    <3>4. chunk'[t][i] = "queued"
      BY <1>5, <3>3
    <3> QED
      BY <3>2, <3>4
  <2> QED
    BY <2>1, <2>2
<1>14. ASSUME NEW j \in 1..Len(slots'), NEW k \in 1..Len(slots'), slots'[j] = slots'[k]
       PROVE  j = k
  <2>1. ASSUME NEW x \in 1..Len(slots), NEW y \in 1..rest PROVE slots[x] # more[y]
    <3>1. chunk[t][from + taken + y - 1] = "none"
      BY <1>1, <1>8
    <3>2. more[y] = <<t, from + taken + y - 1>>
      BY <1>8
    <3> QED
      BY <1>12, <3>1, <3>2
  <2>2. \A x, y \in 1..rest : more[x] = more[y] => x = y
    BY <1>1, <1>8
  <2>3. \A x, y \in 1..Len(slots) : slots[x] = slots[y] => x = y
    BY DEF SlotsOK
  <2> DEFINE l == Len(slots)
  <2>4. /\ l \in Nat /\ j \in 1..(l + rest) /\ k \in 1..(l + rest)
        /\ slots'[j] = IF j <= l THEN slots[j] ELSE more[j - l]
        /\ slots'[k] = IF k <= l THEN slots[k] ELSE more[k - l]
    BY <1>10, <1>11
  <2> HIDE DEF l
  <2>5. CASE j <= l /\ k <= l
    <3>0. slots'[j] = slots[j] /\ slots'[k] = slots[k]
      BY <2>4, <2>5
    <3>1. j \in 1..l /\ k \in 1..l
      BY <1>1, <2>4, <2>5
    <3>2. slots[j] = slots[k]
      BY <1>14, <3>0, Zenon
    <3> QED
      BY <2>3, <3>1, <3>2 DEF l
  <2>6. CASE j <= l /\ ~(k <= l)
    <3>1. j \in 1..l /\ k - l \in 1..rest
      BY <1>1, <2>4, <2>6
    <3> QED
      BY <1>14, <2>1, <2>4, <2>6, <3>1 DEF l
  <2>7. CASE ~(j <= l) /\ k <= l
    <3>1. k \in 1..l /\ j - l \in 1..rest
      BY <1>1, <2>4, <2>7
    <3> QED
      BY <1>14, <2>1, <2>4, <2>7, <3>1 DEF l
  <2>8. CASE ~(j <= l) /\ ~(k <= l)
    <3>1. j - l \in 1..rest /\ k - l \in 1..rest
      BY <1>1, <2>4, <2>8
    <3>2. j - l = k - l
      BY <1>14, <2>2, <2>4, <2>8, <3>1
    <3> QED
      BY <2>4, <3>2
  <2> QED
    BY <2>5, <2>6, <2>7, <2>8
<1> QED
  BY <1>3, <1>5, <1>6, <1>7, <1>11, <1>13, <1>14 DEF SlotsOK

---------------------------------------------------------------------------
(* The sender's steps.                                                      *)

(* How a chunk may go on.                                                   *)
Moved ==
  \A t \in Transfers : \A i \in Indices(t) :
    \/ chunk'[t][i] = chunk[t][i]
    \/ chunk[t][i] \in {"none", "queued"} /\ chunk'[t][i] \in {"queued", "holding"}
    \/ chunk[t][i] = "holding" /\ chunk'[t][i] \in {"waiting", "failed"}
    \/ chunk[t][i] = "waiting" /\ chunk'[t][i] = "failed"
    \/ chunk[t][i] = "waiting" /\ chunk'[t][i] = "acked" /\ Acking(t, i)

(* A frame is new only when a chunk that has a slot is sent.                *)
NetFrom ==
  \A f \in net' :
    \/ f \in net
    \/ /\ f.type = "chunk"
       /\ chunk[f.of][f.index] = "holding" /\ chunk'[f.of][f.index] = "waiting"

LEMMA TablesKeep ==
  ASSUME IInv, Moved, NetFrom, UNCHANGED <<accepted, delivered>>,
         assembly' \in [Transfers -> [open : BOOLEAN, parts : SUBSET Nat, next : Nat,
                                      last : Nat \cup {-1}, old : BOOLEAN]],
         \A t \in Transfers :
           \/ /\ assembly'[t].open /\ assembly[t].open
              /\ assembly'[t].parts = assembly[t].parts /\ assembly'[t].last = assembly[t].last
           \/ ~assembly'[t].open /\ assembly'[t].parts = {} /\ assembly'[t].last = -1,
         SenderShape', NetShape', SlotsOK', NotYet', BehindAcked'
  PROVE  IInv'
<1>1. ASSUME NEW t \in Transfers, NEW i \in Indices(t), Acking(t, i)'
      PROVE  Acking(t, i)
  BY <1>1 DEF NetFrom, Acking
<1>2. ASSUME NEW t \in Transfers, NEW i \in Indices(t), Sent(t, i)'
      PROVE  Sent(t, i) \/ (chunk[t][i] = "holding" /\ chunk'[t][i] = "waiting")
  <2>1. PICK f \in net' : f.type = "chunk" /\ f.of = t /\ f.index = i
    BY <1>2 DEF Sent
  <2>2. CASE f \in net
    BY <2>1, <2>2 DEF Sent
  <2>3. CASE f \notin net
    BY <2>1, <2>3 DEF NetFrom
  <2> QED
    BY <2>2, <2>3
<1>3. SentOnce'
  <2> SUFFICES ASSUME NEW t \in Transfers, NEW i \in Indices(t)
               PROVE  /\ Sent(t, i)' => i \notin accepted[t]
                      /\ Sent(t, i)' \/ i \in accepted[t] => chunk'[t][i] \in {"waiting", "acked", "failed"}
    BY DEF SentOnce
  <2>1. /\ Sent(t, i) => i \notin accepted[t]
        /\ Sent(t, i) \/ i \in accepted[t] => chunk[t][i] \in {"waiting", "acked", "failed"}
    BY DEF IInv, SentOnce
  <2>2. chunk[t][i] \in {"waiting", "acked", "failed"} => chunk'[t][i] \in {"waiting", "acked", "failed"}
    BY DEF Moved
  <2> QED
    BY <1>2, <2>1, <2>2
<1>4. AckedAccepted'
  <2> SUFFICES ASSUME NEW t \in Transfers, NEW i \in Indices(t), Acking(t, i)' \/ chunk'[t][i] = "acked"
               PROVE  i \in accepted[t]
    BY DEF AckedAccepted
  <2>1. Acking(t, i) \/ chunk[t][i] = "acked"
    BY <1>1 DEF Moved
  <2> QED
    BY <2>1 DEF IInv, AckedAccepted
<1>5. CompleteOrFails'
  <2> SUFFICES ASSUME NEW t \in Transfers, Unacknowledged(t)
               PROVE  Unacknowledged(t)'
    BY DEF IInv, CompleteOrFails
  <2>1. PICK i \in Indices(t) : i \in accepted[t] /\ ~Acking(t, i) /\ chunk[t][i] # "acked"
    BY DEF Unacknowledged
  <2>2. ~Acking(t, i)' /\ chunk'[t][i] # "acked"
    BY <1>1, <2>1 DEF Moved
  <2> QED
    BY <2>1, <2>2 DEF Unacknowledged
<1>6. ReceiverShape' /\ OpenHasAll' /\ FirstFirst'
  BY DEF IInv, ReceiverShape, OpenHasAll, FirstFirst
<1> QED
  BY <1>3, <1>4, <1>5, <1>6 DEF IInv

LEMMA MovedKeeps ==
  ASSUME IInv, Moved, NetFrom, UNCHANGED <<assembly, accepted, delivered>>,
         SenderShape', NetShape', SlotsOK', NotYet', BehindAcked'
  PROVE  IInv'
<1>1. \A t \in Transfers :
         \/ /\ assembly'[t].open /\ assembly[t].open
            /\ assembly'[t].parts = assembly[t].parts /\ assembly'[t].last = assembly[t].last
         \/ ~assembly'[t].open /\ assembly'[t].parts = {} /\ assembly'[t].last = -1
  BY DEF IInv, ReceiverShape, OpenHasAll
<1> QED
  BY <1>1, TablesKeep DEF IInv, ReceiverShape

(* Chunks are through, by their acknowledgment or not, and pass their slots *)
(* on.                                                                      *)
LEMMA ReleasedKeeps ==
  ASSUME IInv, NEW state, NEW n \in Nat, Released(state, n),
         DOMAIN state = Transfers,
         \A t \in Transfers : state[t] \in [Indices(t) -> States],
         \A t \in Transfers : \A i \in Indices(t) :
           \/ state[t][i] = chunk[t][i]
           \/ chunk[t][i] \in {"holding", "waiting"} /\ state[t][i] = "failed"
           \/ chunk[t][i] = "waiting" /\ state[t][i] = "acked" /\ Acking(t, i),
         transfer' \in [Transfers -> [stage : Stages, from : Nat, to : Nat, window : {1, Window},
                                      generation : Nat]],
         \A t \in Transfers : /\ transfer'[t].stage = transfer[t].stage
                              /\ transfer'[t].from = transfer[t].from
                              /\ transfer'[t].to = transfer[t].to,
         generation' \in Nat, net' \subseteq net,
         UNCHANGED <<assembly, accepted, delivered>>
  PROVE  IInv'
<1>1. \A k \in 1..Len(slots) : state[slots[k][1]][slots[k][2]] = "queued"
  <2> TAKE k \in 1..Len(slots)
  <2> DEFINE p == slots[k]
  <2>1. p \in Parts /\ chunk[p[1]][p[2]] = "queued"
    BY DEF IInv, SlotsOK
  <2>2. p[1] \in Transfers /\ p[2] \in Indices(p[1])
    BY <2>1, PartsPairs
  <2> HIDE DEF p
  <2>3. state[p[1]][p[2]] = "queued"
    BY <2>1, <2>2
  <2> QED
    BY <2>3 DEF p
<1>2. SlotsOK /\ active \in Int /\ active <= PeerWindow
  BY DEF IInv, SenderShape
<1>3. /\ SlotsOK'
      /\ active' \in Int /\ active' <= PeerWindow
      /\ DOMAIN chunk' = Transfers
      /\ \A t \in Transfers : chunk'[t] \in [Indices(t) -> States]
      /\ \A t \in Transfers : \A i \in Indices(t) :
           \/ chunk'[t][i] = state[t][i]
           \/ state[t][i] = "queued" /\ chunk'[t][i] = "holding"
  BY <1>1, <1>2, ReleasedSlots
<1>4. SenderShape'
  BY <1>3 DEF SenderShape
<1>5. NetShape' /\ NetFrom
  BY DEF IInv, NetShape, NetFrom
<1>6. ASSUME NEW t \in Transfers, NEW i \in Indices(t)
      PROVE  \/ chunk'[t][i] = chunk[t][i]
             \/ chunk[t][i] = "queued" /\ chunk'[t][i] = "holding"
             \/ chunk[t][i] \in {"holding", "waiting"} /\ chunk'[t][i] = "failed"
             \/ chunk[t][i] = "waiting" /\ chunk'[t][i] = "acked" /\ Acking(t, i)
  <2>1. \/ chunk'[t][i] = state[t][i]
        \/ state[t][i] = "queued" /\ chunk'[t][i] = "holding"
    BY <1>3
  <2>2. \/ state[t][i] = chunk[t][i]
        \/ chunk[t][i] \in {"holding", "waiting"} /\ state[t][i] = "failed"
        \/ chunk[t][i] = "waiting" /\ state[t][i] = "acked" /\ Acking(t, i)
    OBVIOUS
  <2> QED
    BY <2>1, <2>2
<1>7. Moved
  BY <1>6 DEF Moved
<1>8. NotYet'
  BY <1>6 DEF IInv, NotYet
<1>9. BehindAcked'
  BY <1>6 DEF IInv, BehindAcked
<1> QED
  BY <1>3, <1>4, <1>5, <1>7, <1>8, <1>9, MovedKeeps

LEMMA FailOne ==
  ASSUME DOMAIN chunk = Transfers, \A u \in Transfers : chunk[u] \in [Indices(u) -> States],
         NEW t \in Transfers, NEW i \in Indices(t), chunk[t][i] \in {"holding", "waiting"}
  PROVE  LET state == [chunk EXCEPT ![t][i] = "failed"] IN
         /\ DOMAIN state = Transfers
         /\ \A u \in Transfers : state[u] \in [Indices(u) -> States]
         /\ \A u \in Transfers : \A j \in Indices(u) :
              \/ state[u][j] = chunk[u][j]
              \/ chunk[u][j] \in {"holding", "waiting"} /\ state[u][j] = "failed"
<1> DEFINE state == [chunk EXCEPT ![t][i] = "failed"]
<1>1. /\ DOMAIN state = Transfers
      /\ state[t] = [chunk[t] EXCEPT ![i] = "failed"]
      /\ \A u \in Transfers : u # t => state[u] = chunk[u]
  OBVIOUS
<1> HIDE DEF state
<1>2. /\ state[t] \in [Indices(t) -> States] /\ state[t][i] = "failed"
      /\ \A j \in Indices(t) : j # i => state[t][j] = chunk[t][j]
  BY <1>1 DEF States
<1> QED
  BY <1>1, <1>2 DEF state

LEMMA StartKeeps ==
  ASSUME IInv, NEW t \in Transfers, Start(t)
  PROVE  IInv'
<1>1. /\ transfer[t].stage = "idle"
      /\ transfer' = [transfer EXCEPT ![t] = [transfer[t] EXCEPT !.stage = "sending", !.generation = generation]]
      /\ Asked(t, 0, 0)
      /\ UNCHANGED <<generation, net, assembly, accepted, delivered>>
  BY DEF Start
<1>2. \A i \in Indices(t) : chunk[t][i] = "none"
  BY <1>1 DEF IInv, NotYet
<1>3. Chunks[t] \in Nat /\ 0 < Chunks[t] /\ 0 \in Indices(t) /\ \A i : i \in Indices(t) => i \in Nat
  BY IndicesNat
<1>4. \A i \in 0 .. 0 : chunk[t][i] = "none"
  BY <1>2, <1>3
<1>5. /\ SlotsOK'
      /\ active' \in Int /\ active' <= PeerWindow
      /\ DOMAIN chunk' = Transfers
      /\ \A u \in Transfers : chunk'[u] \in [Indices(u) -> States]
      /\ \A u \in Transfers : \A i \in Indices(u) :
           \/ chunk'[u][i] = chunk[u][i]
           \/ u = t /\ i \in 0 .. 0 /\ chunk'[u][i] \in {"queued", "holding"}
  BY <1>1, <1>3, <1>4, AskedSlots DEF IInv
<1>6. transfer \in [Transfers -> [stage : Stages, from : Nat, to : Nat, window : {1, Window},
                                  generation : Nat]] /\ generation \in Nat
  BY DEF IInv, SenderShape
<1>7. transfer' \in [Transfers -> [stage : Stages, from : Nat, to : Nat, window : {1, Window},
                                   generation : Nat]]
  BY <1>1, <1>6 DEF Stages
<1>8. SenderShape'
  BY <1>1, <1>5, <1>6, <1>7 DEF SenderShape
<1>9. NetShape' /\ NetFrom
  BY <1>1 DEF IInv, NetShape, NetFrom
<1>10. Moved
  BY <1>2, <1>5 DEF Moved
<1>11. /\ transfer'[t].stage = "sending" /\ transfer'[t].from = 0 /\ transfer'[t].to = 0
       /\ \A u \in Transfers : u # t => transfer'[u] = transfer[u]
  BY <1>1, <1>6 DEF IInv, NotYet
<1>12. \A u \in Transfers : u # t => chunk'[u] = chunk[u]
  <2> SUFFICES ASSUME NEW u \in Transfers, u # t PROVE chunk'[u] = chunk[u]
    OBVIOUS
  <2>1. chunk'[u] \in [Indices(u) -> States] /\ chunk[u] \in [Indices(u) -> States]
    BY <1>5 DEF IInv, SenderShape
  <2>2. \A i \in Indices(u) : chunk'[u][i] = chunk[u][i]
    BY <1>5
  <2> QED
    BY <2>1, <2>2
<1>13. NotYet'
  <2> SUFFICES ASSUME NEW u \in Transfers
               PROVE  /\ transfer'[u].stage = "idle" =>
                           /\ transfer'[u].from = 0 /\ transfer'[u].to = 0
                           /\ \A i \in Indices(u) : chunk'[u][i] = "none"
                      /\ transfer'[u].stage = "sending" =>
                           /\ transfer'[u].from <= transfer'[u].to
                           /\ transfer'[u].to < Chunks[u]
                           /\ \A i \in Indices(u) : i > transfer'[u].to => chunk'[u][i] = "none"
    BY DEF NotYet
  <2>1. CASE u = t
    <3>1. \A i \in Indices(t) : i > 0 => chunk'[t][i] = "none"
      BY <1>2, <1>3, <1>5
    <3> QED
      BY <1>3, <1>11, <2>1, <3>1
  <2>2. CASE u # t
    BY <1>11, <1>12, <2>2 DEF IInv, NotYet
  <2> QED
    BY <2>1, <2>2
<1>14. BehindAcked'
  BY <1>3, <1>11, <1>12 DEF IInv, BehindAcked
<1> QED
  BY <1>1, <1>5, <1>8, <1>9, <1>10, <1>13, <1>14, MovedKeeps

(* The next window is asked for only when this one is acknowledged.         *)
LEMMA ContinueKeeps ==
  ASSUME IInv, NEW t \in Transfers, Continue(t)
  PROVE  IInv'
<1> DEFINE k == transfer[t]
           from == k.to + 1
           to == IF k.to + k.window < Chunks[t] THEN k.to + k.window ELSE Chunks[t] - 1
           Record == [stage : Stages, from : Nat, to : Nat, window : {1, Window}, generation : Nat]
<1>1. /\ k.stage = "sending"
      /\ \A i \in k.from .. k.to : chunk[t][i] = "acked"
      /\ UNCHANGED <<generation, net, assembly, accepted, delivered>>
  BY DEF Continue
<1>2. transfer \in [Transfers -> Record] /\ k \in Record /\ k.window \in Nat \ {0}
  BY ChunkConstants DEF IInv, SenderShape
<1>3. /\ Chunks[t] \in Nat \ {0} /\ \A i : i \in Indices(t) <=> i \in Nat /\ i < Chunks[t]
      /\ k.from <= k.to /\ k.to < Chunks[t] /\ k.from \in Nat /\ k.to \in Nat
      /\ \A i \in Indices(t) : i > k.to => chunk[t][i] = "none"
      /\ \A i \in Indices(t) : i < k.from => chunk[t][i] = "acked"
  BY <1>1, <1>2, IndicesNat DEF IInv, NotYet, BehindAcked
<1>4. \A i \in Indices(t) : i < from => chunk[t][i] = "acked"
  BY <1>1, <1>3
<1>5. NetShape' /\ NetFrom
  BY <1>1 DEF IInv, NetShape, NetFrom
<1>6. CASE from = Chunks[t]
  <2>1. transfer' = [transfer EXCEPT ![t].stage = "done"] /\ UNCHANGED <<chunk, slots, active>>
    BY <1>6 DEF Continue
  <2>2. /\ transfer' \in [Transfers -> Record]
        /\ transfer'[t].stage = "done"
        /\ \A u \in Transfers : u # t => transfer'[u] = transfer[u]
    BY <1>2, <2>1 DEF Stages
  <2>3. SenderShape' /\ SlotsOK'
    BY <1>1, <2>1, <2>2 DEF IInv, SenderShape, SlotsOK
  <2>4. NotYet'
    BY <2>1, <2>2 DEF IInv, NotYet
  <2>5. \A i \in Indices(t) : chunk[t][i] = "acked"
    BY <1>3, <1>4, <1>6
  <2>6. BehindAcked'
    BY <2>1, <2>2, <2>5 DEF IInv, BehindAcked
  <2>7. Moved
    BY <2>1 DEF Moved
  <2> QED
    BY <1>1, <1>5, <2>3, <2>4, <2>6, <2>7, MovedKeeps
<1>7. CASE from # Chunks[t]
  <2>1. /\ transfer' = [transfer EXCEPT ![t] = [k EXCEPT !.from = from, !.to = to]]
        /\ Asked(t, from, to)
    BY <1>7 DEF Continue
  <2>2. from \in Nat /\ to \in Nat /\ from <= to /\ to < Chunks[t] /\ k.to < from
    BY <1>2, <1>3, <1>7
  <2>3. /\ transfer' \in [Transfers -> Record]
        /\ transfer'[t].stage = "sending" /\ transfer'[t].from = from /\ transfer'[t].to = to
        /\ \A u \in Transfers : u # t => transfer'[u] = transfer[u]
    <3> HIDE DEF from, to
    <3> DEFINE next == [k EXCEPT !.from = from, !.to = to]
    <3>1. next \in Record /\ next.stage = k.stage /\ next.from = from /\ next.to = to
      <4> DEFINE half == [k EXCEPT !.from = from]
      <4>1. half \in Record /\ half.stage = k.stage /\ half.from = from
        BY <1>2, <2>2
      <4>2. next = [half EXCEPT !.to = to]
        BY <1>2
      <4> HIDE DEF half, next
      <4>3. next.stage = half.stage /\ next.from = half.from /\ next.to = to
        BY <4>1, <4>2
      <4>4. next \in Record
        BY <2>2, <4>1, <4>2
      <4> QED
        BY <4>1, <4>3, <4>4
    <3>2. transfer' = [transfer EXCEPT ![t] = next]
      BY <2>1
    <3> HIDE DEF next
    <3> QED
      BY <1>1, <1>2, <3>1, <3>2
  <2> HIDE DEF from, to
  <2>4. \A i \in from .. to : i \in Indices(t) /\ i > k.to
    BY <1>3, <2>2
  <2>5. \A i \in from .. to : chunk[t][i] = "none"
    BY <1>3, <2>4
  <2>6. /\ SlotsOK'
        /\ active' \in Int /\ active' <= PeerWindow
        /\ DOMAIN chunk' = Transfers
        /\ \A u \in Transfers : chunk'[u] \in [Indices(u) -> States]
        /\ \A u \in Transfers : \A i \in Indices(u) :
             \/ chunk'[u][i] = chunk[u][i]
             \/ u = t /\ i \in from .. to /\ chunk'[u][i] \in {"queued", "holding"}
    BY <2>1, <2>2, <2>5, AskedSlots DEF IInv
  <2>7. SenderShape'
    BY <1>1, <2>3, <2>6 DEF IInv, SenderShape
  <2>8. Moved
    BY <2>5, <2>6 DEF Moved
  <2>9. \A u \in Transfers : u # t => \A i \in Indices(u) : chunk'[u][i] = chunk[u][i]
    BY <2>6
  <2>10. /\ \A i \in Indices(t) : i > to => chunk'[t][i] = "none"
         /\ \A i \in Indices(t) : i < from => chunk'[t][i] = "acked"
    <3>1. \A i \in Indices(t) : i > to \/ i < from => i \notin from .. to
      BY <2>2
    <3>2. \A i \in Indices(t) : i > to => i > k.to
      BY <1>3, <2>2
    <3>3. \A i \in Indices(t) : i > to \/ i < from => chunk'[t][i] = chunk[t][i]
      BY <2>6, <3>1
    <3>4. \A i \in Indices(t) : i < from => chunk[t][i] = "acked"
      BY <1>4 DEF from
    <3> QED
      BY <1>3, <3>2, <3>3, <3>4
  <2>11. NotYet'
    BY <2>2, <2>3, <2>9, <2>10 DEF IInv, NotYet
  <2>12. BehindAcked'
    BY <2>3, <2>9, <2>10 DEF IInv, BehindAcked
  <2> QED
    BY <1>1, <1>5, <2>6, <2>7, <2>8, <2>11, <2>12, MovedKeeps
<1> QED
  BY <1>6, <1>7

LEMMA GiveUpKeeps ==
  ASSUME IInv, NEW t \in Transfers, GiveUp(t)
  PROVE  IInv'
<1>1. /\ transfer' = [transfer EXCEPT ![t].stage = "failed"]
      /\ UNCHANGED <<chunk, slots, active, generation, net, assembly, accepted, delivered>>
  BY DEF GiveUp
<1>2. /\ transfer' \in [Transfers -> [stage : Stages, from : Nat, to : Nat, window : {1, Window},
                                      generation : Nat]]
      /\ transfer'[t].stage = "failed"
      /\ \A u \in Transfers : u # t => transfer'[u] = transfer[u]
  BY <1>1 DEF IInv, SenderShape, Stages
<1>3. SenderShape' /\ NetShape' /\ SlotsOK'
  BY <1>1, <1>2 DEF IInv, SenderShape, NetShape, SlotsOK
<1>4. NotYet'
  BY <1>1, <1>2 DEF IInv, NotYet
<1>5. BehindAcked'
  BY <1>1, <1>2 DEF IInv, BehindAcked
<1>6. Moved /\ NetFrom
  BY <1>1 DEF Moved, NetFrom
<1> QED
  BY <1>1, <1>3, <1>4, <1>5, <1>6, MovedKeeps

(* A chunk is sent, or fails because its connection is gone.                *)
LEMMA SendKeeps ==
  ASSUME IInv, NEW t \in Transfers, NEW i \in Indices(t), Send(t, i)
  PROVE  IInv'
<1>0. /\ DOMAIN chunk = Transfers /\ \A u \in Transfers : chunk[u] \in [Indices(u) -> States]
      /\ chunk[t][i] = "holding"
      /\ UNCHANGED <<transfer, generation, assembly, accepted, delivered>>
  BY DEF IInv, SenderShape, Send
<1>1. CASE transfer[t].generation = generation /\ online.sender
  <2> DEFINE f == [type |-> "chunk", of |-> t, index |-> i, window |-> 0]
  <2>1. /\ chunk' = [chunk EXCEPT ![t][i] = "waiting"]
        /\ net' = net \cup {f}
        /\ UNCHANGED <<slots, active>>
    BY <1>1 DEF Send
  <2>2. /\ DOMAIN chunk' = Transfers
        /\ \A u \in Transfers : chunk'[u] \in [Indices(u) -> States]
        /\ chunk'[t][i] = "waiting"
        /\ \A u \in Transfers : \A j \in Indices(u) : u # t \/ j # i => chunk'[u][j] = chunk[u][j]
    <3>1. /\ DOMAIN chunk' = Transfers
          /\ chunk'[t] = [chunk[t] EXCEPT ![i] = "waiting"]
          /\ \A u \in Transfers : u # t => chunk'[u] = chunk[u]
      BY <1>0, <2>1
    <3>2. chunk'[t] \in [Indices(t) -> States] /\ chunk'[t][i] = "waiting"
          /\ \A j \in Indices(t) : j # i => chunk'[t][j] = chunk[t][j]
      BY <1>0, <3>1 DEF States
    <3> QED
      BY <1>0, <3>1, <3>2
  <2>3. SenderShape'
    BY <1>0, <2>1, <2>2 DEF IInv, SenderShape
  <2>4. NetShape'
    <3>1. i \in Nat
      BY IndicesNat
    <3>2. f \in Frames
      BY <3>1 DEF Frames
    <3> QED
      BY <2>1, <3>2 DEF IInv, NetShape
  <2>5. SlotsOK'
    <3>1. \A k \in 1..Len(slots) : chunk'[slots[k][1]][slots[k][2]] = "queued"
      <4> TAKE k \in 1..Len(slots)
      <4> DEFINE p == slots[k]
      <4>1. p \in Parts /\ chunk[p[1]][p[2]] = "queued"
        BY DEF IInv, SlotsOK
      <4>2. p[1] \in Transfers /\ p[2] \in Indices(p[1])
        BY <4>1, PartsPairs
      <4> HIDE DEF p
      <4>3. p[1] # t \/ p[2] # i
        BY <1>0, <4>1
      <4>4. chunk'[p[1]][p[2]] = "queued"
        BY <2>2, <4>1, <4>2, <4>3
      <4> QED
        BY <4>4 DEF p
    <3> QED
      BY <2>1, <3>1 DEF IInv, SlotsOK
  <2>6. NotYet'
    BY <1>0, <2>2 DEF IInv, NotYet
  <2>7. BehindAcked'
    BY <1>0, <2>2 DEF IInv, BehindAcked
  <2>8. Moved
    BY <1>0, <2>2 DEF Moved
  <2>9. NetFrom
    BY <1>0, <2>1, <2>2 DEF NetFrom
  <2> QED
    BY <1>0, <2>3, <2>4, <2>5, <2>6, <2>7, <2>8, <2>9, MovedKeeps
<1>2. CASE ~(transfer[t].generation = generation /\ online.sender)
  <2> DEFINE state == [chunk EXCEPT ![t][i] = "failed"]
  <2>1. Released(state, 1) /\ UNCHANGED net
    BY <1>2 DEF Send
  <2>2. /\ DOMAIN state = Transfers
        /\ \A u \in Transfers : state[u] \in [Indices(u) -> States]
        /\ \A u \in Transfers : \A j \in Indices(u) :
             \/ state[u][j] = chunk[u][j]
             \/ chunk[u][j] \in {"holding", "waiting"} /\ state[u][j] = "failed"
    BY <1>0, FailOne
  <2> HIDE DEF state
  <2>3. /\ transfer' \in [Transfers -> [stage : Stages, from : Nat, to : Nat, window : {1, Window},
                                        generation : Nat]]
        /\ generation' \in Nat
    BY <1>0 DEF IInv, SenderShape
  <2> QED
    BY <1>0, <2>1, <2>2, <2>3, ReleasedKeeps
<1> QED
  BY <1>1, <1>2

LEMMA TimeOutKeeps ==
  ASSUME IInv, NEW t \in Transfers, NEW i \in Indices(t), TimeOut(t, i)
  PROVE  IInv'
<1> DEFINE state == [chunk EXCEPT ![t][i] = "failed"]
<1>0. /\ DOMAIN chunk = Transfers /\ \A u \in Transfers : chunk[u] \in [Indices(u) -> States]
      /\ chunk[t][i] = "waiting"
      /\ Released(state, 1)
      /\ UNCHANGED <<transfer, generation, net, assembly, accepted, delivered>>
  BY DEF IInv, SenderShape, TimeOut
<1>1. /\ DOMAIN state = Transfers
      /\ \A u \in Transfers : state[u] \in [Indices(u) -> States]
      /\ \A u \in Transfers : \A j \in Indices(u) :
           \/ state[u][j] = chunk[u][j]
           \/ chunk[u][j] \in {"holding", "waiting"} /\ state[u][j] = "failed"
  BY <1>0, FailOne
<1> HIDE DEF state
<1>2. /\ transfer' \in [Transfers -> [stage : Stages, from : Nat, to : Nat, window : {1, Window},
                                      generation : Nat]]
      /\ generation' \in Nat
  BY <1>0 DEF IInv, SenderShape
<1> QED
  BY <1>0, <1>1, <1>2, ReleasedKeeps

LEMMA TakeAckKeeps ==
  ASSUME IInv, NEW a \in net, TakeAck(a)
  PROVE  IInv'
<1> DEFINE t == a.of
           i == a.index
           state == [chunk EXCEPT ![t][i] = "acked"]
           Record == [stage : Stages, from : Nat, to : Nat, window : {1, Window}, generation : Nat]
<1>1. /\ t \in Transfers /\ i \in Indices(t) /\ a.window \in {1, Window} /\ a.type = "ack"
      /\ net' = net \ {a}
      /\ UNCHANGED <<generation, assembly, accepted, delivered>>
  BY DEF IInv, NetShape, Frames, TakeAck
<1>2. Acking(t, i)
  BY <1>1 DEF Acking
<1>3. /\ DOMAIN chunk = Transfers /\ \A u \in Transfers : chunk[u] \in [Indices(u) -> States]
      /\ transfer \in [Transfers -> Record] /\ generation \in Nat
  BY DEF IInv, SenderShape
<1>4. CASE chunk[t][i] = "waiting"
  <2>1. /\ Released(state, 1)
        /\ transfer' = IF i = 0 THEN [transfer EXCEPT ![t].window = a.window] ELSE transfer
    BY <1>4 DEF TakeAck
  <2>2. /\ DOMAIN state = Transfers
        /\ \A u \in Transfers : state[u] \in [Indices(u) -> States]
        /\ state[t][i] = "acked"
        /\ \A u \in Transfers : \A j \in Indices(u) : u # t \/ j # i => state[u][j] = chunk[u][j]
    <3>1. /\ DOMAIN state = Transfers
          /\ state[t] = [chunk[t] EXCEPT ![i] = "acked"]
          /\ \A u \in Transfers : u # t => state[u] = chunk[u]
      BY <1>1, <1>3
    <3> HIDE DEF t, i, state
    <3>2. state[t] \in [Indices(t) -> States] /\ state[t][i] = "acked"
          /\ \A j \in Indices(t) : j # i => state[t][j] = chunk[t][j]
      BY <1>1, <1>3, <3>1 DEF States
    <3> QED
      BY <1>3, <3>1, <3>2
  <2>3. /\ transfer' \in [Transfers -> Record]
        /\ \A u \in Transfers : /\ transfer'[u].stage = transfer[u].stage
                                /\ transfer'[u].from = transfer[u].from
                                /\ transfer'[u].to = transfer[u].to
    <3> HIDE DEF t, i
    <3>1. CASE i = 0
      <4> DEFINE next == [transfer[t] EXCEPT !.window = a.window]
      <4>1. /\ next \in Record /\ next.stage = transfer[t].stage
            /\ next.from = transfer[t].from /\ next.to = transfer[t].to
        BY <1>1, <1>3
      <4>2. transfer' = [transfer EXCEPT ![t] = next]
        BY <2>1, <3>1
      <4> HIDE DEF next
      <4> QED
        BY <1>1, <1>3, <4>1, <4>2
    <3>2. CASE i # 0
      BY <1>3, <2>1, <3>2
    <3> QED
      BY <3>1, <3>2
  <2> HIDE DEF t, i, state
  <2>4. \A u \in Transfers : \A j \in Indices(u) :
           \/ state[u][j] = chunk[u][j]
           \/ chunk[u][j] = "waiting" /\ state[u][j] = "acked" /\ Acking(u, j)
    BY <1>2, <1>4, <2>2
  <2>5. net' \subseteq net /\ generation' \in Nat
    BY <1>1, <1>3
  <2> QED
    BY <1>1, <2>1, <2>2, <2>3, <2>4, <2>5, ReleasedKeeps
<1>5. CASE chunk[t][i] # "waiting"
  <2>1. UNCHANGED <<transfer, chunk, slots, active>>
    BY <1>5 DEF TakeAck
  <2>2. SenderShape' /\ NetShape' /\ SlotsOK' /\ NotYet' /\ BehindAcked'
    BY <1>1, <2>1 DEF IInv, SenderShape, NetShape, SlotsOK, NotYet, BehindAcked
  <2>3. Moved /\ NetFrom
    BY <1>1, <2>1 DEF Moved, NetFrom
  <2> QED
    BY <1>1, <2>2, <2>3, MovedKeeps
<1> QED
  BY <1>4, <1>5

LEMMA CutSenderKeeps ==
  ASSUME IInv, CutSender
  PROVE  IInv'
<1> DEFINE waiting == {p \in Parts : chunk[p[1]][p[2]] = "waiting"}
           state == [t \in Transfers |-> [i \in Indices(t) |->
                      IF <<t, i>> \in waiting THEN "failed" ELSE chunk[t][i]]]
<1>1. /\ Released(state, Cardinality(waiting))
      /\ generation' = generation + 1 /\ net' \subseteq net
      /\ UNCHANGED <<transfer, assembly, accepted, delivered>>
  BY DEF CutSender
<1>2. Cardinality(waiting) \in Nat
  <2>1. IsFiniteSet(waiting)
    BY PartsFinite, FS_Subset
  <2> HIDE DEF waiting
  <2> QED
    BY <2>1, FS_CardinalityType
<1>3. /\ DOMAIN chunk = Transfers /\ \A u \in Transfers : chunk[u] \in [Indices(u) -> States]
      /\ generation \in Nat
      /\ transfer \in [Transfers -> [stage : Stages, from : Nat, to : Nat, window : {1, Window},
                                     generation : Nat]]
  BY DEF IInv, SenderShape
<1>4. /\ DOMAIN state = Transfers
      /\ \A u \in Transfers : state[u] \in [Indices(u) -> States]
      /\ \A u \in Transfers : \A j \in Indices(u) :
           \/ state[u][j] = chunk[u][j]
           \/ chunk[u][j] \in {"holding", "waiting"} /\ state[u][j] = "failed"
  BY <1>3 DEF States
<1> HIDE DEF waiting, state
<1>5. generation' \in Nat
  BY <1>1, <1>3
<1> QED
  BY <1>1, <1>2, <1>3, <1>4, <1>5, ReleasedKeeps

---------------------------------------------------------------------------
(* The receiver's steps, and the network's.                                 *)

LEMMA SenderSame ==
  ASSUME IInv, UNCHANGED <<transfer, chunk, slots, active, generation>>
  PROVE  SenderShape' /\ SlotsOK' /\ NotYet' /\ BehindAcked'
BY DEF IInv, SenderShape, SlotsOK, NotYet, BehindAcked

(* Frames go, and what is assembled with them.                              *)
LEMMA LossKeeps ==
  ASSUME IInv, UNCHANGED <<transfer, chunk, slots, active, generation, accepted, delivered>>,
         net' \subseteq net,
         assembly' \in [Transfers -> [open : BOOLEAN, parts : SUBSET Nat, next : Nat,
                                      last : Nat \cup {-1}, old : BOOLEAN]],
         \A t \in Transfers :
           \/ /\ assembly'[t].open /\ assembly[t].open
              /\ assembly'[t].parts = assembly[t].parts /\ assembly'[t].last = assembly[t].last
           \/ ~assembly'[t].open /\ assembly'[t].parts = {} /\ assembly'[t].last = -1
  PROVE  IInv'
<1>1. SenderShape' /\ SlotsOK' /\ NotYet' /\ BehindAcked'
  BY SenderSame
<1>2. NetShape' /\ NetFrom /\ Moved
  BY DEF IInv, NetShape, NetFrom, Moved
<1> QED
  BY <1>1, <1>2, TablesKeep

LEMMA AgeKeeps ==
  ASSUME IInv, NEW t \in Transfers, Age(t)
  PROVE  IInv'
<1>1. /\ assembly' = [assembly EXCEPT ![t].old = TRUE]
      /\ UNCHANGED <<transfer, chunk, slots, active, generation, net, accepted, delivered>>
  BY DEF Age
<1>2. assembly \in [Transfers -> [open : BOOLEAN, parts : SUBSET Nat, next : Nat,
                                  last : Nat \cup {-1}, old : BOOLEAN]]
  BY DEF IInv, ReceiverShape
<1>3. /\ assembly' \in [Transfers -> [open : BOOLEAN, parts : SUBSET Nat, next : Nat,
                                      last : Nat \cup {-1}, old : BOOLEAN]]
      /\ \A u \in Transfers : /\ assembly'[u].open = assembly[u].open
                              /\ assembly'[u].parts = assembly[u].parts
                              /\ assembly'[u].last = assembly[u].last
  BY <1>1, <1>2
<1>4. \A u \in Transfers :
        \/ /\ assembly'[u].open /\ assembly[u].open
           /\ assembly'[u].parts = assembly[u].parts /\ assembly'[u].last = assembly[u].last
        \/ ~assembly'[u].open /\ assembly'[u].parts = {} /\ assembly'[u].last = -1
  BY <1>2, <1>3 DEF IInv, OpenHasAll
<1> QED
  BY <1>1, <1>3, <1>4, LossKeeps

LEMMA NothingOpen ==
  /\ NoAssembly \in [open : BOOLEAN, parts : SUBSET Nat, next : Nat, last : Nat \cup {-1}, old : BOOLEAN]
  /\ ~NoAssembly.open /\ NoAssembly.parts = {} /\ NoAssembly.last = -1
BY DEF NoAssembly

LEMMA CutReceiverKeeps ==
  ASSUME IInv, CutReceiver
  PROVE  IInv'
<1>1. /\ assembly' = [t \in Transfers |-> NoAssembly]
      /\ net' \subseteq net
      /\ UNCHANGED <<transfer, chunk, slots, active, generation, accepted, delivered>>
  BY DEF CutReceiver
<1>2. /\ assembly' \in [Transfers -> [open : BOOLEAN, parts : SUBSET Nat, next : Nat,
                                      last : Nat \cup {-1}, old : BOOLEAN]]
      /\ \A t \in Transfers : ~assembly'[t].open /\ assembly'[t].parts = {} /\ assembly'[t].last = -1
  BY <1>1, NothingOpen
<1> QED
  BY <1>1, <1>2, LossKeeps

LEMMA OneFrame ==
  ASSUME NetShape, NEW f \in net, NEW g \in net, f.type = "chunk", g.type = "chunk",
         f.of = g.of, f.index = g.index
  PROVE  f = g
<1>1. f \in Frames /\ g \in Frames /\ f.window = 0 /\ g.window = 0
  BY DEF NetShape
<1> QED
  BY <1>1 DEF Frames

(* A chunk that comes is kept and acknowledged, or refused.  It was not     *)
(* taken before, so what it completes was not handed on before.             *)
LEMMA ReceiveKeeps ==
  ASSUME IInv, NEW f \in net, Receive(f)
  PROVE  IInv'
<1> DEFINE t == f.of
           i == f.index
           item == Swept[t]
           taken == Taken(item, t, i)
           full == [Swept EXCEPT ![t] = taken]
           AssemblyType == [open : BOOLEAN, parts : SUBSET Nat, next : Nat, last : Nat \cup {-1}, old : BOOLEAN]
           no == Refused(item, i, i = Chunks[t] - 1, Swept)
<1>1. /\ t \in Transfers /\ i \in Indices(t) /\ f.type = "chunk"
      /\ UNCHANGED <<transfer, chunk, slots, active, generation>>
  BY DEF IInv, NetShape, Frames, Receive
<1>2. /\ Swept \in [Transfers -> AssemblyType]
      /\ \A u \in Transfers :
           \/ /\ Swept[u].open /\ assembly[u].open
              /\ Swept[u].parts = assembly[u].parts /\ Swept[u].last = assembly[u].last
           \/ ~Swept[u].open /\ Swept[u].parts = {} /\ Swept[u].last = -1
  <2>1. assembly \in [Transfers -> AssemblyType]
    BY DEF IInv, ReceiverShape
  <2>2. Swept \in [Transfers -> AssemblyType]
        /\ \A u \in Transfers : Swept[u] = NoAssembly \/ Swept[u] = assembly[u]
    BY <2>1, NothingOpen DEF Swept
  <2> QED
    BY <2>1, <2>2, NothingOpen DEF IInv, OpenHasAll
<1>3. CASE no \/ Kept(full) > Room
  <2>1. /\ assembly' = IF no THEN Swept ELSE [Swept EXCEPT ![t] = NoAssembly]
        /\ net' = net \ {f}
        /\ UNCHANGED <<accepted, delivered>>
    BY <1>3 DEF Receive
  <2> HIDE DEF no
  <2>2. /\ assembly' \in [Transfers -> AssemblyType]
        /\ \A u \in Transfers :
             \/ /\ assembly'[u].open /\ assembly[u].open
                /\ assembly'[u].parts = assembly[u].parts /\ assembly'[u].last = assembly[u].last
             \/ ~assembly'[u].open /\ assembly'[u].parts = {} /\ assembly'[u].last = -1
    BY <1>1, <1>2, <2>1, NothingOpen
  <2> QED
    BY <1>1, <2>1, <2>2, LossKeeps
<1>4. CASE ~(no \/ Kept(full) > Room)
  <2> DEFINE A == accepted[t] \cup {i}
             N == Chunks[t]
  <2>1. /\ assembly' = IF Complete(taken) THEN [Swept EXCEPT ![t] = NoAssembly] ELSE full
        /\ accepted' = [accepted EXCEPT ![t] = @ \cup {i}]
        /\ delivered' = IF Complete(taken) /\ online.receiver
                        THEN [delivered EXCEPT ![t] = @ + 1] ELSE delivered
    BY <1>4 DEF Receive
  <2>2. PICK w \in IF i = 0 THEN {1, Window} ELSE {1} :
          net' = (net \ {f}) \cup
                   {a \in {[type |-> "ack", of |-> t, index |-> i, window |-> w]} : online.receiver}
    BY <1>4 DEF Receive
  <2>3. /\ N \in Nat \ {0} /\ Indices(t) = 0 .. N - 1 /\ i \in Nat
        /\ accepted \in [Transfers -> SUBSET Nat] /\ accepted[t] \subseteq Indices(t)
        /\ delivered \in [Transfers -> Nat]
    BY <1>1, IndicesNat DEF IInv, ReceiverShape, Indices
  <2>4. i \notin accepted[t] /\ chunk[t][i] \in {"waiting", "failed"} /\ ~Acking(t, i)
    <3>1. Sent(t, i)
      BY <1>1 DEF Sent
    <3>2. i \notin accepted[t] /\ chunk[t][i] \in {"waiting", "acked", "failed"}
      BY <1>1, <3>1 DEF IInv, SentOnce
    <3> QED
      BY <1>1, <3>2 DEF IInv, AckedAccepted
  <2>5. ~no
    BY <1>4
  <2>6. /\ item.parts = accepted[t]
        /\ item.last = IF N - 1 \in accepted[t] THEN N - 1 ELSE -1
        /\ 0 \in A
    <3>1. CASE item.open
      BY <1>1, <1>2, <3>1 DEF IInv, OpenHasAll
    <3>2. CASE ~item.open
      <4>1. i = 0
        BY <2>5, <3>2 DEF Refused
      <4>2. accepted[t] = {}
        BY <1>1, <2>4, <4>1 DEF IInv, FirstFirst
      <4> QED
        BY <1>1, <1>2, <3>2, <4>1, <4>2
    <3> QED
      BY <3>1, <3>2
  <2>7. /\ taken \in AssemblyType /\ taken.open
        /\ taken.parts = A /\ taken.next = Next1(A, N)
        /\ taken.last = IF N - 1 \in A THEN N - 1 ELSE -1
    <3>1. A \in SUBSET (0 .. N - 1) /\ A \in SUBSET Nat
      BY <1>1, <2>3
    <3>2. Next1(A, N) \in Nat
      BY <2>3, <3>1, FirstMissing
    <3>3. taken = [open |-> TRUE, parts |-> A, next |-> Next1(A, N),
                   last |-> IF i = N - 1 THEN i ELSE item.last, old |-> FALSE]
      BY <2>6 DEF Taken
    <3>4. (IF i = N - 1 THEN i ELSE item.last) = IF N - 1 \in A THEN N - 1 ELSE -1
      BY <2>3, <2>6
    <3> HIDE DEF A, N, taken, item, t, i
    <3> QED
      BY <2>3, <3>1, <3>2, <3>3, <3>4
  <2>8. Complete(taken) <=> A = Indices(t)
    <3>1. Next1(A, N) = N <=> A = 0 .. N - 1
      <4>1. A \in SUBSET (0 .. N - 1)
        BY <1>1, <2>3
      <4> QED
        BY <2>3, <4>1, FirstMissing
    <3> HIDE DEF A, N, taken
    <3>2. CASE N - 1 \in A
      BY <2>3, <2>7, <3>1, <3>2 DEF Complete
    <3>3. CASE N - 1 \notin A
      BY <2>3, <2>7, <3>3 DEF Complete
    <3> QED
      BY <3>2, <3>3
  <2> HIDE DEF item, taken, no
  <2>9. /\ accepted' \in [Transfers -> SUBSET Nat]
        /\ accepted'[t] = A /\ A \subseteq Indices(t)
        /\ \A u \in Transfers : u # t => accepted'[u] = accepted[u]
    BY <1>1, <2>1, <2>3
  <2>10. /\ assembly' \in [Transfers -> AssemblyType]
         /\ \A u \in Transfers : u # t => assembly'[u] = Swept[u]
         /\ assembly'[t] = IF A = Indices(t) THEN NoAssembly ELSE taken
    BY <1>1, <1>2, <2>1, <2>7, <2>8, NothingOpen
  <2>11. /\ delivered' \in [Transfers -> Nat]
         /\ \A u \in Transfers : u # t => delivered'[u] = delivered[u]
         /\ delivered'[t] = IF A = Indices(t) /\ online.receiver THEN delivered[t] + 1 ELSE delivered[t]
    BY <1>1, <2>1, <2>3, <2>8
  <2>12. \A g \in net' : \/ g \in net /\ g # f
                         \/ online.receiver /\ g = [type |-> "ack", of |-> t, index |-> i, window |-> w]
    BY <2>2
  <2>13. SenderShape' /\ SlotsOK' /\ NotYet' /\ BehindAcked'
    BY <1>1, SenderSame
  <2>14. ReceiverShape'
    BY <2>9, <2>10, <2>11 DEF IInv, ReceiverShape
  <2>15. NetShape'
    <3> DEFINE a == [type |-> "ack", of |-> t, index |-> i, window |-> w]
    <3>1. a \in Frames /\ a.index \in Indices(a.of) /\ a.window \in {1, Window}
      BY <1>1, <2>2, <2>3 DEF Frames
    <3> HIDE DEF a
    <3> QED
      BY <2>12, <3>1 DEF IInv, NetShape, a
  <2>16. ASSUME NEW u \in Transfers, NEW j \in Indices(u), Acking(u, j)'
         PROVE  Acking(u, j) \/ (u = t /\ j = i /\ online.receiver)
    BY <2>12, <2>16 DEF Acking
  <2>17. ASSUME NEW u \in Transfers, NEW j \in Indices(u), Sent(u, j)'
         PROVE  Sent(u, j)
    BY <2>12, <2>17 DEF Sent
  <2>19. ~Sent(t, i)'
    <3>1. ASSUME NEW g \in net', g.type = "chunk", g.of = t, g.index = i PROVE FALSE
      <4>1. g \in net /\ g # f
        BY <2>12, <3>1
      <4> QED
        BY <1>1, <3>1, <4>1, OneFrame DEF IInv
    <3> QED
      BY <3>1 DEF Sent
  <2>18. SentOnce'
    <3> SUFFICES ASSUME NEW u \in Transfers, NEW j \in Indices(u)
                 PROVE  /\ Sent(u, j)' => j \notin accepted'[u]
                        /\ Sent(u, j)' \/ j \in accepted'[u] => chunk[u][j] \in {"waiting", "acked", "failed"}
      BY <1>1 DEF SentOnce
    <3>0. /\ Sent(u, j) => j \notin accepted[u]
          /\ Sent(u, j) \/ j \in accepted[u] => chunk[u][j] \in {"waiting", "acked", "failed"}
      BY DEF IInv, SentOnce
    <3>1. CASE u = t /\ j = i
      BY <2>4, <2>19, <3>1
    <3>2. CASE ~(u = t /\ j = i)
      <4>1. j \in accepted'[u] <=> j \in accepted[u]
        BY <2>9, <3>2
      <4> QED
        BY <2>17, <3>0, <4>1
    <3> QED
      BY <3>1, <3>2
  <2>20. AckedAccepted'
    <3> SUFFICES ASSUME NEW u \in Transfers, NEW j \in Indices(u), Acking(u, j)' \/ chunk[u][j] = "acked"
                 PROVE  j \in accepted'[u]
      BY <1>1 DEF AckedAccepted
    <3>1. CASE u = t /\ j = i
      BY <2>9, <3>1
    <3>2. CASE ~(u = t /\ j = i)
      <4>1. j \in accepted[u]
        BY <2>16, <3>2 DEF IInv, AckedAccepted
      <4> QED
        BY <2>9, <4>1
    <3> QED
      BY <3>1, <3>2
  <2>21. CompleteOrFails'
    <3> SUFFICES ASSUME NEW u \in Transfers
                 PROVE  /\ delivered'[u] \in {0, 1}
                        /\ delivered'[u] = 1 => accepted'[u] = Indices(u)
                        /\ accepted'[u] = Indices(u) => delivered'[u] = 1 \/ Unacknowledged(u)'
      BY DEF CompleteOrFails
    <3>0. /\ delivered[u] \in {0, 1}
          /\ delivered[u] = 1 => accepted[u] = Indices(u)
          /\ accepted[u] = Indices(u) => delivered[u] = 1 \/ Unacknowledged(u)
      BY DEF IInv, CompleteOrFails
    <3>1. CASE u = t
      <4>1. delivered[t] = 0
        BY <1>1, <2>4, <3>0, <3>1
      <4>2. ASSUME ~online.receiver PROVE Unacknowledged(t)'
        <5>1. ~Acking(t, i)'
          BY <1>1, <2>4, <2>16, <4>2
        <5>2. i \in accepted'[t] /\ chunk'[t][i] # "acked"
          BY <1>1, <2>4, <2>9
        <5> QED
          BY <1>1, <5>1, <5>2 DEF Unacknowledged
      <4>3. accepted'[u] = A
        BY <2>9, <3>1
      <4>4. CASE A = Indices(t) /\ online.receiver
        <5>1. delivered'[u] = 1
          BY <2>11, <3>1, <4>1, <4>4
        <5> QED
          BY <3>1, <4>3, <4>4, <5>1
      <4>5. CASE A # Indices(t) \/ ~online.receiver
        <5>1. delivered'[u] = 0
          BY <2>11, <3>1, <4>1, <4>5
        <5> QED
          BY <3>1, <4>2, <4>3, <4>5, <5>1
      <4> QED
        BY <4>4, <4>5
    <3>2. CASE u # t
      <4>1. Unacknowledged(u) => Unacknowledged(u)'
        <5> SUFFICES ASSUME Unacknowledged(u) PROVE Unacknowledged(u)'
          OBVIOUS
        <5>1. PICK j \in Indices(u) : j \in accepted[u] /\ ~Acking(u, j) /\ chunk[u][j] # "acked"
          BY DEF Unacknowledged
        <5>2. ~Acking(u, j)' /\ j \in accepted'[u] /\ chunk'[u][j] # "acked"
          BY <1>1, <2>9, <2>16, <3>2, <5>1
        <5> QED
          BY <5>1, <5>2 DEF Unacknowledged
      <4> QED
        BY <2>9, <2>11, <3>0, <3>2, <4>1
    <3> QED
      BY <3>1, <3>2
  <2>22. OpenHasAll'
    <3> SUFFICES ASSUME NEW u \in Transfers
                 PROVE  /\ assembly'[u].open =>
                             /\ assembly'[u].parts = accepted'[u]
                             /\ assembly'[u].last = IF Chunks[u] - 1 \in accepted'[u] THEN Chunks[u] - 1 ELSE -1
                             /\ 0 \in accepted'[u]
                             /\ accepted'[u] # Indices(u)
                        /\ ~assembly'[u].open => assembly'[u].parts = {} /\ assembly'[u].last = -1
      BY DEF OpenHasAll
    <3>1. CASE u = t
      BY <2>6, <2>7, <2>9, <2>10, <3>1, NothingOpen
    <3>2. CASE u # t
      <4>1. \/ /\ assembly'[u].open /\ assembly[u].open
               /\ assembly'[u].parts = assembly[u].parts /\ assembly'[u].last = assembly[u].last
            \/ ~assembly'[u].open /\ assembly'[u].parts = {} /\ assembly'[u].last = -1
        BY <1>2, <2>10, <3>2
      <4> QED
        BY <2>9, <3>2, <4>1 DEF IInv, OpenHasAll
    <3> QED
      BY <3>1, <3>2
  <2>23. FirstFirst'
    BY <2>6, <2>9 DEF IInv, FirstFirst
  <2> QED
    BY <2>13, <2>14, <2>15, <2>18, <2>20, <2>21, <2>22, <2>23 DEF IInv
<1> QED
  BY <1>3, <1>4

---------------------------------------------------------------------------
LEMMA InitIInv == Init => IInv
<1> SUFFICES ASSUME Init PROVE IInv
  OBVIOUS
<1>1. SenderShape
  BY ChunkConstants DEF Init, SenderShape, Stages, States
<1>2. ReceiverShape /\ OpenHasAll /\ FirstFirst
  BY NothingOpen DEF Init, ReceiverShape, OpenHasAll, FirstFirst
<1>3. NetShape
  BY DEF Init, NetShape
<1>4. SlotsOK
  <2>1. slots = <<>> /\ slots \in Seq(Parts) /\ Len(slots) = 0
    BY EmptySeq DEF Init
  <2> QED
    BY <2>1 DEF SlotsOK
<1>5. NotYet /\ BehindAcked
  BY DEF Init, NotYet, BehindAcked
<1>6. SentOnce /\ AckedAccepted
  BY DEF Init, SentOnce, AckedAccepted, Sent, Acking
<1>7. CompleteOrFails
  BY IndicesNat DEF Init, CompleteOrFails
<1> QED
  BY <1>1, <1>2, <1>3, <1>4, <1>5, <1>6, <1>7 DEF IInv

LEMMA NextIInv == IInv /\ [Next]_vars => IInv'
<1> SUFFICES ASSUME IInv, [Next]_vars PROVE IInv'
  OBVIOUS
<1>0. /\ assembly \in [Transfers -> [open : BOOLEAN, parts : SUBSET Nat, next : Nat,
                                     last : Nat \cup {-1}, old : BOOLEAN]]
      /\ \A u \in Transfers : \/ assembly[u].open
                              \/ ~assembly[u].open /\ assembly[u].parts = {} /\ assembly[u].last = -1
  BY DEF IInv, ReceiverShape, OpenHasAll
<1>1. ASSUME UNCHANGED <<transfer, chunk, slots, active, generation, assembly, accepted, delivered>>,
             net' \subseteq net
      PROVE  IInv'
  BY <1>0, <1>1, LossKeeps
<1>2. ASSUME NEW t \in Transfers, Start(t) \/ Continue(t) \/ GiveUp(t) \/ Age(t) PROVE IInv'
  BY <1>2, StartKeeps, ContinueKeeps, GiveUpKeeps, AgeKeeps
<1>3. ASSUME NEW t \in Transfers, NEW i \in Indices(t), Send(t, i) \/ TimeOut(t, i) PROVE IInv'
  BY <1>3, SendKeeps, TimeOutKeeps
<1>4. ASSUME NEW f \in net, TakeAck(f) PROVE IInv'
  BY <1>4, TakeAckKeeps
<1>5. ASSUME NEW f \in net, Receive(f) PROVE IInv'
  BY <1>5, ReceiveKeeps
<1>6. ASSUME NEW f \in net, Lose(f) PROVE IInv'
  BY <1>1, <1>6 DEF Lose
<1>7. ASSUME Reconnect PROVE IInv'
  BY <1>1, <1>7 DEF Reconnect
<1>8. ASSUME UNCHANGED vars PROVE IInv'
  BY <1>1, <1>8 DEF vars
<1> QED
  BY <1>2, <1>3, <1>4, <1>5, <1>6, <1>7, <1>8, CutSenderKeeps, CutReceiverKeeps DEF Next

(* All of a transfer that is done was acknowledged, and so was taken.       *)
LEMMA IInvWhole == IInv => WholeOnce
<1> SUFFICES ASSUME IInv, NEW t \in Transfers
             PROVE  /\ delivered[t] <= 1
                    /\ delivered[t] = 1 => accepted[t] = Indices(t)
                    /\ transfer[t].stage = "done" => delivered[t] = 1
  BY DEF WholeOnce
<1>1. /\ delivered[t] \in {0, 1}
      /\ delivered[t] = 1 => accepted[t] = Indices(t)
      /\ accepted[t] = Indices(t) => delivered[t] = 1 \/ Unacknowledged(t)
  BY DEF IInv, CompleteOrFails
<1>2. ASSUME transfer[t].stage = "done" PROVE delivered[t] = 1
  <2>1. \A i \in Indices(t) : chunk[t][i] = "acked"
    BY <1>2 DEF IInv, BehindAcked
  <2>2. accepted[t] = Indices(t)
    BY <2>1 DEF IInv, AckedAccepted, ReceiverShape
  <2> QED
    BY <1>1, <2>1, <2>2 DEF Unacknowledged
<1> QED
  BY <1>1, <1>2

(* The invariant holds throughout.                                          *)
THEOREM Invariance == Spec => []IInv
BY InitIInv, NextIInv, PTL DEF Spec

(* Whatever is lost, cut or late, a text is handed on whole and at most     *)
(* once, and a sender whose transfer is done was told the truth.            *)
THEOREM Whole == Spec => []WholeOnce
BY Invariance, IInvWhole, PTL

---------------------------------------------------------------------------
(* The count of the slots.                                                  *)

Held(table) == {p \in Parts : table[p[1]][p[2]] \in {"holding", "waiting"}}

(* The sequence of those that wait has a set of as many chunks.             *)
LEMMA FirstOfSlots ==
  ASSUME SlotsOK, NEW n \in Nat, n <= Len(slots)
  PROVE  LET given == {slots[k] : k \in 1..n} IN
         given \in SUBSET Parts /\ IsFiniteSet(given) /\ Cardinality(given) = n
<1> DEFINE given == {slots[k] : k \in 1..n}
           f == [k \in 1..n |-> slots[k]]
<1>1. slots \in Seq(Parts) /\ Len(slots) \in Nat /\ \A j, k \in 1..Len(slots) : slots[j] = slots[k] => j = k
  BY DEF SlotsOK
<1>2. \A k \in 1..n : k \in 1..Len(slots) /\ slots[k] \in Parts
  BY <1>1
<1>3. given \in SUBSET Parts
  BY <1>2
<1>4. f \in Bijection(1..n, given)
  <2>1. f \in [1..n -> given] /\ \A k \in 1..n : f[k] = slots[k]
    OBVIOUS
  <2>2. \A p \in given : \E k \in 1..n : slots[k] = p
    OBVIOUS
  <2> HIDE DEF f, given
  <2>3. \A j, k \in 1..n : f[j] = f[k] => j = k
    BY <1>1, <1>2, <2>1
  <2> QED
    BY <2>1, <2>2, <2>3 DEF Bijection, Injection, Surjection, IsInjective
<1>5. ExistsBijection(1..n, given)
  BY <1>4 DEF ExistsBijection
<1>6. IsFiniteSet(1..n) /\ Cardinality(1..n) = n
  BY FS_Interval
<1> HIDE DEF given
<1>7. IsFiniteSet(given) /\ Cardinality(given) = n
  BY <1>5, <1>6, FS_Bijection
<1> QED
  BY <1>3, <1>7 DEF given

(* Chunks that are through give back as many slots as they had.             *)
LEMMA ReleasedCount ==
  ASSUME IInv, SlotsAccounted, NEW state, NEW n \in Nat, Released(state, n),
         Held(state) \subseteq Held(chunk), Cardinality(Held(chunk) \ Held(state)) = n,
         \A p \in Parts : state[p[1]][p[2]] = "queued" <=> chunk[p[1]][p[2]] = "queued"
  PROVE  SlotsAccounted'
<1> DEFINE given == IF n < Len(slots) THEN n ELSE Len(slots)
           first == {slots[k] : k \in 1..given}
<1>1. /\ SlotsOK /\ slots \in Seq(Parts) /\ Len(slots) \in Nat
      /\ given \in Nat /\ given <= Len(slots) /\ given <= n
      /\ PeerWindow \in Nat
  BY ChunkConstants DEF IInv, SlotsOK
<1>2. /\ chunk' = [t \in Transfers |-> [i \in Indices(t) |->
            IF \E k \in 1..given : slots[k] = <<t, i>> THEN "holding" ELSE state[t][i]]]
      /\ slots' = SubSeq(slots, given + 1, Len(slots))
      /\ active' = active - (n - given)
  BY DEF Released
<1>3. /\ active = Cardinality(Held(chunk)) /\ active <= PeerWindow
      /\ slots # <<>> => active = PeerWindow
      /\ \A p \in Parts : chunk[p[1]][p[2]] = "queued" <=> \E k \in 1..Len(slots) : slots[k] = p
  BY DEF SlotsAccounted, Holds, Held
<1>4. first \in SUBSET Parts /\ IsFiniteSet(first) /\ Cardinality(first) = given
  BY <1>1, FirstOfSlots
<1>5. \A p \in Parts : chunk'[p[1]][p[2]] = IF p \in first THEN "holding" ELSE state[p[1]][p[2]]
  BY <1>2, PartsPairs
<1>6. \A p \in first : p \in Parts /\ state[p[1]][p[2]] = "queued"
  BY <1>1, <1>3, <1>4
<1>7. n < Len(slots) => given = n
  OBVIOUS
<1>8. n >= Len(slots) => given = Len(slots)
  BY <1>1
<1> HIDE DEF given, first
<1>9. Held(chunk') = Held(state) \cup first /\ Held(state) \cap first = {}
  BY <1>4, <1>5, <1>6 DEF Held
<1>10. /\ IsFiniteSet(Held(state)) /\ IsFiniteSet(Held(chunk))
       /\ Cardinality(Held(state)) \in Nat /\ Cardinality(Held(chunk)) \in Nat
  <2>1. Held(state) \in SUBSET Parts /\ Held(chunk) \in SUBSET Parts
    BY DEF Held
  <2> QED
    BY <2>1, PartsFinite, FS_Subset, FS_CardinalityType
<1>11. Cardinality(Held(state)) = Cardinality(Held(chunk)) - n
  <2>1. Held(chunk) \cap Held(state) = Held(state)
    OBVIOUS
  <2>2. Cardinality(Held(chunk) \ Held(state)) = Cardinality(Held(chunk)) - Cardinality(Held(state))
    BY <1>10, <2>1, FS_Difference
  <2> QED
    BY <1>10, <2>2
<1>12. Cardinality(Held(chunk')) = Cardinality(Held(state)) + given
  <2>1. Cardinality(Held(state) \cup first) = Cardinality(Held(state)) + Cardinality(first) - Cardinality({})
    BY <1>4, <1>9, <1>10, FS_Union
  <2> QED
    BY <1>1, <1>4, <1>9, <1>10, <2>1, FS_EmptySet
<1>13. active' = Cardinality(Held(chunk')) /\ active' <= PeerWindow
  BY <1>1, <1>2, <1>3, <1>10, <1>11, <1>12
<1>14. /\ slots' \in Seq(Parts)
       /\ Len(slots') = Len(slots) - given
       /\ \A k \in 1..Len(slots') : k + given \in 1..Len(slots) /\ slots'[k] = slots[k + given]
  <2> DEFINE a == given + 1
             z == Len(slots)
  <2>1. a \in 1 .. Len(slots) + 1 /\ z \in a - 1 .. Len(slots)
    BY <1>1
  <2> HIDE DEF a, z
  <2>2. /\ SubSeq(slots, a, z) \in Seq(Parts)
        /\ Len(SubSeq(slots, a, z)) = IF a <= z THEN z - a + 1 ELSE 0
        /\ \A k \in 1 .. z - a + 1 : SubSeq(slots, a, z)[k] = slots[a + k - 1]
    BY <1>1, <2>1, SubSeqProperties
  <2>3. /\ slots' \in Seq(Parts) /\ Len(slots') = Len(slots) - given
        /\ \A k \in 1 .. Len(slots) - given : slots'[k] = slots[a + k - 1]
    BY <1>1, <1>2, <2>2 DEF a, z
  <2>4. \A k \in 1 .. Len(slots) - given : k + given \in 1..Len(slots) /\ a + k - 1 = k + given
    BY <1>1 DEF a
  <2> QED
    BY <2>3, <2>4
<1>15. slots' # <<>> => active' = PeerWindow
  <2> SUFFICES ASSUME slots' # <<>> PROVE active' = PeerWindow
    OBVIOUS
  <2>1. Len(slots') # 0
    BY <1>14, EmptySeq
  <2>2. given = n /\ slots # <<>>
    BY <1>1, <1>7, <1>8, <1>14, <2>1
  <2> QED
    BY <1>1, <1>2, <1>3, <1>10, <2>2
<1>16. ASSUME NEW p \in Parts
       PROVE  chunk'[p[1]][p[2]] = "queued" <=> \E k \in 1..Len(slots') : slots'[k] = p
  <2>1. ASSUME chunk'[p[1]][p[2]] = "queued"
        PROVE  \E k \in 1..Len(slots') : slots'[k] = p
    <3>1. p \notin first /\ chunk[p[1]][p[2]] = "queued"
      BY <1>5, <2>1
    <3>2. PICK k \in 1..Len(slots) : slots[k] = p
      BY <1>3, <3>1
    <3>3. k > given
      BY <1>1, <3>1, <3>2 DEF first
    <3>4. k - given \in 1..Len(slots')
      BY <1>1, <1>14, <3>3
    <3>5. slots'[k - given] = p
      BY <1>1, <1>14, <3>2, <3>4
    <3> QED
      BY <3>4, <3>5
  <2>2. ASSUME NEW k \in 1..Len(slots'), slots'[k] = p
        PROVE  chunk'[p[1]][p[2]] = "queued"
    <3>1. k + given \in 1..Len(slots) /\ slots[k + given] = p
      BY <1>14, <2>2
    <3>2. state[p[1]][p[2]] = "queued"
      BY <1>3, <3>1
    <3>3. p \notin first
      <4>1. ASSUME NEW j \in 1..given, slots[j] = p PROVE FALSE
        <5>1. j \in 1..Len(slots)
          BY <1>1
        <5>2. j = k + given
          BY <1>1, <3>1, <4>1, <5>1 DEF SlotsOK
        <5> QED
          BY <1>1, <1>14, <5>2
      <4> QED
        BY <4>1 DEF first
    <3> QED
      BY <1>5, <3>2, <3>3
  <2> QED
    BY <2>1, <2>2
<1> QED
  BY <1>13, <1>15, <1>16 DEF SlotsAccounted, Holds, Held

(* Chunks that ask get the slots that are free, the others queue.           *)
LEMMA AskedCount ==
  ASSUME IInv, SlotsAccounted,
         NEW t \in Transfers, NEW from \in Nat, NEW to \in Nat,
         from <= to, to < Chunks[t],
         \A i \in from .. to : chunk[t][i] = "none",
         Asked(t, from, to)
  PROVE  SlotsAccounted'
<1> DEFINE taken == IF PeerWindow - active < to - from + 1 THEN PeerWindow - active ELSE to - from + 1
           rest == to - from + 1 - taken
           more == [k \in 1 .. rest |-> <<t, from + taken + k - 1>>]
           new == {<<t, i>> : i \in from .. from + taken - 1}
<1>0. /\ PeerWindow \in Nat /\ active \in Int /\ SlotsOK /\ slots \in Seq(Parts) /\ Len(slots) \in Nat
      /\ DOMAIN chunk = Transfers /\ SenderShape
  BY ChunkConstants DEF IInv, SenderShape, SlotsOK
<1>1. /\ active = Cardinality(Held(chunk)) /\ active <= PeerWindow
      /\ slots # <<>> => active = PeerWindow
      /\ \A p \in Parts : chunk[p[1]][p[2]] = "queued" <=> \E k \in 1..Len(slots) : slots[k] = p
  BY DEF SlotsAccounted, Holds, Held
<1>2. /\ taken \in Nat /\ taken <= to - from + 1 /\ taken <= PeerWindow - active
      /\ rest \in Nat /\ rest = to - from + 1 - taken
      /\ rest # 0 => taken = PeerWindow - active
  BY <1>0, <1>1
<1>3. /\ chunk' = [chunk EXCEPT ![t] = [i \in Indices(t) |->
            IF i \in from .. from + taken - 1 THEN "holding"
            ELSE IF i \in from .. to THEN "queued" ELSE chunk[t][i]]]
      /\ active' = active + taken
      /\ slots' = slots \o more
  BY DEF Asked
<1> HIDE DEF taken, rest
<1>4. Chunks[t] \in Nat /\ \A i : i \in Indices(t) <=> i \in Nat /\ i < Chunks[t]
  BY IndicesNat
<1>5. \A i \in from .. to : i \in Indices(t) /\ i \in Nat
  BY <1>4
<1>6. ASSUME NEW p \in Parts
      PROVE  chunk'[p[1]][p[2]] =
               IF p[1] = t /\ p[2] \in from .. from + taken - 1 THEN "holding"
               ELSE IF p[1] = t /\ p[2] \in from .. to THEN "queued" ELSE chunk[p[1]][p[2]]
  <2>1. p[1] \in Transfers /\ p[2] \in Indices(p[1])
    BY PartsPairs
  <2>2. CASE p[1] = t
    BY <1>0, <1>3, <2>1, <2>2
  <2>3. CASE p[1] # t
    BY <1>0, <1>3, <2>1, <2>3
  <2> QED
    BY <2>2, <2>3
<1>7. new \in SUBSET Parts /\ IsFiniteSet(new) /\ Cardinality(new) = taken
  <2> DEFINE f == [i \in from .. from + taken - 1 |-> <<t, i>>]
  <2>1. \A i \in from .. from + taken - 1 : i \in Indices(t)
    BY <1>2, <1>5
  <2>2. new \in SUBSET Parts
    BY <2>1, PartsPairs
  <2>3. f \in Bijection(from .. from + taken - 1, new)
    <3> DEFINE D == from .. from + taken - 1
    <3>1. f \in [D -> new] /\ \A i \in D : f[i] = <<t, i>>
      OBVIOUS
    <3>2. \A p \in new : \E i \in D : <<t, i>> = p
      OBVIOUS
    <3> HIDE DEF f, new, D
    <3>3. \A i, j \in D : f[i] = f[j] => i = j
      BY <3>1
    <3>4. f \in Bijection(D, new)
      BY <3>1, <3>2, <3>3 DEF Bijection, Injection, Surjection, IsInjective
    <3> QED
      BY <3>4 DEF D
  <2>4. ExistsBijection(from .. from + taken - 1, new)
    BY <2>3 DEF ExistsBijection
  <2>5. IsFiniteSet(from .. from + taken - 1) /\ Cardinality(from .. from + taken - 1) = taken
    <3> DEFINE z == from + taken - 1
    <3>1. z \in Int
      BY <1>2
    <3> HIDE DEF z
    <3>2. IsFiniteSet(from .. z) /\ Cardinality(from .. z) = IF from > z THEN 0 ELSE z - from + 1
      BY <3>1, FS_Interval
    <3> QED
      BY <1>2, <3>2 DEF z
  <2> HIDE DEF new
  <2> QED
    BY <2>2, <2>4, <2>5, FS_Bijection
<1>8. \A p \in Parts : p \in new <=> p[1] = t /\ p[2] \in from .. from + taken - 1
  BY PartsPairs
<1>9. \A p \in new : chunk[p[1]][p[2]] = "none"
  BY <1>2
<1> HIDE DEF new
<1>10. Held(chunk') = Held(chunk) \cup new /\ Held(chunk) \cap new = {}
  <2>1. ASSUME NEW p \in Parts
        PROVE  p \in Held(chunk') <=> p \in Held(chunk) \cup new
    <3>1. CASE p \in new
      <4>1. chunk'[p[1]][p[2]] = "holding"
        BY <1>6, <1>8, <3>1
      <4> QED
        BY <3>1, <4>1 DEF Held
    <3>2. CASE p \notin new /\ p[1] = t /\ p[2] \in from .. to
      <4>1. chunk'[p[1]][p[2]] = "queued" /\ chunk[p[1]][p[2]] = "none"
        BY <1>6, <1>8, <3>2
      <4> QED
        BY <3>2, <4>1 DEF Held
    <3>3. CASE p \notin new /\ ~(p[1] = t /\ p[2] \in from .. to)
      <4>1. chunk'[p[1]][p[2]] = chunk[p[1]][p[2]]
        BY <1>6, <1>8, <3>3
      <4> QED
        BY <3>3, <4>1 DEF Held
    <3> QED
      BY <3>1, <3>2, <3>3
  <2>2. Held(chunk') \subseteq Parts /\ Held(chunk) \subseteq Parts /\ new \subseteq Parts
    BY <1>7 DEF Held
  <2>3. Held(chunk) \cap new = {}
    BY <1>9 DEF Held
  <2> QED
    BY <2>1, <2>2, <2>3
<1>11. active' = Cardinality(Held(chunk')) /\ active' <= PeerWindow
  <2>1. IsFiniteSet(Held(chunk)) /\ Cardinality(Held(chunk)) \in Nat
    <3>1. Held(chunk) \in SUBSET Parts
      BY DEF Held
    <3> QED
      BY <3>1, PartsFinite, FS_Subset, FS_CardinalityType
  <2>2. Cardinality(Held(chunk) \cup new) = Cardinality(Held(chunk)) + Cardinality(new) - Cardinality({})
    BY <1>7, <1>10, <2>1, FS_Union
  <2>3. Cardinality(Held(chunk')) = Cardinality(Held(chunk)) + taken
    BY <1>2, <1>7, <1>10, <2>1, <2>2, FS_EmptySet
  <2> QED
    BY <1>0, <1>1, <1>2, <1>3, <2>1, <2>3
<1>12. \A k \in 1..rest : /\ more[k] = <<t, from + taken + k - 1>>
                          /\ from + taken + k - 1 \in from + taken .. to
                          /\ from + taken + k - 1 \in Indices(t)
  BY <1>2, <1>4
<1>13. more \in Seq(Parts) /\ Len(more) = rest
  <2>1. \A k \in 1..rest : more[k] \in Parts
    BY <1>12, PartsPairs
  <2>2. more \in [1..rest -> Parts]
    BY <2>1
  <2> HIDE DEF more
  <2>3. more \in Seq(Parts)
    BY <1>2, <2>2, SeqDef
  <2> QED
    BY <1>2, <2>2, <2>3, LenProperties
<1>14. \A i \in from + taken .. to : i - from - taken + 1 \in 1..rest /\ more[i - from - taken + 1] = <<t, i>>
  BY <1>2
<1> HIDE DEF more
<1>15. /\ slots' \in Seq(Parts)
       /\ Len(slots') = Len(slots) + rest
       /\ \A k \in 1..Len(slots') : slots'[k] = IF k <= Len(slots) THEN slots[k] ELSE more[k - Len(slots)]
  <2>1. /\ slots \o more \in Seq(Parts)
        /\ Len(slots \o more) = Len(slots) + Len(more)
        /\ \A k \in 1..Len(slots) + Len(more) :
             (slots \o more)[k] = IF k <= Len(slots) THEN slots[k] ELSE more[k - Len(slots)]
    BY <1>0, <1>13, ConcatProperties
  <2> QED
    BY <1>3, <1>13, <2>1
<1>16. slots' # <<>> => active' = PeerWindow
  <2>1. CASE slots # <<>>
    BY <1>0, <1>1, <1>2, <1>3, <2>1
  <2>2. CASE slots = <<>> /\ rest = 0
    <3>1. Len(slots') = 0
      BY <1>0, <1>15, <2>2
    <3> QED
      BY <1>15, <3>1, EmptySeq
  <2>3. CASE rest # 0
    BY <1>0, <1>2, <1>3, <2>3
  <2> QED
    BY <2>1, <2>2, <2>3
<1>17. ASSUME NEW p \in Parts
       PROVE  chunk'[p[1]][p[2]] = "queued" <=> \E k \in 1..Len(slots') : slots'[k] = p
  <2>0. p[1] \in Transfers /\ p[2] \in Indices(p[1]) /\ p = <<p[1], p[2]>>
    BY PartsPairs
  <2>1. ASSUME p[1] = t, p[2] \in from .. to
        PROVE  chunk'[p[1]][p[2]] = "queued" <=> \E k \in 1..Len(slots') : slots'[k] = p
    <3>1. chunk[p[1]][p[2]] = "none"
      BY <2>1
    <3>2. \A k \in 1..Len(slots) : slots[k] # p
      BY <1>1, <3>1
    <3>3. CASE p[2] \in from .. from + taken - 1
      <4>1. chunk'[p[1]][p[2]] = "holding"
        BY <1>6, <2>1, <3>3
      <4>2. ASSUME NEW k \in 1..Len(slots'), slots'[k] = p PROVE FALSE
        <5>0. ~(k <= Len(slots))
          BY <1>0, <1>15, <3>2, <4>2
        <5>1. k - Len(slots) \in 1..rest /\ more[k - Len(slots)] = p
          BY <1>0, <1>2, <1>15, <4>2, <5>0
        <5>2. p[2] \in from + taken .. to
          BY <1>12, <2>0, <5>1
        <5> QED
          BY <1>2, <3>3, <5>2
      <4> QED
        BY <4>1, <4>2
    <3>4. CASE p[2] \notin from .. from + taken - 1
      <4>1. chunk'[p[1]][p[2]] = "queued"
        BY <1>6, <2>1, <3>4
      <4>2. p[2] \in from + taken .. to
        BY <1>2, <2>1, <3>4
      <4> DEFINE k == p[2] - from - taken + 1
      <4>3. k \in 1..rest /\ more[k] = p
        BY <1>14, <2>0, <2>1, <4>2
      <4> HIDE DEF k
      <4>4. Len(slots) + k \in 1..Len(slots') /\ slots'[Len(slots) + k] = p
        BY <1>0, <1>2, <1>15, <4>3
      <4> QED
        BY <4>1, <4>4
    <3> QED
      BY <3>3, <3>4
  <2>2. ASSUME ~(p[1] = t /\ p[2] \in from .. to)
        PROVE  chunk'[p[1]][p[2]] = "queued" <=> \E k \in 1..Len(slots') : slots'[k] = p
    <3>1. chunk'[p[1]][p[2]] = chunk[p[1]][p[2]]
      BY <1>2, <1>6, <2>2
    <3>2. ASSUME NEW k \in 1..Len(slots'), slots'[k] = p
          PROVE  \E j \in 1..Len(slots) : slots[j] = p
      <4>1. CASE k <= Len(slots)
        BY <1>0, <1>15, <3>2, <4>1
      <4>2. CASE ~(k <= Len(slots))
        <5>1. k - Len(slots) \in 1..rest /\ more[k - Len(slots)] = p
          BY <1>0, <1>2, <1>15, <3>2, <4>2
        <5>2. p[1] = t /\ p[2] \in from + taken .. to
          BY <1>12, <2>0, <5>1
        <5> QED
          BY <1>2, <2>2, <5>2
      <4> QED
        BY <4>1, <4>2
    <3>3. ASSUME NEW k \in 1..Len(slots), slots[k] = p
          PROVE  \E j \in 1..Len(slots') : slots'[j] = p
      BY <1>0, <1>2, <1>15, <3>3
    <3> QED
      BY <1>1, <3>1, <3>2, <3>3
  <2> QED
    BY <2>1, <2>2
<1> QED
  BY <1>11, <1>16, <1>17 DEF SlotsAccounted, Holds, Held

(* A chunk that has its slot is through.                                    *)
LEMMA OneThrough ==
  ASSUME IInv, NEW t \in Transfers, NEW i \in Indices(t), Holds(t, i),
         NEW state, NEW s \in {"acked", "failed"}, state = [chunk EXCEPT ![t][i] = s]
  PROVE  /\ Held(state) \subseteq Held(chunk) /\ Cardinality(Held(chunk) \ Held(state)) = 1
         /\ \A p \in Parts : state[p[1]][p[2]] = "queued" <=> chunk[p[1]][p[2]] = "queued"
<1>1. \A p \in Parts : state[p[1]][p[2]] = IF p = <<t, i>> THEN s ELSE chunk[p[1]][p[2]]
  <2> TAKE p \in Parts
  <2>1. p[1] \in Transfers /\ p[2] \in Indices(p[1]) /\ p = <<p[1], p[2]>>
    BY PartsPairs
  <2>2. DOMAIN chunk = Transfers /\ \A u \in Transfers : DOMAIN chunk[u] = Indices(u)
    BY DEF IInv, SenderShape
  <2>3. CASE p[1] = t
    BY <2>1, <2>2, <2>3
  <2>4. CASE p[1] # t
    BY <2>1, <2>2, <2>4
  <2> QED
    BY <2>3, <2>4
<1>2. <<t, i>> \in Parts /\ <<t, i>> \in Held(chunk) /\ chunk[t][i] # "queued"
  BY PartsPairs DEF Holds, Held
<1>3. Held(state) = Held(chunk) \ {<<t, i>>}
  BY <1>1 DEF Held
<1>4. Held(chunk) \ Held(state) = {<<t, i>>}
  BY <1>2, <1>3
<1>5. Cardinality(Held(chunk) \ Held(state)) = 1
  BY <1>4, FS_Singleton
<1>6. \A p \in Parts : state[p[1]][p[2]] = "queued" <=> chunk[p[1]][p[2]] = "queued"
  BY <1>1, <1>2
<1> QED
  BY <1>3, <1>5, <1>6

LEMMA SlotsSame ==
  ASSUME SlotsAccounted, UNCHANGED <<chunk, slots, active>>
  PROVE  SlotsAccounted'
BY DEF SlotsAccounted, Holds

LEMMA StartCounts ==
  ASSUME IInv, SlotsAccounted, NEW t \in Transfers, Start(t)
  PROVE  SlotsAccounted'
<1>1. transfer[t].stage = "idle" /\ Asked(t, 0, 0)
  BY DEF Start
<1>2. Chunks[t] \in Nat /\ 0 < Chunks[t] /\ 0 \in Indices(t)
  BY IndicesNat
<1>3. \A i \in 0 .. 0 : chunk[t][i] = "none"
  BY <1>1, <1>2 DEF IInv, NotYet
<1> QED
  BY <1>1, <1>2, <1>3, AskedCount

LEMMA ContinueCounts ==
  ASSUME IInv, SlotsAccounted, NEW t \in Transfers, Continue(t)
  PROVE  SlotsAccounted'
<1> DEFINE k == transfer[t]
           from == k.to + 1
           to == IF k.to + k.window < Chunks[t] THEN k.to + k.window ELSE Chunks[t] - 1
<1>1. k.stage = "sending"
  BY DEF Continue
<1>2. /\ k \in [stage : Stages, from : Nat, to : Nat, window : {1, Window}, generation : Nat]
      /\ k.window \in Nat \ {0}
  BY ChunkConstants DEF IInv, SenderShape
<1>3. /\ Chunks[t] \in Nat \ {0} /\ \A i : i \in Indices(t) <=> i \in Nat /\ i < Chunks[t]
      /\ k.to < Chunks[t] /\ k.to \in Nat
      /\ \A i \in Indices(t) : i > k.to => chunk[t][i] = "none"
  BY <1>1, <1>2, IndicesNat DEF IInv, NotYet
<1>4. CASE from = Chunks[t]
  BY <1>4, SlotsSame DEF Continue
<1>5. CASE from # Chunks[t]
  <2>1. Asked(t, from, to)
    BY <1>5 DEF Continue
  <2>2. from \in Nat /\ to \in Nat /\ from <= to /\ to < Chunks[t] /\ k.to < from
    BY <1>2, <1>3, <1>5
  <2> HIDE DEF from, to
  <2>3. \A i \in from .. to : i \in Indices(t) /\ i > k.to
    BY <1>3, <2>2
  <2>4. \A i \in from .. to : chunk[t][i] = "none"
    BY <1>3, <2>3
  <2> QED
    BY <2>1, <2>2, <2>4, AskedCount
<1> QED
  BY <1>4, <1>5

LEMMA SendCounts ==
  ASSUME IInv, SlotsAccounted, NEW t \in Transfers, NEW i \in Indices(t), Send(t, i)
  PROVE  SlotsAccounted'
<1>0. chunk[t][i] = "holding" /\ Holds(t, i)
  BY DEF Send, Holds
<1>1. CASE transfer[t].generation = generation /\ online.sender
  <2>1. chunk' = [chunk EXCEPT ![t][i] = "waiting"] /\ UNCHANGED <<slots, active>>
    BY <1>1 DEF Send
  <2>2. DOMAIN chunk = Transfers /\ \A u \in Transfers : DOMAIN chunk[u] = Indices(u)
    BY DEF IInv, SenderShape
  <2>3. ASSUME NEW p \in Parts
        PROVE  /\ Holds(p[1], p[2])' <=> Holds(p[1], p[2])
               /\ chunk'[p[1]][p[2]] = "queued" <=> chunk[p[1]][p[2]] = "queued"
    <3>1. p[1] \in Transfers /\ p[2] \in Indices(p[1])
      BY PartsPairs
    <3>2. CASE p[1] = t /\ p[2] = i
      BY <1>0, <2>1, <2>2, <3>1, <3>2 DEF Holds
    <3>3. CASE ~(p[1] = t /\ p[2] = i)
      <4>1. chunk'[p[1]][p[2]] = chunk[p[1]][p[2]]
        BY <2>1, <2>2, <3>1, <3>3
      <4> QED
        BY <4>1 DEF Holds
    <3> QED
      BY <3>2, <3>3
  <2>4. {p \in Parts : Holds(p[1], p[2])}' = {p \in Parts : Holds(p[1], p[2])}
    BY <2>3
  <2> QED
    BY <2>1, <2>3, <2>4 DEF SlotsAccounted
<1>2. CASE ~(transfer[t].generation = generation /\ online.sender)
  <2> DEFINE state == [chunk EXCEPT ![t][i] = "failed"]
  <2>1. Released(state, 1)
    BY <1>2 DEF Send
  <2> HIDE DEF state
  <2>2. /\ Held(state) \subseteq Held(chunk) /\ Cardinality(Held(chunk) \ Held(state)) = 1
        /\ \A p \in Parts : state[p[1]][p[2]] = "queued" <=> chunk[p[1]][p[2]] = "queued"
    BY <1>0, OneThrough DEF state
  <2> QED
    BY <2>1, <2>2, ReleasedCount
<1> QED
  BY <1>1, <1>2

LEMMA TimeOutCounts ==
  ASSUME IInv, SlotsAccounted, NEW t \in Transfers, NEW i \in Indices(t), TimeOut(t, i)
  PROVE  SlotsAccounted'
<1> DEFINE state == [chunk EXCEPT ![t][i] = "failed"]
<1>1. Holds(t, i) /\ Released(state, 1)
  BY DEF TimeOut, Holds
<1> HIDE DEF state
<1>2. /\ Held(state) \subseteq Held(chunk) /\ Cardinality(Held(chunk) \ Held(state)) = 1
      /\ \A p \in Parts : state[p[1]][p[2]] = "queued" <=> chunk[p[1]][p[2]] = "queued"
  BY <1>1, OneThrough DEF state
<1> QED
  BY <1>1, <1>2, ReleasedCount

LEMMA TakeAckCounts ==
  ASSUME IInv, SlotsAccounted, NEW a \in net, TakeAck(a)
  PROVE  SlotsAccounted'
<1>1. CASE chunk[a.of][a.index] = "waiting"
  <2> DEFINE state == [chunk EXCEPT ![a.of][a.index] = "acked"]
  <2>1. Holds(a.of, a.index) /\ Released(state, 1)
    BY <1>1 DEF TakeAck, Holds
  <2>2. a.of \in Transfers /\ a.index \in Indices(a.of)
    BY DEF IInv, NetShape, Frames
  <2> HIDE DEF state
  <2>3. /\ Held(state) \subseteq Held(chunk) /\ Cardinality(Held(chunk) \ Held(state)) = 1
        /\ \A p \in Parts : state[p[1]][p[2]] = "queued" <=> chunk[p[1]][p[2]] = "queued"
    BY <2>1, <2>2, OneThrough DEF state
  <2> QED
    BY <2>1, <2>3, ReleasedCount
<1>2. CASE chunk[a.of][a.index] # "waiting"
  BY <1>2, SlotsSame DEF TakeAck
<1> QED
  BY <1>1, <1>2

LEMMA CutSenderCounts ==
  ASSUME IInv, SlotsAccounted, CutSender
  PROVE  SlotsAccounted'
<1> DEFINE waiting == {p \in Parts : chunk[p[1]][p[2]] = "waiting"}
           state == [t \in Transfers |-> [i \in Indices(t) |->
                      IF <<t, i>> \in waiting THEN "failed" ELSE chunk[t][i]]]
<1>1. Released(state, Cardinality(waiting))
  BY DEF CutSender
<1>2. Cardinality(waiting) \in Nat
  <2>1. IsFiniteSet(waiting)
    BY PartsFinite, FS_Subset
  <2> HIDE DEF waiting
  <2> QED
    BY <2>1, FS_CardinalityType
<1>3. \A p \in Parts : state[p[1]][p[2]] = IF chunk[p[1]][p[2]] = "waiting" THEN "failed" ELSE chunk[p[1]][p[2]]
  BY PartsPairs
<1> HIDE DEF state
<1>4. Held(state) \subseteq Held(chunk) /\ Held(chunk) \ Held(state) = waiting
  BY <1>3 DEF Held
<1>5. \A p \in Parts : state[p[1]][p[2]] = "queued" <=> chunk[p[1]][p[2]] = "queued"
  BY <1>3
<1> HIDE DEF waiting
<1> QED
  BY <1>1, <1>2, <1>4, <1>5, ReleasedCount

LEMMA NextCounts == IInv /\ SlotsAccounted /\ [Next]_vars => SlotsAccounted'
<1> SUFFICES ASSUME IInv, SlotsAccounted, [Next]_vars PROVE SlotsAccounted'
  OBVIOUS
<1>1. ASSUME NEW t \in Transfers, Start(t) \/ Continue(t) PROVE SlotsAccounted'
  BY <1>1, StartCounts, ContinueCounts
<1>2. ASSUME NEW t \in Transfers, GiveUp(t) \/ Age(t) PROVE SlotsAccounted'
  BY <1>2, SlotsSame DEF GiveUp, Age
<1>3. ASSUME NEW t \in Transfers, NEW i \in Indices(t), Send(t, i) \/ TimeOut(t, i) PROVE SlotsAccounted'
  BY <1>3, SendCounts, TimeOutCounts
<1>4. ASSUME NEW f \in net, TakeAck(f) PROVE SlotsAccounted'
  BY <1>4, TakeAckCounts
<1>5. ASSUME NEW f \in net, Receive(f) \/ Lose(f) PROVE SlotsAccounted'
  BY <1>5, SlotsSame DEF Receive, Lose
<1>6. ASSUME CutReceiver \/ Reconnect \/ UNCHANGED vars PROVE SlotsAccounted'
  BY <1>6, SlotsSame DEF CutReceiver, Reconnect, vars
<1> QED
  BY <1>1, <1>2, <1>3, <1>4, <1>5, <1>6, CutSenderCounts DEF Next

LEMMA InitCounts == Init => SlotsAccounted
<1> SUFFICES ASSUME Init PROVE SlotsAccounted
  OBVIOUS
<1>1. \A p \in Parts : chunk[p[1]][p[2]] = "none"
  BY PartsPairs DEF Init
<1>2. {p \in Parts : Holds(p[1], p[2])} = {}
  BY <1>1 DEF Holds
<1>3. Cardinality({}) = 0
  BY FS_EmptySet
<1>4. slots = <<>> /\ Len(slots) = 0 /\ active = 0 /\ 0 <= PeerWindow
  BY ChunkConstants, EmptySeq DEF Init
<1>5. active = Cardinality({p \in Parts : Holds(p[1], p[2])})
  BY <1>2, <1>3, <1>4
<1>6. active <= PeerWindow /\ 1..Len(slots) = {}
  BY <1>4
<1> QED
  BY <1>1, <1>4, <1>5, <1>6 DEF SlotsAccounted

(* The slots taken are those of chunks under way, nobody queues while one   *)
(* is free, and whoever queues is in the line.                              *)
THEOREM Slots == Spec => []SlotsAccounted
BY Invariance, InitCounts, NextCounts, PTL DEF Spec

---------------------------------------------------------------------------
(* Without a fault nothing fails.                                           *)

(* The connection is that of every transfer, a chunk under way is on its    *)
(* way, a transfer is at most a window ahead of what is acknowledged, and   *)
(* its first chunk goes alone.                                              *)
CalmSender ==
  /\ online.sender /\ online.receiver
  /\ \A t \in Transfers :
       /\ transfer[t].stage # "failed"
       /\ transfer[t].stage # "idle" => transfer[t].generation = generation
       /\ transfer[t].stage = "sending" =>
            /\ transfer[t].to < transfer[t].from + Window
            /\ transfer[t].from = 0 => transfer[t].to = 0
       /\ \A i \in Indices(t) :
            /\ chunk[t][i] # "failed"
            /\ chunk[t][i] = "waiting" => Sent(t, i) \/ Acking(t, i)

(* A text begun and not complete is being assembled, up to its first gap.   *)
CalmReceiver ==
  \A t \in Transfers :
    /\ ~assembly[t].old
    /\ accepted[t] # {} /\ accepted[t] # Indices(t) => assembly[t].open
    /\ assembly[t].open => assembly[t].next = Next1(accepted[t], Chunks[t])

(* There is room for all the transfers that were begun.                     *)
Roomy ==
  /\ Cardinality(Started) <= MaxAssemblies
  /\ Cardinality({p \in Parts : p[1] \in Started}) <= Room

Calm ==
  /\ faults \in Nat
  /\ faults = 0 /\ Roomy => CalmSender /\ CalmReceiver

LEMMA StartedGrows ==
  ASSUME IInv, [Next]_vars
  PROVE  Started \subseteq Started'
<1> SUFFICES ASSUME NEW u \in Transfers, transfer[u].stage # "idle"
             PROVE  transfer'[u].stage # "idle"
  BY DEF Started
<1>0. transfer \in [Transfers -> [stage : Stages, from : Nat, to : Nat, window : {1, Window},
                                  generation : Nat]]
  BY DEF IInv, SenderShape
<1>1. ASSUME NEW t \in Transfers, Start(t) PROVE transfer'[u].stage # "idle"
  BY <1>0, <1>1 DEF Start
<1>2. ASSUME NEW t \in Transfers, Continue(t) PROVE transfer'[u].stage # "idle"
  <2> DEFINE k == transfer[t]
             to == IF k.to + k.window < Chunks[t] THEN k.to + k.window ELSE Chunks[t] - 1
  <2>1. \/ transfer' = [transfer EXCEPT ![t].stage = "done"]
        \/ transfer' = [transfer EXCEPT ![t] = [k EXCEPT !.from = k.to + 1, !.to = to]]
    BY <1>2 DEF Continue
  <2> HIDE DEF to
  <2>2. CASE transfer' = [transfer EXCEPT ![t].stage = "done"]
    BY <1>0, <2>2
  <2>3. CASE transfer' = [transfer EXCEPT ![t] = [k EXCEPT !.from = k.to + 1, !.to = to]]
    <3> DEFINE next == [k EXCEPT !.from = k.to + 1, !.to = to]
    <3>1. next.stage = k.stage
      BY <1>0
    <3>2. transfer' = [transfer EXCEPT ![t] = next]
      BY <2>3
    <3> HIDE DEF next
    <3>3. CASE u = t
      BY <1>0, <3>1, <3>2, <3>3
    <3>4. CASE u # t
      BY <1>0, <3>2, <3>4
    <3> QED
      BY <3>3, <3>4
  <2> QED
    BY <2>1, <2>2, <2>3
<1>3. ASSUME NEW t \in Transfers, GiveUp(t) PROVE transfer'[u].stage # "idle"
  BY <1>0, <1>3 DEF GiveUp
<1>4. ASSUME NEW f \in net, TakeAck(f) PROVE transfer'[u].stage # "idle"
  BY <1>0, <1>4 DEF TakeAck
<1>5. ASSUME UNCHANGED transfer PROVE transfer'[u].stage # "idle"
  BY <1>5
<1> QED
  BY <1>1, <1>2, <1>3, <1>4, <1>5
     DEF Next, Age, Send, TimeOut, Receive, Lose, CutSender, CutReceiver, Reconnect, vars

(* Room for what was begun was there before.                                *)
LEMMA RoomyBefore ==
  ASSUME IInv, [Next]_vars, Roomy'
  PROVE  Roomy
<1> DEFINE S == {p \in Parts : p[1] \in Started}
           T == {p \in Parts : p[1] \in Started'}
<1>1. Started \in SUBSET Started'
  BY StartedGrows
<1>2. IsFiniteSet(Started')
  <2>1. Started' \in SUBSET Transfers
    BY DEF Started
  <2> QED
    BY <2>1, ChunkConstants, FS_Subset
<1>3. S \in SUBSET T
  BY <1>1
<1>4. IsFiniteSet(T)
  BY PartsFinite, FS_Subset
<1> HIDE DEF S, T
<1>5. /\ Cardinality(Started) <= Cardinality(Started') /\ Cardinality(S) <= Cardinality(T)
      /\ IsFiniteSet(Started) /\ IsFiniteSet(S)
  BY <1>1, <1>2, <1>3, <1>4, FS_Subset
<1>6. Cardinality(Started) \in Nat /\ Cardinality(Started') \in Nat /\ Cardinality(S) \in Nat /\ Cardinality(T) \in Nat
  BY <1>2, <1>4, <1>5, FS_CardinalityType
<1>7. Cardinality(Started') <= MaxAssemblies /\ Cardinality(T) <= Room
  BY DEF Roomy, T
<1>8. Cardinality(Started) <= MaxAssemblies /\ Cardinality(S) <= Room
  BY <1>5, <1>6, <1>7, ChunkConstants
<1> QED
  BY <1>8 DEF Roomy, S

(* What the first gap leaves behind it.                                     *)
LEMMA GapAhead ==
  ASSUME NEW n \in Nat, NEW parts \in SUBSET (0 .. n - 1), NEW m \in Nat, m <= n,
         \A j \in 0 .. m - 1 : j \in parts
  PROVE  Next1(parts, n) >= m
<1> DEFINE x == Next1(parts, n)
<1>1. x \in 0 .. n
  BY FirstMissing
<1>2. x \notin parts \/ x = n
  <2>1. \E j \in 0..n : j \notin parts /\ \A k \in 0 .. j - 1 : k \in parts
    <3> DEFINE missing == {j \in 0..n : j \notin parts}
               less == {p \in Nat \X Nat : p[1] < p[2]}
    <3>1. IsWellFoundedOn(less, Nat)
      BY NatLessThanWellFounded DEF OpToRel
    <3>2. missing \subseteq Nat /\ n \in missing
      OBVIOUS
    <3> HIDE DEF missing, less
    <3>3. PICK y \in missing : \A z \in missing : ~(<<z, y>> \in less)
      BY <3>1, <3>2, WFMin, Zenon
    <3>4. ASSUME NEW k \in 0 .. y - 1, k \notin parts PROVE FALSE
      <4>1. y \in 0..n /\ y \notin parts
        BY DEF missing
      <4>2. k \in missing /\ <<k, y>> \in less
        BY <3>4, <4>1 DEF missing, less
      <4> QED
        BY <3>3, <4>2
    <3> QED
      BY <3>4 DEF missing
  <2> QED
    BY <2>1 DEF Next1
<1> HIDE DEF x
<1>3. ASSUME x < m PROVE FALSE
  <2>1. x \in 0 .. m - 1
    BY <1>1, <1>3
  <2>2. x \in parts
    BY <2>1
  <2> QED
    BY <1>1, <1>2, <1>3, <2>2
<1> QED
  BY <1>1, <1>3 DEF x

LEMMA StartCalm ==
  ASSUME IInv, CalmSender, CalmReceiver, NEW t \in Transfers, Start(t)
  PROVE  CalmSender' /\ CalmReceiver'
<1>1. /\ transfer[t].stage = "idle"
      /\ transfer' = [transfer EXCEPT ![t] = [transfer[t] EXCEPT !.stage = "sending", !.generation = generation]]
      /\ Asked(t, 0, 0)
      /\ UNCHANGED <<generation, net, assembly, online, accepted, delivered>>
  BY DEF Start
<1>2. \A i \in Indices(t) : chunk[t][i] = "none"
  BY <1>1 DEF IInv, NotYet
<1>3. Chunks[t] \in Nat /\ 0 < Chunks[t] /\ 0 \in Indices(t)
  BY IndicesNat
<1>4. \A i \in 0 .. 0 : chunk[t][i] = "none"
  BY <1>2, <1>3
<1>5. \A u \in Transfers : \A i \in Indices(u) :
        \/ chunk'[u][i] = chunk[u][i]
        \/ u = t /\ i \in 0 .. 0 /\ chunk'[u][i] \in {"queued", "holding"}
  BY <1>1, <1>3, <1>4, AskedSlots DEF IInv
<1>6. transfer \in [Transfers -> [stage : Stages, from : Nat, to : Nat, window : {1, Window},
                                  generation : Nat]]
  BY DEF IInv, SenderShape
<1>7. /\ transfer'[t].stage = "sending" /\ transfer'[t].from = 0 /\ transfer'[t].to = 0
      /\ transfer'[t].generation = generation
      /\ \A u \in Transfers : u # t => transfer'[u] = transfer[u]
  BY <1>1, <1>6 DEF IInv, NotYet
<1>8. CalmReceiver'
  BY <1>1 DEF CalmReceiver
<1>9. CalmSender'
  BY <1>1, <1>5, <1>7, ChunkConstants DEF CalmSender, Sent, Acking
<1> QED
  BY <1>8, <1>9

LEMMA ContinueCalm ==
  ASSUME IInv, CalmSender, CalmReceiver, NEW t \in Transfers, Continue(t)
  PROVE  CalmSender' /\ CalmReceiver'
<1> DEFINE k == transfer[t]
           from == k.to + 1
           to == IF k.to + k.window < Chunks[t] THEN k.to + k.window ELSE Chunks[t] - 1
           Record == [stage : Stages, from : Nat, to : Nat, window : {1, Window}, generation : Nat]
<1>1. /\ k.stage = "sending"
      /\ UNCHANGED <<generation, net, assembly, online, accepted, delivered>>
  BY DEF Continue
<1>2. transfer \in [Transfers -> Record] /\ k \in Record /\ k.window \in Nat \ {0} /\ k.window <= Window
      /\ Window \in Nat
  BY ChunkConstants DEF IInv, SenderShape
<1>3. /\ Chunks[t] \in Nat \ {0} /\ \A i : i \in Indices(t) <=> i \in Nat /\ i < Chunks[t]
      /\ k.to < Chunks[t] /\ k.to \in Nat
      /\ \A i \in Indices(t) : i > k.to => chunk[t][i] = "none"
  BY <1>1, <1>2, IndicesNat DEF IInv, NotYet
<1>4. CalmReceiver'
  BY <1>1 DEF CalmReceiver
<1>5. CASE from = Chunks[t]
  <2>1. transfer' = [transfer EXCEPT ![t].stage = "done"] /\ UNCHANGED chunk
    BY <1>5 DEF Continue
  <2>2. /\ transfer'[t].stage = "done" /\ transfer'[t].generation = k.generation
        /\ \A u \in Transfers : u # t => transfer'[u] = transfer[u]
    BY <1>2, <2>1
  <2>3. CalmSender'
    BY <1>1, <2>1, <2>2 DEF CalmSender, Sent, Acking
  <2> QED
    BY <1>4, <2>3
<1>6. CASE from # Chunks[t]
  <2>1. /\ transfer' = [transfer EXCEPT ![t] = [k EXCEPT !.from = from, !.to = to]]
        /\ Asked(t, from, to)
    BY <1>6 DEF Continue
  <2>2. /\ from \in Nat /\ to \in Nat /\ from <= to /\ to < Chunks[t] /\ k.to < from
        /\ to < from + Window /\ from # 0
    BY <1>2, <1>3, <1>6
  <2>3. /\ transfer'[t].stage = "sending" /\ transfer'[t].from = from /\ transfer'[t].to = to
        /\ transfer'[t].generation = k.generation
        /\ \A u \in Transfers : u # t => transfer'[u] = transfer[u]
    <3> HIDE DEF from, to
    <3> DEFINE next == [k EXCEPT !.from = from, !.to = to]
    <3>1. next.stage = k.stage /\ next.from = from /\ next.to = to /\ next.generation = k.generation
      BY <1>2
    <3>2. transfer' = [transfer EXCEPT ![t] = next]
      BY <2>1
    <3> HIDE DEF next
    <3> QED
      BY <1>1, <1>2, <3>1, <3>2
  <2> HIDE DEF from, to
  <2>4. \A i \in from .. to : i \in Indices(t) /\ i > k.to
    BY <1>3, <2>2
  <2>5. \A i \in from .. to : chunk[t][i] = "none"
    BY <1>3, <2>4
  <2>6. \A u \in Transfers : \A i \in Indices(u) :
          \/ chunk'[u][i] = chunk[u][i]
          \/ u = t /\ i \in from .. to /\ chunk'[u][i] \in {"queued", "holding"}
    BY <2>1, <2>2, <2>5, AskedSlots DEF IInv
  <2>7. CalmSender'
    BY <1>1, <2>2, <2>3, <2>6 DEF CalmSender, Sent, Acking
  <2> QED
    BY <1>4, <2>7
<1> QED
  BY <1>5, <1>6

LEMMA SendCalm ==
  ASSUME IInv, CalmSender, CalmReceiver, NEW t \in Transfers, NEW i \in Indices(t), Send(t, i)
  PROVE  CalmSender' /\ CalmReceiver'
<1> DEFINE f == [type |-> "chunk", of |-> t, index |-> i, window |-> 0]
<1>1. /\ DOMAIN chunk = Transfers /\ \A u \in Transfers : chunk[u] \in [Indices(u) -> States]
      /\ chunk[t][i] = "holding"
      /\ UNCHANGED <<transfer, generation, assembly, online, accepted, delivered>>
  BY DEF IInv, SenderShape, Send
<1>2. transfer[t].stage # "idle"
  BY <1>1 DEF IInv, NotYet
<1>3. chunk' = [chunk EXCEPT ![t][i] = "waiting"] /\ net' = net \cup {f}
  BY <1>2 DEF Send, CalmSender
<1>4. \A u \in Transfers : \A j \in Indices(u) :
        \/ chunk'[u][j] = chunk[u][j]
        \/ u = t /\ j = i /\ chunk'[u][j] = "waiting"
  <2> TAKE u \in Transfers
  <2> TAKE j \in Indices(u)
  <2>1. CASE u = t
    BY <1>1, <1>3, <2>1
  <2>2. CASE u # t
    BY <1>1, <1>3, <2>2
  <2> QED
    BY <2>1, <2>2
<1>5. Sent(t, i)'
  <2>1. f \in net' /\ f.type = "chunk" /\ f.of = t /\ f.index = i
    BY <1>3
  <2> HIDE DEF f
  <2> QED
    BY <2>1 DEF Sent
<1>6. \A u \in Transfers : \A j \in Indices(u) : Sent(u, j) \/ Acking(u, j) => Sent(u, j)' \/ Acking(u, j)'
  BY <1>3 DEF Sent, Acking
<1>7. CalmSender'
  BY <1>1, <1>4, <1>5, <1>6 DEF CalmSender
<1>8. CalmReceiver'
  BY <1>1 DEF CalmReceiver
<1> QED
  BY <1>7, <1>8

LEMMA TakeAckCalm ==
  ASSUME IInv, CalmSender, CalmReceiver, NEW a \in net, TakeAck(a)
  PROVE  CalmSender' /\ CalmReceiver'
<1> DEFINE t == a.of
           i == a.index
           state == [chunk EXCEPT ![t][i] = "acked"]
<1>1. /\ t \in Transfers /\ i \in Indices(t) /\ a.type = "ack"
      /\ net' = net \ {a}
      /\ UNCHANGED <<generation, assembly, online, accepted, delivered>>
  BY DEF IInv, NetShape, Frames, TakeAck
<1>2. /\ DOMAIN chunk = Transfers /\ \A u \in Transfers : chunk[u] \in [Indices(u) -> States]
      /\ transfer \in [Transfers -> [stage : Stages, from : Nat, to : Nat, window : {1, Window},
                                     generation : Nat]]
  BY DEF IInv, SenderShape
<1>3. CalmReceiver'
  BY <1>1 DEF CalmReceiver
<1>4. ASSUME NEW u \in Transfers, NEW j \in Indices(u), Sent(u, j) \/ Acking(u, j), ~(u = t /\ j = i)
      PROVE  Sent(u, j)' \/ Acking(u, j)'
  BY <1>1, <1>4 DEF Sent, Acking
<1> HIDE DEF t, i
<1>5. ASSUME NEW u \in Transfers
      PROVE  /\ transfer'[u].stage = transfer[u].stage /\ transfer'[u].generation = transfer[u].generation
             /\ transfer'[u].from = transfer[u].from /\ transfer'[u].to = transfer[u].to
  <2>1. transfer' = transfer \/ transfer' = [transfer EXCEPT ![t].window = a.window]
    BY DEF TakeAck, t, i
  <2> QED
    BY <1>1, <1>2, <2>1
<1>6. ASSUME NEW u \in Transfers, NEW j \in Indices(u)
      PROVE  /\ chunk'[u][j] # "failed"
             /\ chunk'[u][j] = "waiting" => Sent(u, j)' \/ Acking(u, j)'
  <2>0. chunk[u][j] # "failed" /\ (chunk[u][j] = "waiting" => Sent(u, j) \/ Acking(u, j))
    BY DEF CalmSender
  <2>1. CASE chunk[t][i] = "waiting"
    <3>1. Released(state, 1)
      BY <2>1 DEF TakeAck, t, i
    <3>2. /\ DOMAIN state = Transfers
          /\ \A v \in Transfers : state[v] \in [Indices(v) -> States]
          /\ \A v \in Transfers : \A l \in Indices(v) :
               state[v][l] = IF v = t /\ l = i THEN "acked" ELSE chunk[v][l]
      <4>1. /\ DOMAIN state = Transfers
            /\ state[t] = [chunk[t] EXCEPT ![i] = "acked"]
            /\ \A v \in Transfers : v # t => state[v] = chunk[v]
        BY <1>1, <1>2
      <4> HIDE DEF state
      <4>2. /\ state[t] \in [Indices(t) -> States] /\ state[t][i] = "acked"
            /\ \A l \in Indices(t) : l # i => state[t][l] = chunk[t][l]
        BY <1>1, <1>2, <4>1 DEF States
      <4> QED
        BY <1>2, <4>1, <4>2
    <3> HIDE DEF state
    <3>3. \A k \in 1..Len(slots) : state[slots[k][1]][slots[k][2]] = "queued"
      <4> TAKE k \in 1..Len(slots)
      <4> DEFINE p == slots[k]
      <4>1. p \in Parts /\ chunk[p[1]][p[2]] = "queued"
        BY DEF IInv, SlotsOK
      <4>2. p[1] \in Transfers /\ p[2] \in Indices(p[1])
        BY <4>1, PartsPairs
      <4> HIDE DEF p
      <4>3. state[p[1]][p[2]] = "queued"
        BY <2>1, <3>2, <4>1, <4>2
      <4> QED
        BY <4>3 DEF p
    <3>4. SlotsOK /\ active \in Int /\ active <= PeerWindow
      BY DEF IInv, SenderShape
    <3>5. \/ chunk'[u][j] = state[u][j]
          \/ state[u][j] = "queued" /\ chunk'[u][j] = "holding"
      BY <3>1, <3>2, <3>3, <3>4, ReleasedSlots
    <3>6. \/ chunk'[u][j] \in {"acked", "holding"}
          \/ chunk'[u][j] = chunk[u][j] /\ ~(u = t /\ j = i)
      BY <3>2, <3>5
    <3> QED
      BY <1>4, <2>0, <3>6
  <2>2. CASE chunk[t][i] # "waiting"
    <3>1. chunk' = chunk
      BY <2>2 DEF TakeAck, t, i
    <3> QED
      BY <1>4, <2>0, <2>2, <3>1
  <2> QED
    BY <2>1, <2>2
<1>7. CalmSender'
  BY <1>1, <1>5, <1>6 DEF CalmSender
<1> QED
  BY <1>3, <1>7

(* A chunk that comes is neither too early nor one too many.                *)
LEMMA NotRefused ==
  ASSUME IInv, CalmSender, CalmReceiver, Roomy, NEW f \in net, f.type = "chunk"
  PROVE  /\ Swept = assembly
         /\ ~Refused(assembly[f.of], f.index, f.index = Chunks[f.of] - 1, assembly)
         /\ Kept([assembly EXCEPT ![f.of] = Taken(assembly[f.of], f.of, f.index)]) <= Room
<1> DEFINE t == f.of
           i == f.index
           item == assembly[t]
           k == transfer[t]
           AssemblyType == [open : BOOLEAN, parts : SUBSET Nat, next : Nat, last : Nat \cup {-1}, old : BOOLEAN]
           full == [assembly EXCEPT ![t] = Taken(item, t, i)]
<1>1. t \in Transfers /\ i \in Indices(t) /\ Sent(t, i)
  BY DEF IInv, NetShape, Frames, Sent
<1>2. assembly \in [Transfers -> AssemblyType] /\ \A u \in Transfers : ~assembly[u].old
  BY DEF IInv, ReceiverShape, CalmReceiver
<1>3. Swept = assembly
  <2>1. \A u \in Transfers : assembly[u].old = FALSE
    BY <1>2
  <2>2. Swept = [u \in Transfers |-> assembly[u]]
    BY <2>1 DEF Swept
  <2> QED
    BY <1>2, <2>2
<1>4. /\ Chunks[t] \in Nat \ {0} /\ Indices(t) = 0 .. Chunks[t] - 1
      /\ \A j : j \in Indices(t) <=> j \in Nat /\ j < Chunks[t]
      /\ MaxAssemblies \in Nat /\ Room \in Nat /\ Window \in Nat
  BY <1>1, IndicesNat, ChunkConstants DEF Indices
<1>5. i \notin accepted[t] /\ chunk[t][i] \in {"waiting", "acked"}
  BY <1>1 DEF IInv, SentOnce, CalmSender
<1>6. k.stage = "sending"
  <2>1. k.stage \in Stages
    BY <1>1 DEF IInv, SenderShape
  <2>2. k.stage # "idle"
    BY <1>1, <1>5 DEF IInv, NotYet
  <2>3. k.stage # "done"
    BY <1>1, <1>5 DEF IInv, BehindAcked, AckedAccepted
  <2>4. k.stage # "failed"
    BY <1>1 DEF CalmSender
  <2> QED
    BY <2>1, <2>2, <2>3, <2>4 DEF Stages
<1>7. /\ k.from \in Nat /\ k.to \in Nat /\ k.from <= k.to /\ k.to < Chunks[t] /\ i <= k.to
      /\ k.to < k.from + Window /\ (k.from = 0 => k.to = 0)
      /\ \A j \in 0 .. k.from - 1 : j \in accepted[t]
  <2>1. k.from \in Nat /\ k.to \in Nat
    BY <1>1 DEF IInv, SenderShape
  <2>2. k.from <= k.to /\ k.to < Chunks[t] /\ ~(i > k.to)
    BY <1>1, <1>5, <1>6 DEF IInv, NotYet
  <2>3. \A j \in Indices(t) : j < k.from => j \in accepted[t]
    BY <1>1, <1>6 DEF IInv, BehindAcked, AckedAccepted
  <2>4. i \in Nat
    BY <1>1, <1>4
  <2>5. \A j \in 0 .. k.from - 1 : j \in Indices(t) /\ j < k.from
    BY <1>4, <2>1, <2>2
  <2> QED
    BY <1>1, <1>6, <2>1, <2>2, <2>3, <2>4, <2>5 DEF CalmSender
<1>8. i # 0 => 0 \in accepted[t]
  BY <1>1, <1>4, <1>7
<1>9. accepted[t] # Indices(t) /\ accepted[t] \subseteq Indices(t)
  BY <1>1, <1>5 DEF IInv, ReceiverShape
<1>10. i # 0 => item.open
  BY <1>1, <1>8, <1>9 DEF CalmReceiver
<1>11. item.open => /\ item.parts = accepted[t] /\ item.next >= k.from /\ item.next \in Nat
                    /\ item.last = IF Chunks[t] - 1 \in accepted[t] THEN Chunks[t] - 1 ELSE -1
  <2> SUFFICES ASSUME item.open
               PROVE  /\ item.parts = accepted[t] /\ item.next >= k.from /\ item.next \in Nat
                      /\ item.last = IF Chunks[t] - 1 \in accepted[t] THEN Chunks[t] - 1 ELSE -1
    OBVIOUS
  <2>1. item.next = Next1(accepted[t], Chunks[t])
    BY <1>1 DEF CalmReceiver
  <2>2. accepted[t] \in SUBSET (0 .. Chunks[t] - 1) /\ k.from <= Chunks[t]
    BY <1>4, <1>7, <1>9
  <2>3. item.next >= k.from
    BY <1>4, <1>7, <2>1, <2>2, GapAhead
  <2>4. item.next \in Nat
    BY <1>1, <1>2
  <2> QED
    BY <1>1, <2>3, <2>4 DEF IInv, OpenHasAll
<1>12. ~item.open => item.parts = {} /\ item.last = -1
  BY <1>1 DEF IInv, OpenHasAll
<1>13. ~item.open => Cardinality(Open(assembly)) < MaxAssemblies
  <2> SUFFICES ASSUME ~item.open PROVE Cardinality(Open(assembly)) < MaxAssemblies
    OBVIOUS
  <2>1. Open(assembly) \in SUBSET (Started \ {t}) /\ t \in Started
    <3>1. ASSUME NEW u \in Open(assembly) PROVE u \in Started \ {t}
      <4>1. u \in Transfers /\ assembly[u].open /\ u # t
        BY <3>1 DEF Open
      <4>2. 0 \in accepted[u] /\ 0 \in Indices(u)
        BY <4>1, IndicesNat DEF IInv, OpenHasAll
      <4>3. chunk[u][0] # "none"
        BY <4>1, <4>2 DEF IInv, SentOnce
      <4>4. transfer[u].stage # "idle"
        BY <4>1, <4>2, <4>3 DEF IInv, NotYet
      <4> QED
        BY <4>1, <4>4 DEF Started
    <3>2. t \in Started
      BY <1>1, <1>6 DEF Started
    <3> QED
      BY <3>1, <3>2
  <2>2. IsFiniteSet(Started)
    <3>1. Started \in SUBSET Transfers
      BY DEF Started
    <3> QED
      BY <3>1, ChunkConstants, FS_Subset
  <2>3. IsFiniteSet(Started \ {t}) /\ Cardinality(Started \ {t}) = Cardinality(Started) - 1
    BY <2>1, <2>2, FS_RemoveElement
  <2>4. IsFiniteSet(Open(assembly)) /\ Cardinality(Open(assembly)) <= Cardinality(Started \ {t})
    BY <2>1, <2>3, FS_Subset
  <2>5. Cardinality(Started) \in Nat /\ Cardinality(Open(assembly)) \in Nat
    BY <2>2, <2>4, FS_CardinalityType
  <2> QED
    BY <1>4, <2>3, <2>4, <2>5 DEF Roomy
<1>14. ~Refused(item, i, i = Chunks[t] - 1, assembly)
  <2>1. ~(~item.open /\ (Cardinality(Open(assembly)) >= MaxAssemblies \/ i # 0))
    <3>1. ASSUME ~item.open PROVE ~(Cardinality(Open(assembly)) >= MaxAssemblies)
      <4>1. IsFiniteSet(Open(assembly))
        <5>1. Open(assembly) \in SUBSET Transfers
          BY DEF Open
        <5> QED
          BY <5>1, ChunkConstants, FS_Subset
      <4>2. Cardinality(Open(assembly)) \in Nat
        BY <4>1, FS_CardinalityType
      <4> QED
        BY <1>4, <1>13, <3>1, <4>2
    <3> QED
      BY <1>10, <3>1
  <2>2. ~(i >= item.next + Window)
    <3>1. CASE item.open
      BY <1>4, <1>1, <1>7, <1>11, <3>1
    <3>2. CASE ~item.open
      <4>1. i = 0 /\ item.next \in Nat /\ Window > 0
        BY <1>1, <1>2, <1>10, <3>2, ChunkConstants
      <4> QED
        BY <1>4, <4>1
    <3> QED
      BY <3>1, <3>2
  <2>3. i \notin item.parts
    BY <1>5, <1>11, <1>12
  <2>4. ~(item.last # -1 /\ i > item.last)
    BY <1>1, <1>4, <1>11, <1>12
  <2>5. ~(i = Chunks[t] - 1 /\ (item.last # -1 \/ \E j \in item.parts : j > i))
    <3> SUFFICES ASSUME i = Chunks[t] - 1
                 PROVE  item.last = -1 /\ \A j \in item.parts : ~(j > i)
      OBVIOUS
    <3>1. item.last = -1
      BY <1>5, <1>11, <1>12
    <3>2. ASSUME NEW j \in item.parts PROVE ~(j > i)
      <4>1. j \in Indices(t)
        BY <1>9, <1>11, <1>12, <3>2
      <4> QED
        BY <1>4, <4>1
    <3> QED
      BY <3>1, <3>2
  <2> HIDE DEF item, i, t
  <2> QED
    BY <2>1, <2>2, <2>3, <2>4, <2>5 DEF Refused
<1>15. Kept(full) <= Room
  <2> DEFINE S == {p \in Parts : p[2] \in full[p[1]].parts}
             T == {p \in Parts : p[1] \in Started}
  <2>1. \A u \in Transfers : full[u].parts # {} => u \in Started
    <3> TAKE u \in Transfers
    <3>1. CASE u = t
      BY <1>1, <1>6, <3>1 DEF Started
    <3>2. CASE u # t
      <4>1. full[u] = assembly[u]
        BY <1>2, <3>2
      <4>2. ASSUME assembly[u].parts # {} PROVE u \in Started
        <5>1. assembly[u].open /\ 0 \in accepted[u] /\ 0 \in Indices(u)
          BY <4>2, IndicesNat DEF IInv, OpenHasAll
        <5>2. chunk[u][0] # "none"
          BY <5>1 DEF IInv, SentOnce
        <5>3. transfer[u].stage # "idle"
          BY <5>1, <5>2 DEF IInv, NotYet
        <5> QED
          BY <5>3 DEF Started
      <4> QED
        BY <4>1, <4>2
    <3> QED
      BY <3>1, <3>2
  <2> HIDE DEF full
  <2>2. S \in SUBSET T
    BY <2>1, PartsPairs
  <2>3. IsFiniteSet(T)
    BY PartsFinite, FS_Subset
  <2>4. Kept(full) = Cardinality(S)
    BY DEF Kept
  <2>5. Cardinality(T) <= Room
    BY DEF Roomy
  <2> HIDE DEF S, T
  <2>6. Cardinality(S) <= Cardinality(T) /\ IsFiniteSet(S)
    BY <2>2, <2>3, FS_Subset
  <2>7. Cardinality(S) \in Nat /\ Cardinality(T) \in Nat
    BY <2>3, <2>6, FS_CardinalityType
  <2> QED
    BY <1>4, <2>4, <2>5, <2>6, <2>7
<1> QED
  BY <1>3, <1>14, <1>15

LEMMA ReceiveCalm ==
  ASSUME IInv, CalmSender, CalmReceiver, Roomy, NEW f \in net, Receive(f)
  PROVE  CalmSender' /\ CalmReceiver'
<1> DEFINE t == f.of
           i == f.index
           item == assembly[t]
           taken == Taken(item, t, i)
           full == [assembly EXCEPT ![t] = taken]
           A == accepted[t] \cup {i}
<1>1. /\ t \in Transfers /\ i \in Indices(t) /\ f.type = "chunk" /\ Sent(t, i)
      /\ UNCHANGED <<transfer, chunk, slots, active, generation, online>>
  BY DEF IInv, NetShape, Frames, Receive, Sent
<1>2. /\ Swept = assembly
      /\ ~(Refused(item, i, i = Chunks[t] - 1, assembly) \/ Kept(full) > Room)
  <2>1. /\ Swept = assembly /\ ~Refused(item, i, i = Chunks[t] - 1, assembly)
        /\ Kept(full) <= Room
    BY <1>1, NotRefused
  <2>2. Kept(full) \in Nat
    <3> DEFINE S == {p \in Parts : p[2] \in full[p[1]].parts}
    <3>1. IsFiniteSet(S)
      BY PartsFinite, FS_Subset
    <3>2. Kept(full) = Cardinality(S)
      BY DEF Kept
    <3> HIDE DEF S, full
    <3> QED
      BY <3>1, <3>2, FS_CardinalityType
  <2> HIDE DEF full, item, i, t
  <2> QED
    BY <2>1, <2>2, ChunkConstants
<1>3. /\ assembly' = IF Complete(taken) THEN [assembly EXCEPT ![t] = NoAssembly] ELSE full
      /\ accepted' = [accepted EXCEPT ![t] = @ \cup {i}]
      /\ \E w \in IF i = 0 THEN {1, Window} ELSE {1} :
            net' = (net \ {f}) \cup
                     {a \in {[type |-> "ack", of |-> t, index |-> i, window |-> w]} : online.receiver}
  BY <1>2 DEF Receive
<1>4. PICK w \in {1, Window} : 
        net' = (net \ {f}) \cup {[type |-> "ack", of |-> t, index |-> i, window |-> w]}
  BY <1>3 DEF CalmSender
<1>5. /\ assembly \in [Transfers -> [open : BOOLEAN, parts : SUBSET Nat, next : Nat,
                                    last : Nat \cup {-1}, old : BOOLEAN]]
      /\ accepted \in [Transfers -> SUBSET Nat]
      /\ i \notin accepted[t] /\ accepted[t] \subseteq Indices(t)
  BY <1>1 DEF IInv, ReceiverShape, SentOnce
<1>6. item.parts = accepted[t] /\ item.last = IF Chunks[t] - 1 \in accepted[t] THEN Chunks[t] - 1 ELSE -1
  <2>1. CASE item.open
    BY <1>1, <2>1 DEF IInv, OpenHasAll
  <2>2. CASE ~item.open
    <3>1. accepted[t] = {}
      BY <1>1, <1>5, <2>2 DEF CalmReceiver
    <3> QED
      BY <1>1, <2>2, <3>1 DEF IInv, OpenHasAll
  <2> QED
    BY <2>1, <2>2
<1>7. /\ taken.open /\ taken.next = Next1(A, Chunks[t]) /\ taken.old = FALSE
      /\ taken.last = IF i = Chunks[t] - 1 THEN i ELSE item.last
  BY <1>6 DEF Taken
<1>8. Complete(taken) => A = Indices(t)
  <2>1. Chunks[t] \in Nat \ {0} /\ Indices(t) = 0 .. Chunks[t] - 1
    BY <1>1, IndicesNat DEF Indices
  <2>2. A \in SUBSET (0 .. Chunks[t] - 1)
    BY <1>1, <1>5, <2>1
  <2>3. Next1(A, Chunks[t]) = Chunks[t] <=> A = 0 .. Chunks[t] - 1
    BY <2>1, <2>2, FirstMissing
  <2> HIDE DEF taken, item, i, t, A
  <2>4. taken.last \in {-1, Chunks[t] - 1}
    BY <1>6, <1>7
  <2> QED
    BY <1>7, <2>1, <2>3, <2>4 DEF Complete
<1> HIDE DEF taken, item
<1>9. ASSUME NEW u \in Transfers
      PROVE  /\ ~assembly'[u].old
             /\ accepted'[u] # {} /\ accepted'[u] # Indices(u) => assembly'[u].open
             /\ assembly'[u].open => assembly'[u].next = Next1(accepted'[u], Chunks[u])
  <2>1. CASE u = t
    <3>1. accepted'[t] = A
      BY <1>1, <1>3, <1>5
    <3>2. CASE Complete(taken)
      <4>1. assembly'[t] = NoAssembly
        BY <1>1, <1>3, <1>5, <3>2
      <4>2. A = Indices(t)
        BY <1>8, <3>2
      <4>3. ~NoAssembly.old /\ ~NoAssembly.open
        BY DEF NoAssembly
      <4> QED
        BY <2>1, <3>1, <4>1, <4>2, <4>3
    <3>3. CASE ~Complete(taken)
      <4>1. assembly'[t] = taken
        BY <1>1, <1>3, <1>5, <3>3
      <4> QED
        BY <1>7, <2>1, <3>1, <4>1
    <3> QED
      BY <3>2, <3>3
  <2>2. CASE u # t
    <3>1. assembly'[u] = assembly[u] /\ accepted'[u] = accepted[u]
      BY <1>1, <1>3, <1>5, <2>2
    <3> QED
      BY <3>1 DEF CalmReceiver
  <2> QED
    BY <2>1, <2>2
<1>10. CalmReceiver'
  BY <1>9 DEF CalmReceiver
<1>11. ASSUME NEW u \in Transfers, NEW j \in Indices(u), Sent(u, j) \/ Acking(u, j)
       PROVE  Sent(u, j)' \/ Acking(u, j)'
  <2> DEFINE a == [type |-> "ack", of |-> t, index |-> i, window |-> w]
  <2>1. a.type = "ack" /\ a.of = t /\ a.index = i /\ net' = (net \ {f}) \cup {a}
    BY <1>4
  <2> HIDE DEF a
  <2>2. CASE u = t /\ j = i
    BY <2>1, <2>2 DEF Acking
  <2>3. CASE ~(u = t /\ j = i)
    BY <1>11, <2>1, <2>3 DEF Sent, Acking
  <2> QED
    BY <2>2, <2>3
<1>12. CalmSender'
  BY <1>1, <1>11 DEF CalmSender
<1> QED
  BY <1>10, <1>12

LEMMA InitCalm == Init => Calm
<1> SUFFICES ASSUME Init PROVE Calm
  OBVIOUS
<1>1. CalmSender
  BY ChunkConstants DEF Init, CalmSender
<1>2. CalmReceiver
  BY NothingOpen DEF Init, CalmReceiver, NoAssembly
<1>3. faults \in Nat
  BY DEF Init
<1> QED
  BY <1>1, <1>2, <1>3 DEF Calm

LEMMA NextCalm == IInv /\ Calm /\ [Next]_vars => Calm'
<1> SUFFICES ASSUME IInv, Calm, [Next]_vars PROVE Calm'
  OBVIOUS
<1>0. faults \in Nat
  BY DEF Calm
<1>1. faults' \in Nat /\ (faults' = faults \/ faults' # 0)
  <2>1. \/ UNCHANGED faults
        \/ faults' = faults + 1
    <3>1. ASSUME NEW t \in Transfers, Start(t) \/ Continue(t) \/ GiveUp(t) PROVE UNCHANGED faults
      BY <3>1 DEF Start, Continue, GiveUp
    <3>2. ASSUME NEW t \in Transfers, Age(t) PROVE UNCHANGED faults \/ faults' = faults + 1
      BY <3>2 DEF Age
    <3>3. ASSUME NEW t \in Transfers, NEW i \in Indices(t), Send(t, i) \/ TimeOut(t, i)
          PROVE  UNCHANGED faults \/ faults' = faults + 1
      BY <3>3 DEF Send, TimeOut
    <3>4. ASSUME NEW f \in net, TakeAck(f) \/ Receive(f) \/ Lose(f)
          PROVE  UNCHANGED faults \/ faults' = faults + 1
      BY <3>4 DEF TakeAck, Receive, Lose
    <3>5. ASSUME CutSender \/ CutReceiver \/ Reconnect \/ UNCHANGED vars
          PROVE  UNCHANGED faults \/ faults' = faults + 1
      BY <3>5 DEF CutSender, CutReceiver, Reconnect, vars
    <3> QED
      BY <3>1, <3>2, <3>3, <3>4, <3>5 DEF Next
  <2> QED
    BY <1>0, <2>1
<1> SUFFICES ASSUME faults = 0, faults' = 0, Roomy PROVE CalmSender' /\ CalmReceiver'
  BY <1>1, RoomyBefore DEF Calm
<1>2. CalmSender /\ CalmReceiver
  BY DEF Calm
<1>3. ASSUME NEW t \in Transfers, Start(t) \/ Continue(t) PROVE CalmSender' /\ CalmReceiver'
  BY <1>2, <1>3, StartCalm, ContinueCalm
<1>4. ASSUME NEW t \in Transfers, GiveUp(t) PROVE FALSE
  <2>1. /\ transfer[t].stage = "sending"
        /\ \E i \in transfer[t].from .. transfer[t].to : chunk[t][i] = "failed"
    BY <1>4 DEF GiveUp
  <2>2. /\ transfer[t].to < Chunks[t] /\ transfer[t].from \in Nat /\ transfer[t].to \in Nat
        /\ Chunks[t] \in Nat /\ \A i : i \in Indices(t) <=> i \in Nat /\ i < Chunks[t]
    BY <2>1, IndicesNat DEF IInv, NotYet, SenderShape
  <2>3. \A i \in transfer[t].from .. transfer[t].to : i \in Indices(t)
    BY <2>2
  <2> QED
    BY <1>2, <2>1, <2>3 DEF CalmSender
<1>5. ASSUME NEW t \in Transfers, Age(t) PROVE FALSE
  BY <1>2, <1>5 DEF Age, CalmSender
<1>6. ASSUME NEW t \in Transfers, NEW i \in Indices(t), Send(t, i) PROVE CalmSender' /\ CalmReceiver'
  BY <1>2, <1>6, SendCalm
<1>7. ASSUME NEW t \in Transfers, NEW i \in Indices(t), TimeOut(t, i) PROVE FALSE
  <2>1. OnTheWay(t, i)
    BY <1>2, <1>7 DEF TimeOut, CalmSender, Sent, Acking, OnTheWay
  <2> QED
    BY <1>7, <2>1 DEF TimeOut
<1>8. ASSUME NEW f \in net, TakeAck(f) PROVE CalmSender' /\ CalmReceiver'
  BY <1>2, <1>8, TakeAckCalm
<1>9. ASSUME NEW f \in net, Receive(f) PROVE CalmSender' /\ CalmReceiver'
  BY <1>2, <1>9, ReceiveCalm
<1>10. ASSUME (\E f \in net : Lose(f)) \/ CutSender \/ CutReceiver PROVE FALSE
  BY <1>10 DEF Lose, CutSender, CutReceiver
<1>11. ASSUME Reconnect PROVE FALSE
  BY <1>2, <1>11 DEF Reconnect, CalmSender
<1>12. ASSUME UNCHANGED vars PROVE CalmSender' /\ CalmReceiver'
  BY <1>2, <1>12 DEF vars, CalmSender, CalmReceiver, Sent, Acking
<1> QED
  BY <1>3, <1>4, <1>5, <1>6, <1>7, <1>8, <1>9, <1>10, <1>11, <1>12 DEF Next

(* Chunks that overtake one another never make the receiver refuse one:     *)
(* while nothing is lost, cut or late and the receiver has room for what    *)
(* was begun, no transfer fails.                                            *)
THEOREM Faultless == Spec => []NoFailureWithoutFault
<1>1. Calm => NoFailureWithoutFault
  BY DEF Calm, Roomy, CalmSender, NoFailureWithoutFault
<1> QED
  BY Invariance, InitCalm, NextCalm, <1>1, PTL DEF Spec

==============================================================================
