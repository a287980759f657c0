---------------------------- MODULE BridgeProof -----------------------------
(***************************************************************************)
(* Proofs about Bridge, for every set of devices and calls, every limit    *)
(* and every number of mishaps.  The types of its state come first, and    *)
(* from them what the bridge promises: calls are carried out once, a       *)
(* device has one connection at the relay, the relay keeps what is not     *)
(* acknowledged, and an asker who alone lost connections recovers.         *)
(***************************************************************************)
EXTENDS Bridge, TLAPS, SequenceTheorems, FiniteSetTheorems

-----------------------------------------------------------------------------
(* Sequences.                                                               *)

LEMMA SeqOfFunction ==
  ASSUME NEW S, NEW n \in Nat, NEW f \in [1..n -> S]
  PROVE  f \in Seq(S)
  BY SeqDef

(* What keeps the length of a sequence and the type of its elements.        *)
LEMMA SameShape ==
  ASSUME NEW S, NEW T, NEW s \in Seq(S), NEW f,
         f \in [DOMAIN s -> T]
  PROVE  f \in Seq(T) /\ DOMAIN f = DOMAIN s
  BY SeqOfFunction, LenProperties

LEMMA Singleton == ASSUME NEW S, NEW e \in S PROVE <<e>> \in Seq(S)
  OBVIOUS

LEMMA TailTyped ==
  ASSUME NEW S, NEW s \in Seq(S), s # <<>>
  PROVE  Head(s) \in S /\ Tail(s) \in Seq(S)
  BY HeadTailProperties

LEMMA PartTyped ==
  ASSUME NEW S, NEW s \in Seq(S), NEW m \in 1..(Len(s)+1), NEW n \in 0..Len(s)
  PROVE  /\ SubSeq(s, m, n) \in Seq(S)
         /\ Len(SubSeq(s, m, n)) = IF m <= n THEN n - m + 1 ELSE 0
         /\ \A i \in 1..(n - m + 1) : SubSeq(s, m, n)[i] = s[m + i - 1]
  <1>1. Len(s) \in Nat
    BY LenProperties
  <1>2. \A i \in m..n : s[i] \in S
    BY <1>1, ElementOfSeq
  <1>3. m \in Int /\ n \in Int
    BY <1>1
  <1> QED BY <1>2, <1>3, SubSeqProperties

LEMMA RemoveAtTyped ==
  ASSUME NEW S, NEW s \in Seq(S), NEW i \in DOMAIN s
  PROVE  /\ RemoveAt(s, i) \in Seq(S)
         /\ \A j \in DOMAIN s \ {i} : \E x \in DOMAIN RemoveAt(s, i) : RemoveAt(s, i)[x] = s[j]
  <1> DEFINE before == SubSeq(s, 1, i - 1)
             after  == SubSeq(s, i + 1, Len(s))
  <1>1. Len(s) \in Nat /\ i \in 1..Len(s) /\ DOMAIN s = 1..Len(s)
    BY LenProperties
  <1>2. /\ before \in Seq(S) /\ Len(before) = i - 1
        /\ \A x \in 1..(i - 1) : before[x] = s[x]
    <2>1. 1 \in 1..(Len(s)+1) /\ i - 1 \in 0..Len(s)
      BY <1>1
    <2> QED BY <2>1, <1>1, PartTyped
  <1>3. /\ after \in Seq(S) /\ Len(after) = Len(s) - i
        /\ \A x \in 1..(Len(s) - i) : after[x] = s[i + x]
    <2>1. i + 1 \in 1..(Len(s)+1) /\ Len(s) \in 0..Len(s)
      BY <1>1
    <2>2. Len(s) - (i + 1) + 1 = Len(s) - i
      BY <1>1
    <2> QED BY <2>1, <2>2, <1>1, PartTyped
  <1>4. RemoveAt(s, i) = before \o after
    BY DEF RemoveAt
  <1> HIDE DEF before, after
  <1>5. /\ before \o after \in Seq(S)
        /\ Len(before \o after) = Len(s) - 1
        /\ \A x \in 1..(Len(s) - 1) :
             (before \o after)[x] = IF x <= i - 1 THEN before[x] ELSE after[x - (i - 1)]
    <2>1. /\ before \o after \in Seq(S)
          /\ Len(before \o after) = Len(before) + Len(after)
          /\ \A x \in 1..(Len(before) + Len(after)) :
               (before \o after)[x] = IF x <= Len(before) THEN before[x] ELSE after[x - Len(before)]
      BY <1>2, <1>3, ConcatProperties
    <2>2. Len(before) = i - 1 /\ Len(before) + Len(after) = Len(s) - 1
      BY <1>1, <1>2, <1>3
    <2> QED BY <2>1, <2>2
  <1>6. DOMAIN (before \o after) = 1..(Len(s) - 1)
    BY <1>5, LenProperties
  <1>7. ASSUME NEW j \in DOMAIN s \ {i}
        PROVE  \E x \in DOMAIN (before \o after) : (before \o after)[x] = s[j]
    <2>1. CASE j < i
      <3>1. j \in 1..(Len(s) - 1) /\ j \in 1..(i - 1)
        BY <2>1, <1>1
      <3>2. (before \o after)[j] = s[j]
        BY <3>1, <1>5, <1>2
      <3> QED BY <3>1, <3>2, <1>6
    <2>2. CASE j > i
      <3>1. j - 1 \in 1..(Len(s) - 1) /\ ~(j - 1 <= i - 1) /\ (j - 1) - (i - 1) = j - i
            /\ j - i \in 1..(Len(s) - i) /\ i + (j - i) = j
        BY <2>2, <1>1
      <3>2. (before \o after)[j - 1] = s[j]
        BY <3>1, <1>5, <1>3
      <3> QED BY <3>1, <3>2, <1>6
    <2> QED BY <2>1, <2>2, <1>1
  <1> QED BY <1>4, <1>5, <1>7

(* Taking a message out of a store leaves the others there.                 *)
LEMMA WithoutTyped ==
  ASSUME NEW S, NEW s \in Seq(S), NEW m
  PROVE  /\ Without(s, m) \in Seq(S)
         /\ \A x \in ToSet(s) : x # m => x \in ToSet(Without(s, m))
  <1>1. DOMAIN s = 1..Len(s)
    BY LenProperties
  <1>2. CASE ~Contains(s, m)
    BY <1>2 DEF Without
  <1>3. CASE Contains(s, m)
    <2> DEFINE i == CHOOSE j \in DOMAIN s : s[j] = m
    <2>1. i \in DOMAIN s /\ s[i] = m
      BY <1>1, <1>3 DEF Contains
    <2>2. Without(s, m) = RemoveAt(s, i)
      BY <1>3 DEF Without
    <2> HIDE DEF i
    <2>3. /\ RemoveAt(s, i) \in Seq(S)
          /\ \A j \in DOMAIN s \ {i} : \E x \in DOMAIN RemoveAt(s, i) : RemoveAt(s, i)[x] = s[j]
      BY <2>1, RemoveAtTyped
    <2>4. ASSUME NEW x \in ToSet(s), x # m PROVE x \in ToSet(RemoveAt(s, i))
      <3>1. PICK j \in DOMAIN s : s[j] = x
        BY DEF ToSet
      <3>2. j \in DOMAIN s \ {i}
        BY <3>1, <2>1, <2>4
      <3> QED BY <3>1, <3>2, <2>3 DEF ToSet
    <2> QED BY <2>2, <2>3, <2>4
  <1> QED BY <1>2, <1>3

LEMMA ConcatSets ==
  ASSUME NEW S, NEW s \in Seq(S), NEW t \in Seq(S)
  PROVE  s \o t \in Seq(S) /\ ToSet(s \o t) = ToSet(s) \cup ToSet(t)
  <1>1. /\ s \o t \in Seq(S) /\ Len(s \o t) = Len(s) + Len(t)
        /\ \A i \in 1..(Len(s) + Len(t)) : (s \o t)[i] = IF i <= Len(s) THEN s[i] ELSE t[i - Len(s)]
    BY ConcatProperties
  <1>2. /\ DOMAIN s = 1..Len(s) /\ Len(s) \in Nat
        /\ DOMAIN t = 1..Len(t) /\ Len(t) \in Nat
        /\ DOMAIN (s \o t) = 1..(Len(s) + Len(t))
    BY <1>1, LenProperties
  <1>3. ASSUME NEW x \in ToSet(s \o t) PROVE x \in ToSet(s) \cup ToSet(t)
    <2>1. PICK i \in 1..(Len(s) + Len(t)) : (s \o t)[i] = x
      BY <1>2 DEF ToSet
    <2>2. CASE i <= Len(s)
      BY <2>1, <2>2, <1>1, <1>2 DEF ToSet
    <2>3. CASE ~(i <= Len(s))
      <3>1. i - Len(s) \in DOMAIN t /\ t[i - Len(s)] = x
        BY <2>1, <2>3, <1>1, <1>2
      <3> QED BY <3>1 DEF ToSet
    <2> QED BY <2>2, <2>3
  <1>4. ASSUME NEW x \in ToSet(s) PROVE x \in ToSet(s \o t)
    <2>1. PICK i \in 1..Len(s) : s[i] = x
      BY <1>2 DEF ToSet
    <2>2. i \in DOMAIN (s \o t) /\ (s \o t)[i] = x
      BY <2>1, <1>1, <1>2
    <2> QED BY <2>2 DEF ToSet
  <1>5. ASSUME NEW x \in ToSet(t) PROVE x \in ToSet(s \o t)
    <2>1. PICK i \in 1..Len(t) : t[i] = x
      BY <1>2 DEF ToSet
    <2>2. i + Len(s) \in DOMAIN (s \o t) /\ (s \o t)[i + Len(s)] = x
      BY <2>1, <1>1, <1>2
    <2> QED BY <2>2 DEF ToSet
  <1> QED BY <1>1, <1>3, <1>4, <1>5

-----------------------------------------------------------------------------
(* Connections, with what may have been sent and what may be acknowledged.  *)

LEMMA FramesGrow ==
  ASSUME NEW T, NEW U, T \subseteq U, NEW A, NEW B, A \subseteq B
  PROVE  /\ Seq(OutFrames(T, A)) \subseteq Seq(OutFrames(U, B))
         /\ Seq(InFrames(T)) \subseteq Seq(InFrames(U))
  <1>1. OutFrames(T, A) \subseteq OutFrames(U, B) /\ InFrames(T) \subseteq InFrames(U)
    BY DEF OutFrames, InFrames
  <1> QED BY <1>1, SeqMonotonic

LEMMA Fields ==
  ASSUME NEW T, NEW A, NEW k \in Connections(T, A)
  PROVE  /\ k.device \in Devices
         /\ k.open \in BOOLEAN /\ k.ready \in BOOLEAN /\ k.cut \in BOOLEAN
         /\ k.relay \in {"opening", "ready", "closed", "gone"}
         /\ k.out \in Seq(OutFrames(T, A[k.device]))
         /\ k.in \in Seq(InFrames(T))
         /\ k.open \/ k.out = <<>>
         /\ k = [device |-> k.device, open |-> k.open, ready |-> k.ready, cut |-> k.cut,
                 relay |-> k.relay, out |-> k.out, in |-> k.in]
  BY DEF Connections

LEMMA FieldsTyped ==
  ASSUME NEW T, NEW A, NEW k \in Connections(T, A)
  PROVE  k \in [device : Devices, open : BOOLEAN, ready : BOOLEAN, cut : BOOLEAN,
                relay : {"opening", "ready", "closed", "gone"},
                out : Seq(OutFrames(T, T)), in : Seq(InFrames(T))]
  BY DEF Connections

(* What happens to a connection leaves it one.                              *)
LEMMA Updated ==
  ASSUME NEW T, NEW A, \A d \in Devices : A[d] \subseteq T,
         NEW k \in Connections(T, A), NEW out, NEW in \in Seq(InFrames(T)),
         out \in Seq(OutFrames(T, A[k.device])), k.open \/ out = <<>>,
         NEW relay \in {"opening", "ready", "closed", "gone"}
  PROVE  /\ [k EXCEPT !.out = out] \in Connections(T, A)
         /\ [k EXCEPT !.in = in] \in Connections(T, A)
         /\ [k EXCEPT !.in = in, !.ready = TRUE] \in Connections(T, A)
         /\ [k EXCEPT !.relay = relay, !.out = <<>>] \in Connections(T, A)
         /\ [k EXCEPT !.relay = relay, !.out = out, !.in = in] \in Connections(T, A)
         /\ [k EXCEPT !.cut = TRUE, !.out = <<>>, !.in = <<>>] \in Connections(T, A)
         /\ [k EXCEPT !.cut = TRUE, !.relay = relay, !.out = <<>>, !.in = <<>>] \in Connections(T, A)
         /\ [k EXCEPT !.open = FALSE, !.ready = FALSE, !.cut = TRUE, !.out = <<>>, !.in = <<>>]
              \in Connections(T, A)
  <1> DEFINE R == [device : Devices, open : BOOLEAN, ready : BOOLEAN, cut : BOOLEAN,
                   relay : {"opening", "ready", "closed", "gone"},
                   out : Seq(OutFrames(T, T)), in : Seq(InFrames(T))]
  <1>1. k \in R /\ k.device \in Devices /\ (k.open \/ k.out = <<>>)
        /\ k.out \in Seq(OutFrames(T, A[k.device]))
    BY FieldsTyped, Fields
  <1>2. out \in Seq(OutFrames(T, T))
    BY <1>1, FramesGrow
  <1>3. <<>> \in Seq(OutFrames(T, T)) /\ <<>> \in Seq(InFrames(T))
        /\ <<>> \in Seq(OutFrames(T, A[k.device]))
    BY EmptySeq
  <1>4. ASSUME NEW n \in R, n.device = k.device, n.out \in Seq(OutFrames(T, A[k.device])),
               n.open \/ n.out = <<>>
        PROVE  n \in Connections(T, A)
    BY <1>4 DEF Connections
  <1>5. [k EXCEPT !.out = out] \in Connections(T, A)
    <2> DEFINE n == [k EXCEPT !.out = out]
    <2>1. n \in R /\ n.device = k.device /\ n.out = out /\ n.open = k.open
      BY <1>1, <1>2
    <2> QED BY <2>1, <1>4
  <1>6. [k EXCEPT !.in = in] \in Connections(T, A)
    <2> DEFINE n == [k EXCEPT !.in = in]
    <2>1. n \in R /\ n.device = k.device /\ n.out = k.out /\ n.open = k.open
      BY <1>1
    <2> QED BY <2>1, <1>1, <1>4
  <1>7. [k EXCEPT !.in = in, !.ready = TRUE] \in Connections(T, A)
    <2> DEFINE n == [k EXCEPT !.in = in, !.ready = TRUE]
    <2>1. n \in R /\ n.device = k.device /\ n.out = k.out /\ n.open = k.open
      BY <1>1
    <2> QED BY <2>1, <1>1, <1>4
  <1>8. [k EXCEPT !.relay = relay, !.out = <<>>] \in Connections(T, A)
    <2> DEFINE n == [k EXCEPT !.relay = relay, !.out = <<>>]
    <2>1. n \in R /\ n.device = k.device /\ n.out = <<>>
      BY <1>1, <1>3
    <2> QED BY <2>1, <1>3, <1>4
  <1>9. [k EXCEPT !.relay = relay, !.out = out, !.in = in] \in Connections(T, A)
    <2> DEFINE n == [k EXCEPT !.relay = relay, !.out = out, !.in = in]
    <2>1. n \in R /\ n.device = k.device /\ n.out = out /\ n.open = k.open
      BY <1>1, <1>2
    <2> QED BY <2>1, <1>4
  <1>10. [k EXCEPT !.cut = TRUE, !.out = <<>>, !.in = <<>>] \in Connections(T, A)
    <2> DEFINE n == [k EXCEPT !.cut = TRUE, !.out = <<>>, !.in = <<>>]
    <2>1. n \in R /\ n.device = k.device /\ n.out = <<>>
      BY <1>1, <1>3
    <2> QED BY <2>1, <1>3, <1>4
  <1>11. [k EXCEPT !.cut = TRUE, !.relay = relay, !.out = <<>>, !.in = <<>>] \in Connections(T, A)
    <2> DEFINE n == [k EXCEPT !.cut = TRUE, !.relay = relay, !.out = <<>>, !.in = <<>>]
    <2>1. n \in R /\ n.device = k.device /\ n.out = <<>>
      BY <1>1, <1>3
    <2> QED BY <2>1, <1>3, <1>4
  <1>12. [k EXCEPT !.open = FALSE, !.ready = FALSE, !.cut = TRUE, !.out = <<>>, !.in = <<>>]
           \in Connections(T, A)
    <2> DEFINE n == [k EXCEPT !.open = FALSE, !.ready = FALSE, !.cut = TRUE, !.out = <<>>, !.in = <<>>]
    <2>1. n \in R /\ n.device = k.device /\ n.out = <<>>
      BY <1>1, <1>3
    <2> QED BY <2>1, <1>3, <1>4
  <1> QED BY <1>5, <1>6, <1>7, <1>8, <1>9, <1>10, <1>11, <1>12

LEMMA ConnectionsGrow ==
  ASSUME NEW T, NEW U, T \subseteq U, NEW A, NEW B,
         \A d \in Devices : A[d] \subseteq B[d]
  PROVE  /\ Connections(T, A) \subseteq Connections(U, B)
         /\ Seq(Connections(T, A)) \subseteq Seq(Connections(U, B))
  <1>1. ASSUME NEW k \in Connections(T, A) PROVE k \in Connections(U, B)
    <2>1. k.device \in Devices /\ A[k.device] \subseteq B[k.device]
      BY Fields
    <2>2. k.out \in Seq(OutFrames(U, B[k.device]))
      <3>1. k.out \in Seq(OutFrames(T, A[k.device]))
        BY Fields
      <3> QED BY <2>1, <3>1, FramesGrow
    <2>3. Seq(OutFrames(T, T)) \subseteq Seq(OutFrames(U, U)) /\ Seq(InFrames(T)) \subseteq Seq(InFrames(U))
      BY FramesGrow
    <2> QED BY <2>2, <2>3 DEF Connections
  <1>2. Connections(T, A) \subseteq Connections(U, B)
    BY <1>1
  <1> QED BY <1>2, SeqMonotonic

(* One connection put in the place of another.                              *)
LEMMA Replaced ==
  ASSUME NEW S, NEW cs \in Seq(S), NEW c \in DOMAIN cs, NEW k \in S
  PROVE  [cs EXCEPT ![c] = k] \in Seq(S) /\ DOMAIN [cs EXCEPT ![c] = k] = DOMAIN cs
  BY SameShape, LenProperties

LEMMA Each ==
  ASSUME NEW S, NEW cs \in Seq(S), NEW c \in DOMAIN cs
  PROVE  cs[c] \in S
  BY ElementOfSeq, LenProperties

(* Frames sent over the connection of a device.                             *)
LEMMA SentTyped ==
  ASSUME NEW T, NEW A, \A x \in Devices : A[x] \subseteq T,
         NEW cs \in Seq(Connections(T, A)), NEW d \in Devices,
         NEW frames \in Seq(OutFrames(T, A[d]))
  PROVE  Sent(cs, d, frames) \in Seq(Connections(T, A))
  <1>1. ASSUME NEW c \in DOMAIN cs
        PROVE  (IF cs[c].device = d /\ cs[c].open /\ cs[c].ready /\ ~cs[c].cut
                THEN [cs[c] EXCEPT !.out = cs[c].out \o frames] ELSE cs[c]) \in Connections(T, A)
    <2>1. cs[c] \in Connections(T, A)
      BY Each
    <2>2. CASE cs[c].device = d /\ cs[c].open
      <3>1. cs[c].out \in Seq(OutFrames(T, A[d])) /\ cs[c].in \in Seq(InFrames(T))
        BY <2>1, <2>2, Fields
      <3>2. cs[c].out \o frames \in Seq(OutFrames(T, A[cs[c].device]))
        BY <3>1, <2>2, ConcatProperties
      <3>3. [cs[c] EXCEPT !.out = cs[c].out \o frames] \in Connections(T, A)
        BY <2>1, <2>2, <3>1, <3>2, Updated
      <3> QED BY <2>1, <3>3
    <2> QED BY <2>1, <2>2
  <1>2. Sent(cs, d, frames) \in [DOMAIN cs -> Connections(T, A)]
    BY <1>1 DEF Sent
  <1> QED BY <1>2, SameShape

(* What the relay sends down a connection.                                  *)
LEMMA DeliveredTyped ==
  ASSUME NEW T, NEW A, \A x \in Devices : A[x] \subseteq T,
         NEW cs \in Seq(Connections(T, A)), NEW c \in DOMAIN cs, NEW ms \in Seq(T)
  PROVE  Delivered(cs, c, ms) \in Seq(Connections(T, A)) /\ DOMAIN Delivered(cs, c, ms) = DOMAIN cs
  <1> DEFINE frames == [i \in DOMAIN ms |-> [type |-> "delivery", message |-> ms[i]]]
  <1>1. frames \in Seq(InFrames(T))
    <2>1. \A i \in DOMAIN ms : [type |-> "delivery", message |-> ms[i]] \in InFrames(T)
      BY Each DEF InFrames
    <2>2. frames \in [DOMAIN ms -> InFrames(T)]
      BY <2>1
    <2> QED BY <2>2, SameShape
  <1> HIDE DEF frames
  <1>2. cs[c] \in Connections(T, A) /\ cs[c].in \in Seq(InFrames(T))
        /\ cs[c].out \in Seq(OutFrames(T, A[cs[c].device])) /\ (cs[c].open \/ cs[c].out = <<>>)
    BY Each, Fields
  <1>3. cs[c].in \o frames \in Seq(InFrames(T))
    BY <1>1, <1>2, ConcatProperties
  <1>4. [cs[c] EXCEPT !.in = cs[c].in \o frames] \in Connections(T, A)
    BY <1>2, <1>3, Updated
  <1>5. CASE cs[c].cut
    BY <1>5 DEF Delivered
  <1>6. CASE ~cs[c].cut
    <2>1. Delivered(cs, c, ms) = [cs EXCEPT ![c] = [cs[c] EXCEPT !.in = cs[c].in \o frames]]
      BY <1>6 DEF Delivered, frames
    <2> QED BY <2>1, <1>4, Replaced
  <1> QED BY <1>5, <1>6

LEMMA ClosedTyped ==
  ASSUME NEW T, NEW A, \A x \in Devices : A[x] \subseteq T,
         NEW cs \in Seq(Connections(T, A)), NEW which
  PROVE  ClosedByRelay(cs, which) \in Seq(Connections(T, A))
  <1>1. ASSUME NEW c \in DOMAIN cs
        PROVE  (IF c \in which THEN [cs[c] EXCEPT !.relay = "closed", !.out = <<>>] ELSE cs[c])
                 \in Connections(T, A)
    <2>1. cs[c] \in Connections(T, A) /\ cs[c].in \in Seq(InFrames(T))
          /\ cs[c].out \in Seq(OutFrames(T, A[cs[c].device])) /\ (cs[c].open \/ cs[c].out = <<>>)
      BY Each, Fields
    <2>2. [cs[c] EXCEPT !.relay = "closed", !.out = <<>>] \in Connections(T, A)
      BY <2>1, Updated
    <2> QED BY <2>1, <2>2
  <1>2. ClosedByRelay(cs, which) \in [DOMAIN cs -> Connections(T, A)]
    BY <1>1 DEF ClosedByRelay
  <1> QED BY <1>2, SameShape

-----------------------------------------------------------------------------
(* Messages.                                                                *)

Wire == Seq(Connections(TrueMessages, Has))
Stores == [Devices -> Seq(TrueMessages)]
Counts == [mishaps : Nat, kinds : SUBSET Kinds, tries : [Calls -> Nat],
           sent : [Calls -> [request : Nat, response : Nat]]]

LEMMA HasTyped ==
  ASSUME TypeOK
  PROVE  Has \in [Devices -> SUBSET TrueMessages] /\ \A d \in Devices : Has[d] \subseteq TrueMessages
  BY DEF TypeOK, Has

LEMMA SetToSeqTyped ==
  ASSUME NEW S, IsFiniteSet(S)
  PROVE  SetToSeq(S) \in Seq(S)
  <1>1. Cardinality(S) \in Nat /\ ExistsBijection(1..Cardinality(S), S)
    BY FS_CardinalityType
  <1>2. \E f \in [1..Cardinality(S) -> S] : IsInjective(f)
    BY <1>1 DEF ExistsBijection, Bijection, Injection
  <1>3. SetToSeq(S) \in [1..Cardinality(S) -> S]
    BY <1>2 DEF SetToSeq
  <1> QED BY <1>1, <1>3, SeqOfFunction

NewRequest(m, qs) ==
  /\ m.kind = "request" /\ m.call \in qs /\ m.to = To[m.call]
  /\ m.n = count.sent[m.call].request + 1

LEMMA RequestsTyped ==
  ASSUME TypeOK, NEW qs \in SUBSET Calls, NEW T,
         \A m \in Messages : NewRequest(m, qs) => m \in T
  PROVE  Requests(qs) \in Seq(T)
  <1> DEFINE new(q) == Message("request", q, count.sent[q].request + 1, "nothing")
             ms == {new(q) : q \in qs}
             f == [q \in qs |-> new(q)]
  <1>1. IsFiniteSet(qs)
    BY BridgeConstants, FS_Subset
  <1>2. f \in Surjection(qs, ms)
    BY DEF Surjection
  <1>3. IsFiniteSet(ms)
    <2> HIDE DEF f, ms
    <2> QED BY <1>1, <1>2, FS_Surjection
  <1>4. ms \subseteq T
    <2> SUFFICES ASSUME NEW q \in qs PROVE new(q) \in T
      OBVIOUS
    <2>1. count.sent[q].request + 1 \in Nat /\ To[q] \in Devices
      BY BridgeConstants DEF TypeOK
    <2>2. new(q) \in Messages /\ NewRequest(new(q), qs)
      BY <2>1 DEF Message, Messages, NewRequest
    <2> QED BY <2>2
  <1>5. SetToSeq(ms) \in Seq(ms)
    <2> HIDE DEF ms
    <2> QED BY <1>3, SetToSeqTyped
  <1> QED BY <1>4, <1>5, SeqMonotonic DEF Requests

NewAnswer(m, q, result, n) ==
  /\ m.kind = "response" /\ m.call = q /\ m.result = result /\ m.to = From[q]
  /\ m.n <= count.sent[q].response + n

LEMMA ResponsesTyped ==
  ASSUME TypeOK, NEW q \in Calls, NEW result \in Ends, NEW n \in Nat, NEW T,
         \A m \in Messages : NewAnswer(m, q, result, n) => m \in T
  PROVE  Responses(q, result, n) \in Seq(T)
  <1>1. ASSUME NEW i \in 1..n PROVE Message("response", q, count.sent[q].response + i, result) \in T
    <2>1. count.sent[q].response + i \in Nat /\ count.sent[q].response \in Nat /\ From[q] \in Devices
          /\ count.sent[q].response + i <= count.sent[q].response + n
      BY BridgeConstants DEF TypeOK
    <2>2. Message("response", q, count.sent[q].response + i, result) \in Messages
      BY <2>1 DEF Message, Messages
    <2> QED BY <2>1, <2>2 DEF Message, NewAnswer
  <1>2. Responses(q, result, n) \in [1..n -> T]
    BY <1>1 DEF Responses
  <1> QED BY <1>2, SeqOfFunction

LEMMA SendFramesTyped ==
  ASSUME NEW T, NEW A, NEW ms \in Seq(T)
  PROVE  SendFrames(ms) \in Seq(OutFrames(T, A))
  <1>1. ASSUME NEW i \in DOMAIN ms PROVE SendFrame(ms[i]) \in OutFrames(T, A)
    <2>1. ms[i] \in T
      BY Each
    <2> QED BY <2>1 DEF SendFrame, OutFrames
  <1>2. SendFrames(ms) \in [DOMAIN ms -> OutFrames(T, A)]
    BY <1>1 DEF SendFrames
  <1> QED BY <1>2, SameShape

-----------------------------------------------------------------------------
(* Type correctness, of the network and the relay: they change neither what *)
(* devices have received nor the journal.                                   *)

PeersUntouched ==
  UNCHANGED <<pending, arrived, seen, jobs, journal, told>> /\ count'.sent = count.sent

LEMMA OutsideTyped ==
  ASSUME TypeOK, PeersUntouched,
         conn' \in Wire, held' \in Stores, inbox' \in Stores, count' \in Counts
  PROVE  TypeOK'
  <1>1. TrueMessages' = TrueMessages
    BY DEF PeersUntouched, TrueMessages, Numbered
  <1>2. Has' = Has
    BY DEF PeersUntouched, Has
  <1>3. Connections(TrueMessages, Has)' = Connections(TrueMessages, Has)
    BY <1>1, <1>2 DEF Connections, OutFrames, InFrames
  <1> QED BY <1>1, <1>3 DEF TypeOK, PeersUntouched, Wire, Stores, Counts

LEMMA HappensTyped ==
  ASSUME TypeOK, NEW kind \in Kinds, Happens(kind)
  PROVE  count' \in Counts /\ count'.sent = count.sent
  <1>1. count \in Counts
    BY DEF TypeOK, Counts
  <1>2. count.mishaps + 1 \in Nat /\ count.kinds \cup {kind} \in SUBSET Kinds
    BY <1>1 DEF Counts
  <1> QED BY <1>1, <1>2 DEF Happens, Counts

LEMMA ConnTyped ==
  ASSUME TypeOK, NEW c \in DOMAIN conn
  PROVE  /\ conn \in Wire
         /\ conn[c] \in Connections(TrueMessages, Has)
         /\ conn[c].device \in Devices
         /\ conn[c].out \in Seq(OutFrames(TrueMessages, Has[conn[c].device]))
         /\ conn[c].in \in Seq(InFrames(TrueMessages))
         /\ conn[c].open \/ conn[c].out = <<>>
  BY Each, Fields DEF TypeOK, Wire

LEMMA StoredTyped ==
  ASSUME TypeOK, NEW d \in Devices
  PROVE  /\ Stored(d) \in Seq(TrueMessages)
         /\ ToSet(Stored(d)) = ToSet(inbox[d]) \cup ToSet(held[d])
         /\ inbox[d] \in Seq(TrueMessages)
         /\ held[d] \in Seq(TrueMessages)
  BY ConcatSets DEF TypeOK, Stored

LEMMA PersistedTyped ==
  ASSUME TypeOK, NEW d \in Devices, Persisted(d)
  PROVE  held' \in Stores /\ inbox' \in Stores
  <1>1. <<>> \in Seq(TrueMessages)
    BY EmptySeq
  <1> QED BY <1>1, StoredTyped DEF TypeOK, Persisted, Stores

LEMMA ConnectTyped ==
  ASSUME TypeOK, NEW d \in Devices, Connect(d)
  PROVE  TypeOK'
  <1> DEFINE k == [device |-> d, open |-> TRUE, ready |-> FALSE, relay |-> "opening",
                   cut |-> FALSE, out |-> <<[type |-> "auth"]>>, in |-> <<>>]
  <1>1. \A x, y : <<[type |-> "auth"]>> \in Seq(OutFrames(x, y))
    <2> TAKE x, y
    <2>1. [type |-> "auth"] \in OutFrames(x, y)
      BY DEF OutFrames
    <2> QED BY <2>1, Singleton
  <1>2. <<>> \in Seq(InFrames(TrueMessages))
    BY EmptySeq
  <1>3. k \in Connections(TrueMessages, Has)
    BY <1>1, <1>2 DEF Connections
  <1> HIDE DEF k
  <1>4. Append(conn, k) \in Wire
    BY <1>3, AppendProperties DEF TypeOK, Wire
  <1>5. conn' = Append(conn, k)
    BY DEF Connect, k
  <1> QED BY <1>4, <1>5, OutsideTyped DEF Connect, TypeOK, PeersUntouched, Stores, Counts

LEMMA CutTyped ==
  ASSUME TypeOK, NEW c \in DOMAIN conn, Cut(c)
  PROVE  TypeOK'
  <1>1. [conn[c] EXCEPT !.cut = TRUE, !.out = <<>>, !.in = <<>>] \in Connections(TrueMessages, Has)
    BY ConnTyped, HasTyped, Updated
  <1>2. conn' = [conn EXCEPT ![c] = [conn[c] EXCEPT !.cut = TRUE, !.out = <<>>, !.in = <<>>]]
    BY DEF Cut
  <1>3. conn' \in Wire
    BY <1>1, <1>2, ConnTyped, Replaced DEF Wire
  <1>4. count' \in Counts /\ count'.sent = count.sent
    BY HappensTyped DEF Cut, Kinds
  <1> QED BY <1>3, <1>4, OutsideTyped DEF Cut, TypeOK, PeersUntouched, Stores

LEMMA PeerClosesTyped ==
  ASSUME TypeOK, NEW c \in DOMAIN conn, PeerCloses(c)
  PROVE  TypeOK'
  <1> DEFINE k == [conn[c] EXCEPT !.open = FALSE, !.ready = FALSE, !.cut = TRUE, !.out = <<>>, !.in = <<>>]
  <1>1. k \in Connections(TrueMessages, Has)
    BY ConnTyped, HasTyped, Updated
  <1>2. conn' = [conn EXCEPT ![c] = k]
    BY DEF PeerCloses
  <1> HIDE DEF k
  <1>3. conn' \in Wire
    BY <1>1, <1>2, ConnTyped, Replaced DEF Wire
  <1> QED BY <1>3, OutsideTyped DEF PeerCloses, TypeOK, PeersUntouched, Stores, Counts

LEMMA RelayClosesTyped ==
  ASSUME TypeOK, NEW c \in DOMAIN conn, RelayCloses(c)
  PROVE  TypeOK'
  <1> DEFINE k == [conn[c] EXCEPT !.relay = "gone", !.out = <<>>]
  <1>1. k \in Connections(TrueMessages, Has)
    BY ConnTyped, HasTyped, Updated
  <1>2. conn' = [conn EXCEPT ![c] = k]
    BY DEF RelayCloses
  <1> HIDE DEF k
  <1>3. conn' \in Wire
    BY <1>1, <1>2, ConnTyped, Replaced DEF Wire
  <1>4. held' \in Stores /\ inbox' \in Stores
    BY ConnTyped, PersistedTyped DEF RelayCloses, TypeOK, Stores
  <1> QED BY <1>3, <1>4, OutsideTyped DEF RelayCloses, TypeOK, PeersUntouched, Counts

LEMMA AuthenticateTyped ==
  ASSUME TypeOK, NEW c \in DOMAIN conn, Authenticate(c)
  PROVE  TypeOK'
  <1> DEFINE d == conn[c].device
             k == [conn[c] EXCEPT !.relay = "ready", !.out = Tail(conn[c].out),
                                  !.in = <<[type |-> "ready"]>>]
             ready == [conn EXCEPT ![c] = k]
  <1>1. Tail(conn[c].out) \in Seq(OutFrames(TrueMessages, Has[conn[c].device]))
        /\ conn[c].open
    BY ConnTyped, TailTyped DEF Authenticate
  <1>2. <<[type |-> "ready"]>> \in Seq(InFrames(TrueMessages))
    <2>1. [type |-> "ready"] \in InFrames(TrueMessages)
      BY DEF InFrames
    <2> QED BY <2>1, Singleton
  <1>3. k \in Connections(TrueMessages, Has)
    BY <1>1, <1>2, ConnTyped, HasTyped, Updated
  <1>4. conn' = ClosedByRelay(Delivered(ready, c, Stored(d)), Online(conn, d))
    BY DEF Authenticate
  <1> HIDE DEF k
  <1>5. ready \in Wire /\ c \in DOMAIN ready
    BY <1>3, ConnTyped, Replaced DEF Wire
  <1> HIDE DEF ready
  <1>6. Stored(d) \in Seq(TrueMessages)
    BY ConnTyped, StoredTyped
  <1> HIDE DEF d
  <1>7. Delivered(ready, c, Stored(d)) \in Wire
    BY <1>5, <1>6, HasTyped, DeliveredTyped DEF Wire
  <1>8. conn' \in Wire
    BY <1>4, <1>7, HasTyped, ClosedTyped DEF Wire
  <1>9. held' \in Stores /\ inbox' \in Stores
    BY ConnTyped, PersistedTyped DEF Authenticate
  <1> QED BY <1>8, <1>9, OutsideTyped DEF Authenticate, TypeOK, PeersUntouched, Counts

LEMMA FullTyped ==
  ASSUME TypeOK, NEW c \in DOMAIN conn, Full(c)
  PROVE  TypeOK'
  <1>1. conn' \in Wire
    BY ConnTyped, HasTyped, ClosedTyped DEF Full, Wire
  <1> QED BY <1>1, OutsideTyped DEF Full, TypeOK, PeersUntouched, Stores, Counts

(* The message the relay takes next.                                        *)
LEMMA NextSent ==
  ASSUME TypeOK, NEW c \in DOMAIN conn, NextFrame(c), Head(conn[c].out).type = "send"
  PROVE  /\ Head(conn[c].out).message \in TrueMessages
         /\ Head(conn[c].out).message.to \in Devices
  <1>1. Head(conn[c].out) \in OutFrames(TrueMessages, Has[conn[c].device])
    BY ConnTyped, TailTyped DEF NextFrame
  <1>2. Head(conn[c].out).message \in TrueMessages
    BY <1>1 DEF OutFrames
  <1> QED BY <1>2 DEF TrueMessages, Messages

LEMMA FrameTaken ==
  ASSUME TypeOK, NEW c \in DOMAIN conn, NextFrame(c)
  PROVE  /\ [conn EXCEPT ![c].out = Tail(@)] \in Wire
         /\ DOMAIN [conn EXCEPT ![c].out = Tail(@)] = DOMAIN conn
  <1> DEFINE k == [conn[c] EXCEPT !.out = Tail(conn[c].out)]
  <1>1. Tail(conn[c].out) \in Seq(OutFrames(TrueMessages, Has[conn[c].device])) /\ conn[c].open
    BY ConnTyped, TailTyped DEF NextFrame
  <1>2. k \in Connections(TrueMessages, Has)
    BY <1>1, ConnTyped, HasTyped, Updated
  <1>3. [conn EXCEPT ![c].out = Tail(@)] = [conn EXCEPT ![c] = k]
    OBVIOUS
  <1> HIDE DEF k
  <1>4. [conn EXCEPT ![c] = k] \in Wire /\ DOMAIN [conn EXCEPT ![c] = k] = DOMAIN conn
    BY <1>2, ConnTyped, Replaced DEF Wire
  <1> QED BY <1>3, <1>4

LEMMA TakesTyped ==
  ASSUME TypeOK, NEW c \in DOMAIN conn, Takes(c)
  PROVE  TypeOK'
  <1> DEFINE m == Head(conn[c].out).message
             taken == [conn EXCEPT ![c].out = Tail(@)]
             online == Online(conn, m.to)
  <1>1. m \in TrueMessages /\ m.to \in Devices
    BY NextSent DEF Takes
  <1>2. taken \in Wire /\ DOMAIN taken = DOMAIN conn
    BY FrameTaken DEF Takes
  <1>3. /\ inbox' = [inbox EXCEPT ![m.to] = Append(@, m)] \/ inbox' = inbox
        /\ held' = [held EXCEPT ![m.to] = Append(@, m)] \/ held' = held
    BY DEF Takes
  <1>4. count' = count \/ Happens("slow")
    BY DEF Takes
  <1>5. \/ conn' = taken
        \/ conn' = [x \in DOMAIN conn |->
                      IF x \in online THEN Delivered(taken, x, <<m>>)[x] ELSE taken[x]]
        \/ conn' = ClosedByRelay(taken, online)
    BY DEF Takes
  <1> HIDE DEF m, taken, online
  <1>6. Append(inbox[m.to], m) \in Seq(TrueMessages) /\ Append(held[m.to], m) \in Seq(TrueMessages)
    BY <1>1, StoredTyped, AppendProperties
  <1>7. inbox' \in Stores
    BY <1>3, <1>6 DEF TypeOK, Stores
  <1>8. held' \in Stores
    BY <1>3, <1>6 DEF TypeOK, Stores
  <1>9. count' \in Counts /\ count'.sent = count.sent
    <2>1. CASE count' = count
      BY <2>1 DEF TypeOK, Counts
    <2>2. CASE Happens("slow")
      BY <2>2, HappensTyped DEF Kinds
    <2> QED BY <1>4, <2>1, <2>2
  <1>10. ClosedByRelay(taken, online) \in Wire
    BY <1>2, HasTyped, ClosedTyped DEF Wire
  <1>11. [x \in DOMAIN conn |->
            IF x \in online THEN Delivered(taken, x, <<m>>)[x] ELSE taken[x]] \in Wire
    <2>1. ASSUME NEW x \in DOMAIN conn
          PROVE  (IF x \in online THEN Delivered(taken, x, <<m>>)[x] ELSE taken[x])
                   \in Connections(TrueMessages, Has)
      <3>1. x \in DOMAIN taken
        BY <1>2
      <3>2. <<m>> \in Seq(TrueMessages)
        BY <1>1, Singleton
      <3>3. Delivered(taken, x, <<m>>) \in Wire /\ x \in DOMAIN Delivered(taken, x, <<m>>)
        <4>1. \A d \in Devices : Has[d] \subseteq TrueMessages
          BY HasTyped
        <4>2. taken \in Seq(Connections(TrueMessages, Has))
          BY <1>2 DEF Wire
        <4>3. ASSUME NEW ms \in Seq(TrueMessages)
              PROVE  /\ Delivered(taken, x, ms) \in Seq(Connections(TrueMessages, Has))
                     /\ DOMAIN Delivered(taken, x, ms) = DOMAIN taken
          BY <4>1, <4>2, <3>1, DeliveredTyped
        <4> QED BY <4>3, <3>1, <3>2 DEF Wire
      <3> QED BY <1>2, <3>1, <3>3, Each DEF Wire
    <2>2. [x \in DOMAIN conn |->
            IF x \in online THEN Delivered(taken, x, <<m>>)[x] ELSE taken[x]]
              \in [DOMAIN conn -> Connections(TrueMessages, Has)]
      BY <2>1
    <2> QED BY <2>2, ConnTyped, SameShape DEF Wire
  <1>12. conn' \in Wire
    BY <1>2, <1>5, <1>10, <1>11
  <1>13. PeersUntouched
    BY <1>9 DEF Takes, PeersUntouched
  <1> QED BY <1>7, <1>8, <1>9, <1>12, <1>13, OutsideTyped

LEMMA AckedTyped ==
  ASSUME TypeOK, NEW c \in DOMAIN conn, Acked(c)
  PROVE  TypeOK'
  <1> DEFINE m == Head(conn[c].out).message
             d == conn[c].device
  <1>1. conn' \in Wire
    BY FrameTaken DEF Acked
  <1>2. d \in Devices
    BY ConnTyped
  <1>3. held' = [held EXCEPT ![d] = Without(@, m)] /\ inbox' = [inbox EXCEPT ![d] = Without(@, m)]
    BY DEF Acked
  <1> HIDE DEF m, d
  <1>4. Without(held[d], m) \in Seq(TrueMessages) /\ Without(inbox[d], m) \in Seq(TrueMessages)
    BY <1>2, StoredTyped, WithoutTyped
  <1>5. held' \in Stores /\ inbox' \in Stores
    BY <1>3, <1>4 DEF TypeOK, Stores
  <1> QED BY <1>1, <1>5, OutsideTyped DEF Acked, TypeOK, PeersUntouched, Counts

(* What is stored of the held messages of a device, and what stays held.    *)
LEMMA FlushedTyped ==
  ASSUME NEW S, NEW s \in Seq(S), NEW t \in Seq(S), NEW n \in Nat, n <= Len(s)
  PROVE  /\ SubSeq(s, n + 1, Len(s)) \in Seq(S)
         /\ t \o SubSeq(s, 1, n) \in Seq(S)
  <1>1. Len(s) \in Nat
    BY LenProperties
  <1>2. n + 1 \in 1..(Len(s) + 1) /\ Len(s) \in 0..Len(s) /\ 1 \in 1..(Len(s) + 1) /\ n \in 0..Len(s)
    BY <1>1
  <1>3. SubSeq(s, n + 1, Len(s)) \in Seq(S) /\ SubSeq(s, 1, n) \in Seq(S)
    BY <1>2, PartTyped
  <1> QED BY <1>3, ConcatProperties

LEMMA FlushTyped ==
  ASSUME TypeOK, Flush
  PROVE  TypeOK'
  <1>1. PICK n \in [Devices -> 0..InboxLimit] :
          /\ \A d \in Devices : n[d] <= Len(held[d])
          /\ inbox' = [d \in Devices |-> inbox[d] \o SubSeq(held[d], 1, n[d])]
          /\ held' = [d \in Devices |-> SubSeq(held[d], n[d] + 1, Len(held[d]))]
    BY DEF Flush
  <1>2. ASSUME NEW d \in Devices
        PROVE  /\ SubSeq(held[d], n[d] + 1, Len(held[d])) \in Seq(TrueMessages)
               /\ inbox[d] \o SubSeq(held[d], 1, n[d]) \in Seq(TrueMessages)
    <2>1. n[d] \in Nat /\ n[d] <= Len(held[d])
      BY <1>1, BridgeConstants
    <2> QED BY <2>1, StoredTyped, FlushedTyped
  <1>3. held' \in Stores /\ inbox' \in Stores
    BY <1>1, <1>2 DEF Stores
  <1> QED BY <1>3, OutsideTyped DEF Flush, TypeOK, PeersUntouched, Wire, Counts

LEMMA ExpireTyped ==
  ASSUME TypeOK, NEW d \in Devices, NEW i \in DOMAIN inbox[d], Expire(d, i)
  PROVE  TypeOK'
  <1>1. RemoveAt(inbox[d], i) \in Seq(TrueMessages)
    BY StoredTyped, RemoveAtTyped
  <1>2. inbox' \in Stores
    BY <1>1 DEF Expire, TypeOK, Stores
  <1>3. count' \in Counts /\ count'.sent = count.sent
    BY HappensTyped DEF Expire, Kinds
  <1> QED BY <1>2, <1>3, OutsideTyped DEF Expire, TypeOK, PeersUntouched, Wire, Stores

LEMMA HangupTyped == ASSUME TypeOK PROVE Hangup \in Wire
  <1>1. ASSUME NEW c \in DOMAIN conn
        PROVE  [conn[c] EXCEPT !.cut = TRUE, !.relay = "gone", !.out = <<>>, !.in = <<>>]
                 \in Connections(TrueMessages, Has)
    BY ConnTyped, HasTyped, Updated
  <1>2. Hangup \in [DOMAIN conn -> Connections(TrueMessages, Has)]
    BY <1>1 DEF Hangup
  <1> QED BY <1>2, SameShape DEF TypeOK, Wire

LEMMA StopTyped ==
  ASSUME TypeOK, Stop \/ Crash
  PROVE  TypeOK'
  <1>1. conn' \in Wire
    BY HangupTyped DEF Stop, Crash
  <1>2. <<>> \in Seq(TrueMessages) /\ \A d \in Devices : Stored(d) \in Seq(TrueMessages)
    BY EmptySeq, StoredTyped
  <1>3. held' \in Stores /\ inbox' \in Stores
    <2>1. CASE Stop
      BY <1>2, <2>1 DEF Stop, Stores
    <2>2. CASE Crash
      BY <1>2, <2>2 DEF Crash, TypeOK, Stores
    <2> QED BY <2>1, <2>2
  <1>4. count' \in Counts /\ count'.sent = count.sent
    BY HappensTyped DEF Stop, Crash, Kinds
  <1>5. PeersUntouched
    BY <1>4 DEF Stop, Crash, PeersUntouched
  <1> QED BY <1>1, <1>3, <1>4, <1>5, OutsideTyped

-----------------------------------------------------------------------------
(* Type correctness, of the devices.                                        *)

(* Ends are final and numbers only grow, so what was true stays so.         *)
MoreSent ==
  \A q \in Calls : /\ count.sent[q].request <= count'.sent[q].request
                   /\ count.sent[q].response <= count'.sent[q].response

LEMMA AsManySent ==
  ASSUME TypeOK, count'.sent = count.sent
  PROVE  MoreSent
  BY DEF MoreSent, TypeOK

LEMMA AnswersStayTrue ==
  ASSUME TypeOK, count' \in Counts, MoreSent,
         \A q \in Calls : journal[q] \in Ends => journal'[q] = journal[q]
  PROVE  TrueMessages \subseteq TrueMessages'
  <1> SUFFICES ASSUME NEW m \in TrueMessages PROVE m \in TrueMessages'
    OBVIOUS
  <1>1. m \in Messages /\ m.call \in Calls /\ m.n \in Nat /\ m.kind \in {"request", "response"}
    BY DEF TrueMessages, Messages
  <1>2. /\ count.sent[m.call].request \in Nat /\ count.sent[m.call].response \in Nat
        /\ count'.sent[m.call].request \in Nat /\ count'.sent[m.call].response \in Nat
    BY <1>1 DEF TypeOK, Counts
  <1>3. m.n <= Numbered(m.call, m.kind)
    BY DEF TrueMessages
  <1>4. m.n <= Numbered(m.call, m.kind)'
    BY <1>1, <1>2, <1>3 DEF Numbered, MoreSent
  <1>5. m.kind = "response" => m.result \in Ends /\ journal'[m.call] = m.result
    BY <1>1 DEF TrueMessages
  <1>6. m.to = IF m.kind = "request" THEN To[m.call] ELSE From[m.call]
    BY DEF TrueMessages
  <1> QED BY <1>1, <1>4, <1>5, <1>6 DEF TrueMessages

LEMMA InsideTyped ==
  ASSUME TypeOK, UNCHANGED <<held, inbox>>, TrueMessages \subseteq TrueMessages',
         conn' \in Seq(Connections(TrueMessages', Has')),
         pending' \in [Devices -> SUBSET Calls],
         arrived' \in [Devices -> SUBSET TrueMessages'],
         seen' \in [Devices -> SUBSET TrueMessages'],
         jobs' \in [Calls -> Nat], journal' \in [Calls -> States],
         \A q \in Calls : jobs'[q] > 0 <=> journal'[q] = "running",
         told' \in [Calls -> Ends \cup {"nothing"}],
         count' \in Counts
  PROVE  TypeOK'
  <1>1. Connections(TrueMessages, Has)' = Connections(TrueMessages', Has')
    BY DEF Connections, OutFrames, InFrames
  <1>2. Seq(TrueMessages) \subseteq Seq(TrueMessages')
    BY SeqMonotonic
  <1>3. held' \in [Devices -> Seq(TrueMessages')] /\ inbox' \in [Devices -> Seq(TrueMessages')]
    BY <1>2 DEF TypeOK
  <1> QED BY <1>1, <1>3 DEF TypeOK, Counts

(* The same when only connections, pending calls, answers and counts change. *)
LEMMA InsideSameTyped ==
  ASSUME TypeOK, UNCHANGED <<held, inbox, jobs, journal>>, Has' = Has, MoreSent,
         arrived' \in [Devices -> SUBSET TrueMessages], seen' \in [Devices -> SUBSET TrueMessages],
         conn' \in Seq(Connections(TrueMessages', Has)), pending' \in [Devices -> SUBSET Calls],
         told' \in [Calls -> Ends \cup {"nothing"}], count' \in Counts
  PROVE  TypeOK'
  <1>1. TrueMessages \subseteq TrueMessages'
    BY AnswersStayTrue
  <1>2. conn' \in Seq(Connections(TrueMessages', Has'))
    OBVIOUS
  <1>3. /\ jobs' \in [Calls -> Nat] /\ journal' \in [Calls -> States]
        /\ \A q \in Calls : jobs'[q] > 0 <=> journal'[q] = "running"
    BY DEF TypeOK
  <1>4. arrived' \in [Devices -> SUBSET TrueMessages'] /\ seen' \in [Devices -> SUBSET TrueMessages']
    BY <1>1
  <1> QED BY <1>1, <1>2, <1>3, <1>4, InsideTyped

LEMMA InsideSentTyped ==
  ASSUME TypeOK, UNCHANGED <<held, inbox, jobs, journal, conn, count>>, Has' = Has,
         arrived' \in [Devices -> SUBSET TrueMessages], seen' \in [Devices -> SUBSET TrueMessages],
         pending' \in [Devices -> SUBSET Calls], told' \in [Calls -> Ends \cup {"nothing"}]
  PROVE  TypeOK'
  <1>1. count' \in Counts /\ MoreSent
    BY AsManySent DEF TypeOK, Counts
  <1>2. TrueMessages' = TrueMessages
    BY DEF TrueMessages, Numbered
  <1>3. conn' \in Seq(Connections(TrueMessages', Has))
    BY <1>2 DEF TypeOK
  <1> QED BY <1>1, <1>3, InsideSameTyped

LEMMA TransmitCount ==
  ASSUME TypeOK, NEW n \in [Calls -> Nat], NEW s \in [Calls -> [request : Nat, response : Nat]]
  PROVE  [count EXCEPT !.tries = n, !.sent = s] \in Counts
  <1>1. count \in Counts
    BY DEF TypeOK, Counts
  <1> QED BY <1>1 DEF Counts

LEMMA CountFields ==
  ASSUME TypeOK, NEW q \in Calls
  PROVE  /\ count \in Counts
         /\ count.tries \in [Calls -> Nat] /\ count.tries[q] \in Nat
         /\ count.sent \in [Calls -> [request : Nat, response : Nat]]
         /\ count.sent[q] \in [request : Nat, response : Nat]
         /\ count.sent[q].request \in Nat /\ count.sent[q].response \in Nat
  BY DEF TypeOK, Counts

(* Requests sent, once they are counted.                                    *)
LEMMA AskedTyped ==
  ASSUME TypeOK, NEW cs \in Wire, NEW d \in Devices, NEW qs \in SUBSET Calls,
         NEW U, TrueMessages \subseteq U, \A m \in Messages : NewRequest(m, qs) => m \in U
  PROVE  Sent(cs, d, SendFrames(Requests(qs))) \in Seq(Connections(U, Has))
  <1>1. \A x \in Devices : Has[x] \subseteq U
    BY HasTyped
  <1>2. cs \in Seq(Connections(U, Has))
    <2>1. Seq(Connections(TrueMessages, Has)) \subseteq Seq(Connections(U, Has))
      BY ConnectionsGrow
    <2> QED BY <2>1 DEF Wire
  <1>3. Requests(qs) \in Seq(U)
    BY RequestsTyped
  <1>4. SendFrames(Requests(qs)) \in Seq(OutFrames(U, Has[d]))
    BY <1>3, SendFramesTyped
  <1> QED BY <1>1, <1>2, <1>4, SentTyped

LEMMA NewRequestIsTrue ==
  ASSUME TypeOK, NEW qs \in SUBSET Calls, NEW m \in Messages, NewRequest(m, qs),
         \A q \in qs : count'.sent[q].request = count.sent[q].request + 1
  PROVE  m \in TrueMessages'
  BY DEF NewRequest, TrueMessages, Numbered, TypeOK

LEMMA AskTyped ==
  ASSUME TypeOK, NEW q \in Calls, Ask(q)
  PROVE  TypeOK'
  <1>1. From[q] \in Devices
    BY BridgeConstants
  <1>2. count' \in Counts
    <2> DEFINE s == [count.sent[q] EXCEPT !.request = @ + 1]
    <2>1. s \in [request : Nat, response : Nat]
      BY CountFields
    <2>2. count' = [count EXCEPT !.tries = [count.tries EXCEPT ![q] = @ + 1],
                                 !.sent = [count.sent EXCEPT ![q] = s]]
      BY CountFields DEF Ask, Counts
    <2> HIDE DEF s
    <2>3. [count.tries EXCEPT ![q] = @ + 1] \in [Calls -> Nat]
      BY CountFields
    <2>4. [count.sent EXCEPT ![q] = s] \in [Calls -> [request : Nat, response : Nat]]
      BY <2>1, CountFields
    <2> QED BY <2>2, <2>3, <2>4, TransmitCount
  <1>3. pending' \in [Devices -> SUBSET Calls]
    BY <1>1 DEF Ask, TypeOK
  <1>4. Has' = Has
    BY DEF Ask, Has
  <1>5. MoreSent /\ count'.sent[q].request = count.sent[q].request + 1
    <2>1. count'.sent = [count.sent EXCEPT ![q].request = @ + 1]
      BY CountFields DEF Ask, Counts
    <2> QED BY <2>1, CountFields DEF MoreSent
  <1>6. conn' \in Seq(Connections(TrueMessages', Has))
    <2>1. TrueMessages \subseteq TrueMessages'
      BY <1>2, <1>5, AnswersStayTrue DEF Ask
    <2>2. \A m \in Messages : NewRequest(m, {q}) => m \in TrueMessages'
      BY <1>5, NewRequestIsTrue
    <2>3. ASSUME NEW U, TrueMessages \subseteq U, \A m \in Messages : NewRequest(m, {q}) => m \in U
          PROVE  conn' \in Seq(Connections(U, Has))
      BY <1>1, <2>3, AskedTyped DEF Ask, TypeOK, Wire
    <2> QED BY <2>1, <2>2, <2>3
  <1> QED BY <1>2, <1>3, <1>4, <1>5, <1>6, InsideSameTyped DEF Ask, TypeOK

LEMMA TimeOutTyped ==
  ASSUME TypeOK, NEW q \in Calls, TimeOut(q)
  PROVE  TypeOK'
  <1>1. pending' \in [Devices -> SUBSET Calls]
    BY DEF TimeOut, TypeOK
  <1>2. Has' = Has
    BY DEF TimeOut, Has
  <1> QED BY <1>1, <1>2, InsideSentTyped DEF TimeOut, TypeOK

LEMMA BecomesReadyTyped ==
  ASSUME TypeOK, NEW c \in DOMAIN conn, BecomesReady(c)
  PROVE  TypeOK'
  <1> DEFINE d == conn[c].device
             k == [conn[c] EXCEPT !.in = Tail(conn[c].in), !.ready = TRUE]
             ready == [conn EXCEPT ![c] = k]
  <1>1. d \in Devices /\ pending[d] \in SUBSET Calls
    BY ConnTyped DEF TypeOK
  <1>2. Tail(conn[c].in) \in Seq(InFrames(TrueMessages))
    BY ConnTyped, TailTyped DEF BecomesReady, NextIn
  <1>3. k \in Connections(TrueMessages, Has)
    BY <1>2, ConnTyped, HasTyped, Updated
  <1>4. conn' = Sent(ready, d, SendFrames(Requests(pending[d])))
    BY DEF BecomesReady, Transmitted
  <1>5. count' = [count EXCEPT !.sent = [q \in Calls |->
          IF q \in pending[d] THEN [count.sent[q] EXCEPT !.request = @ + 1] ELSE count.sent[q]]]
    BY DEF BecomesReady, Transmitted
  <1> HIDE DEF k
  <1>6. ready \in Seq(Connections(TrueMessages, Has))
    BY <1>3, ConnTyped, Replaced DEF Wire
  <1> HIDE DEF ready, d
  <1>7. count' \in Counts
    <2> DEFINE s == [q \in Calls |->
          IF q \in pending[d] THEN [count.sent[q] EXCEPT !.request = @ + 1] ELSE count.sent[q]]
    <2>1. s \in [Calls -> [request : Nat, response : Nat]]
      BY CountFields
    <2>2. count' = [count EXCEPT !.sent = s]
      BY <1>5
    <2> HIDE DEF s
    <2>3. count \in Counts
      BY DEF TypeOK, Counts
    <2> QED BY <2>1, <2>2, <2>3 DEF Counts
  <1>8. Has' = Has
    BY DEF BecomesReady, Has
  <1>9. MoreSent /\ \A q \in pending[d] : count'.sent[q].request = count.sent[q].request + 1
    <2>1. count'.sent = [q \in Calls |->
             IF q \in pending[d] THEN [count.sent[q] EXCEPT !.request = @ + 1] ELSE count.sent[q]]
      BY <1>5, CountFields DEF TypeOK
    <2> QED BY <1>1, <2>1, CountFields DEF MoreSent
  <1>10. conn' \in Seq(Connections(TrueMessages', Has))
    <2>1. TrueMessages \subseteq TrueMessages'
      BY <1>7, <1>9, AnswersStayTrue DEF BecomesReady
    <2>2. \A m \in Messages : NewRequest(m, pending[d]) => m \in TrueMessages'
      BY <1>1, <1>9, NewRequestIsTrue
    <2>3. ASSUME NEW U, TrueMessages \subseteq U,
                 \A m \in Messages : NewRequest(m, pending[d]) => m \in U
          PROVE  conn' \in Seq(Connections(U, Has))
      BY <1>1, <1>4, <1>6, <2>3, AskedTyped DEF Wire
    <2> QED BY <2>1, <2>2, <2>3
  <1> QED BY <1>7, <1>8, <1>9, <1>10, InsideSameTyped DEF BecomesReady, TypeOK

(* A delivery.                                                              *)
LEMMA NextDelivered ==
  ASSUME TypeOK, NEW c \in DOMAIN conn, NextIn(c), Head(conn[c].in).type = "delivery"
  PROVE  Head(conn[c].in).message \in TrueMessages
  <1>1. Head(conn[c].in) \in InFrames(TrueMessages)
    BY ConnTyped, TailTyped DEF NextIn
  <1> QED BY <1>1 DEF InFrames

LEMMA ReceiveTyped ==
  ASSUME TypeOK, NEW c \in DOMAIN conn, Receive(c)
  PROVE  TypeOK'
  <1> DEFINE m == Head(conn[c].in).message
             d == conn[c].device
             k == [conn[c] EXCEPT !.in = Tail(conn[c].in)]
             read == [conn EXCEPT ![c] = k]
  <1>1. d \in Devices /\ m \in TrueMessages
    BY ConnTyped, NextDelivered DEF Receive
  <1>2. Tail(conn[c].in) \in Seq(InFrames(TrueMessages))
    BY ConnTyped, TailTyped DEF Receive, NextIn
  <1>3. k \in Connections(TrueMessages, Has)
    BY <1>2, ConnTyped, HasTyped, Updated
  <1>4. conn' = Sent(read, d, <<[type |-> "ack", message |-> m]>>)
        /\ arrived' = [arrived EXCEPT ![d] = @ \cup {m}]
    BY DEF Receive
  <1> HIDE DEF k
  <1>5. read \in Seq(Connections(TrueMessages, Has))
    BY <1>3, ConnTyped, Replaced DEF Wire
  <1> HIDE DEF read, d, m
  <1>6. TrueMessages' = TrueMessages
    BY DEF Receive, TrueMessages, Numbered
  <1>7. /\ arrived' \in [Devices -> SUBSET TrueMessages]
        /\ seen' \in [Devices -> SUBSET TrueMessages]
        /\ \A x \in Devices : Has[x] \subseteq Has'[x] /\ Has'[x] \subseteq TrueMessages
        /\ m \in Has'[d]
    <2>1. arrived' \in [Devices -> SUBSET TrueMessages] /\ m \in arrived'[d]
          /\ \A x \in Devices : arrived[x] \subseteq arrived'[x]
      BY <1>1, <1>4 DEF TypeOK
    <2>2. seen' = seen /\ seen \in [Devices -> SUBSET TrueMessages]
      BY DEF Receive, TypeOK
    <2>3. \A x \in Devices : Has[x] = arrived[x] \cup seen[x] /\ Has'[x] = arrived'[x] \cup seen'[x]
      BY DEF Has
    <2> QED BY <1>1, <2>1, <2>2, <2>3
  <1>8. read \in Seq(Connections(TrueMessages, Has'))
    <2>1. Seq(Connections(TrueMessages, Has)) \subseteq Seq(Connections(TrueMessages, Has'))
      BY <1>7, ConnectionsGrow
    <2> QED BY <1>5, <2>1
  <1>9. <<[type |-> "ack", message |-> m]>> \in Seq(OutFrames(TrueMessages, Has'[d]))
    <2>1. [type |-> "ack", message |-> m] \in OutFrames(TrueMessages, Has'[d])
      BY <1>7 DEF OutFrames
    <2> QED BY <2>1, Singleton
  <1>10. conn' \in Seq(Connections(TrueMessages, Has'))
    <2>1. ASSUME NEW frames \in Seq(OutFrames(TrueMessages, Has'[d]))
          PROVE  Sent(read, d, frames) \in Seq(Connections(TrueMessages, Has'))
      BY <1>1, <1>7, <1>8, SentTyped
    <2> QED BY <1>4, <1>9, <2>1
  <1>11. /\ jobs' \in [Calls -> Nat] /\ journal' \in [Calls -> States]
         /\ \A q \in Calls : jobs'[q] > 0 <=> journal'[q] = "running"
         /\ told' \in [Calls -> Ends \cup {"nothing"}] /\ count' \in Counts
         /\ pending' \in [Devices -> SUBSET Calls]
         /\ UNCHANGED <<held, inbox>>
    BY DEF Receive, TypeOK, Counts
  <1> QED BY <1>6, <1>7, <1>10, <1>11, InsideTyped

(* Decrypting a message moves it from the arrived to the seen.              *)
LEMMA OpenedTyped ==
  ASSUME TypeOK, NEW d \in Devices, NEW m \in arrived[d], Opened(d, m)
  PROVE  /\ m \in TrueMessages
         /\ Has' = Has
         /\ arrived' \in [Devices -> SUBSET TrueMessages]
         /\ seen' \in [Devices -> SUBSET TrueMessages]
  <1>1. m \in TrueMessages
    BY DEF TypeOK
  <1>2. arrived' \in [Devices -> SUBSET TrueMessages] /\ seen' \in [Devices -> SUBSET TrueMessages]
    BY <1>1 DEF TypeOK, Opened
  <1>3. \A x \in Devices : arrived'[x] \cup seen'[x] = arrived[x] \cup seen[x]
    BY DEF TypeOK, Opened
  <1>4. Has' = Has
    BY <1>3 DEF Has
  <1> QED BY <1>1, <1>2, <1>4

LEMMA RepeatedTyped ==
  ASSUME TypeOK, NEW d \in Devices, NEW m \in arrived[d], Repeated(d, m)
  PROVE  TypeOK'
  <1>1. Opened(d, m)
    BY DEF Repeated
  <1>2. /\ UNCHANGED <<held, inbox, jobs, journal, conn, count>>
        /\ pending' \in [Devices -> SUBSET Calls]
        /\ told' \in [Calls -> Ends \cup {"nothing"}]
    BY DEF Repeated, TypeOK
  <1> QED BY <1>1, <1>2, OpenedTyped, InsideSentTyped

(* A response tells what became of the call.                                *)
LEMMA AnswerIsTrue ==
  ASSUME NEW m \in TrueMessages, m.kind = "response"
  PROVE  m.call \in Calls /\ m.result \in Ends /\ journal[m.call] = m.result
  BY DEF TrueMessages, Messages

LEMMA TakeAnswerTyped ==
  ASSUME TypeOK, NEW d \in Devices, NEW m \in arrived[d], TakeAnswer(d, m)
  PROVE  TypeOK'
  <1>1. Opened(d, m)
    BY DEF TakeAnswer
  <1>2. m.call \in Calls /\ m.result \in Ends
    BY <1>1, OpenedTyped, AnswerIsTrue DEF TakeAnswer
  <1>3. told' \in [Calls -> Ends \cup {"nothing"}] /\ pending' \in [Devices -> SUBSET Calls]
    BY <1>2 DEF TakeAnswer, TypeOK
  <1>4. UNCHANGED <<held, inbox, jobs, journal, conn, count>>
    BY DEF TakeAnswer
  <1> QED BY <1>1, <1>3, <1>4, OpenedTyped, InsideSentTyped

(* Answers to a call, once the journal holds its result.                    *)
LEMMA AnsweredTyped ==
  ASSUME TypeOK, NEW q \in Calls, NEW result \in Ends, NEW n \in Nat,
         NEW U, TrueMessages \subseteq U,
         \A m \in Messages : NewAnswer(m, q, result, n) => m \in U,
         Answered(conn, q, result, n)
  PROVE  conn' \in Seq(Connections(U, Has))
  <1>1. To[q] \in Devices /\ \A d \in Devices : Has[d] \subseteq U
    BY BridgeConstants, HasTyped
  <1>2. conn \in Seq(Connections(U, Has))
    <2>1. Seq(Connections(TrueMessages, Has)) \subseteq Seq(Connections(U, Has))
      BY ConnectionsGrow
    <2> QED BY <2>1 DEF TypeOK
  <1>3. Responses(q, result, n) \in Seq(U)
    BY ResponsesTyped
  <1>4. SendFrames(Responses(q, result, n)) \in Seq(OutFrames(U, Has[To[q]]))
    BY <1>3, SendFramesTyped
  <1> QED BY <1>1, <1>2, <1>4, SentTyped DEF Answered

LEMMA AnsweredCount ==
  ASSUME TypeOK, NEW q \in Calls, NEW result, NEW n \in Nat, Answered(conn, q, result, n)
  PROVE  /\ count' \in Counts /\ MoreSent
         /\ count'.sent[q].response = count.sent[q].response + n
  <1>1. count' \in Counts
    <2> DEFINE s == [count.sent[q] EXCEPT !.response = @ + n]
    <2>1. s \in [request : Nat, response : Nat]
      BY CountFields
    <2>2. count' = [count EXCEPT !.sent = [count.sent EXCEPT ![q] = s]]
      BY CountFields DEF Answered, Counts
    <2> HIDE DEF s
    <2>3. [count.sent EXCEPT ![q] = s] \in [Calls -> [request : Nat, response : Nat]]
      BY <2>1, CountFields
    <2>4. count \in Counts
      BY CountFields
    <2> QED BY <2>2, <2>3, <2>4 DEF Counts
  <1>2. count'.sent = [count.sent EXCEPT ![q].response = @ + n]
    BY CountFields DEF Answered, Counts
  <1> QED BY <1>1, <1>2, CountFields DEF MoreSent

LEMMA NewAnswerIsTrue ==
  ASSUME TypeOK, NEW q \in Calls, NEW result \in Ends, NEW n \in Nat,
         NEW m \in Messages, NewAnswer(m, q, result, n), journal'[q] = result,
         count'.sent[q].response = count.sent[q].response + n
  PROVE  m \in TrueMessages'
  BY DEF NewAnswer, TrueMessages, Numbered, TypeOK

LEMMA TakeRequestTyped ==
  ASSUME TypeOK, NEW d \in Devices, NEW m \in arrived[d], TakeRequest(d, m)
  PROVE  TypeOK'
  <1>1. Opened(d, m)
    BY DEF TakeRequest
  <1>2. m.call \in Calls
    BY <1>1, OpenedTyped DEF TrueMessages, Messages
  <1>3. /\ UNCHANGED <<held, inbox>>
        /\ pending' \in [Devices -> SUBSET Calls]
        /\ told' \in [Calls -> Ends \cup {"nothing"}]
    BY DEF TakeRequest, TypeOK
  <1>4. CASE jobs[m.call] > 0 \/ journal[m.call] = "none"
    <2>1. /\ jobs' = [jobs EXCEPT ![m.call] = @ + 1]
          /\ journal' = [journal EXCEPT ![m.call] = "running"]
          /\ UNCHANGED <<conn, count>>
      BY <1>4 DEF TakeRequest
    <2>2. jobs[m.call] \in Nat /\ journal[m.call] \in {"none", "running"}
      BY <1>2, <1>4 DEF TypeOK
    <2>3. /\ jobs' \in [Calls -> Nat] /\ journal' \in [Calls -> States]
          /\ \A q \in Calls : jobs'[q] > 0 <=> journal'[q] = "running"
          /\ \A q \in Calls : journal[q] \in Ends => journal'[q] = journal[q]
      BY <1>2, <2>1, <2>2 DEF TypeOK, States, Ends
    <2>4. TrueMessages \subseteq TrueMessages'
      BY <2>1, <2>3, AsManySent, AnswersStayTrue DEF TypeOK, Counts
    <2>5. conn' \in Seq(Connections(TrueMessages', Has'))
      <3>1. Seq(Connections(TrueMessages, Has)) \subseteq Seq(Connections(TrueMessages', Has))
        BY <2>4, ConnectionsGrow
      <3>2. conn \in Seq(Connections(TrueMessages, Has)) /\ Has' = Has
        BY <1>1, OpenedTyped DEF TypeOK
      <3> QED BY <3>1, <3>2, <2>1
    <2>6. arrived' \in [Devices -> SUBSET TrueMessages'] /\ seen' \in [Devices -> SUBSET TrueMessages']
      BY <1>1, <2>4, OpenedTyped
    <2>7. count' \in Counts
      BY <2>1 DEF TypeOK, Counts
    <2> QED BY <1>3, <2>3, <2>4, <2>5, <2>6, <2>7, InsideTyped
  <1>5. CASE ~(jobs[m.call] > 0 \/ journal[m.call] = "none")
    <2>1. journal[m.call] \in Ends
      BY <1>2, <1>5 DEF TypeOK, States, Ends
    <2>2. Answered(conn, m.call, journal[m.call], 1) /\ UNCHANGED <<jobs, journal>>
      BY <1>5 DEF TakeRequest
    <2>3. /\ count' \in Counts /\ MoreSent
          /\ count'.sent[m.call].response = count.sent[m.call].response + 1
      BY <1>2, <2>2, AnsweredCount
    <2>4. TrueMessages \subseteq TrueMessages'
      BY <2>2, <2>3, AnswersStayTrue
    <2>5. \A x \in Messages : NewAnswer(x, m.call, journal[m.call], 1) => x \in TrueMessages'
      BY <1>2, <2>1, <2>2, <2>3, NewAnswerIsTrue
    <2>6. ASSUME NEW U, TrueMessages \subseteq U,
                 \A x \in Messages : NewAnswer(x, m.call, journal[m.call], 1) => x \in U
          PROVE  conn' \in Seq(Connections(U, Has))
      BY <1>2, <2>1, <2>2, <2>6, AnsweredTyped
    <2>7. conn' \in Seq(Connections(TrueMessages', Has))
      BY <2>4, <2>5, <2>6
    <2> QED BY <1>1, <1>3, <2>2, <2>3, <2>7, OpenedTyped, InsideSameTyped
  <1> QED BY <1>4, <1>5

LEMMA FinishTyped ==
  ASSUME TypeOK, NEW q \in Calls, Finish(q)
  PROVE  TypeOK'
  <1>1. /\ journal' = [journal EXCEPT ![q] = "complete"] /\ jobs' = [jobs EXCEPT ![q] = 0]
        /\ Answered(conn, q, "complete", jobs[q])
    BY DEF Finish
  <1>2. jobs[q] \in Nat /\ journal[q] = "running"
    BY DEF Finish, TypeOK
  <1>3. /\ jobs' \in [Calls -> Nat] /\ journal' \in [Calls -> States]
        /\ \A x \in Calls : jobs'[x] > 0 <=> journal'[x] = "running"
        /\ \A x \in Calls : journal[x] \in Ends => journal'[x] = journal[x]
        /\ journal'[q] = "complete"
        /\ "complete" \in Ends
    BY <1>1, <1>2 DEF TypeOK, States, Ends
  <1>4. /\ count' \in Counts /\ MoreSent
        /\ count'.sent[q].response = count.sent[q].response + jobs[q]
    BY <1>1, <1>2, AnsweredCount
  <1>5. TrueMessages \subseteq TrueMessages'
    BY <1>3, <1>4, AnswersStayTrue
  <1>6. \A m \in Messages : NewAnswer(m, q, "complete", jobs[q]) => m \in TrueMessages'
    BY <1>2, <1>3, <1>4, NewAnswerIsTrue
  <1>7. conn' \in Seq(Connections(TrueMessages', Has)) /\ count' \in Counts
    <2>1. ASSUME NEW U, TrueMessages \subseteq U,
                 \A m \in Messages : NewAnswer(m, q, "complete", jobs[q]) => m \in U
          PROVE  conn' \in Seq(Connections(U, Has))
      BY <1>1, <1>2, <1>3, <2>1, AnsweredTyped
    <2> QED BY <1>5, <1>6, <1>4, <2>1
  <1>8. /\ UNCHANGED <<held, inbox>> /\ Has' = Has
        /\ pending' \in [Devices -> SUBSET Calls]
        /\ told' \in [Calls -> Ends \cup {"nothing"}]
    BY DEF Finish, TypeOK, Has
  <1>9. arrived' \in [Devices -> SUBSET TrueMessages'] /\ seen' \in [Devices -> SUBSET TrueMessages']
    BY <1>5 DEF Finish, TypeOK
  <1> QED BY <1>3, <1>5, <1>7, <1>8, <1>9, InsideTyped

LEMMA RestartTyped ==
  ASSUME TypeOK, NEW d \in Devices, Restart(d)
  PROVE  TypeOK'
  <1>1. /\ jobs' \in [Calls -> Nat] /\ journal' \in [Calls -> States]
        /\ \A q \in Calls : jobs'[q] > 0 <=> journal'[q] = "running"
        /\ \A q \in Calls : journal[q] \in Ends => journal'[q] = journal[q]
    <2>1. /\ jobs \in [Calls -> Nat] /\ journal \in [Calls -> States]
          /\ \A q \in Calls : jobs[q] > 0 <=> journal[q] = "running"
      BY DEF TypeOK
    <2>2. /\ jobs' = [q \in Calls |-> IF To[q] = d THEN 0 ELSE jobs[q]]
          /\ journal' = [q \in Calls |->
               IF To[q] = d /\ journal[q] = "running" THEN "interrupted" ELSE journal[q]]
      BY DEF Restart
    <2> QED BY <2>1, <2>2 DEF States, Ends
  <1>2. count' \in Counts /\ MoreSent
    BY HappensTyped, AsManySent DEF Restart, Kinds
  <1>3. TrueMessages \subseteq TrueMessages'
    BY <1>1, <1>2, AnswersStayTrue
  <1>4. /\ pending' \in [Devices -> SUBSET Calls]
        /\ arrived' \in [Devices -> SUBSET TrueMessages'] /\ seen' \in [Devices -> SUBSET TrueMessages']
        /\ \A x \in Devices : Has'[x] \subseteq TrueMessages' /\ (x # d => Has'[x] = Has[x])
    <2>1. pending' \in [Devices -> SUBSET Calls]
      BY DEF Restart, TypeOK
    <2>2. arrived' \in [Devices -> SUBSET TrueMessages'] /\ seen' \in [Devices -> SUBSET TrueMessages']
      BY <1>3 DEF Restart, TypeOK
    <2>3. \A x \in Devices : x # d => arrived'[x] = arrived[x] /\ seen'[x] = seen[x]
      BY DEF Restart, TypeOK
    <2>4. \A x \in Devices : Has[x] = arrived[x] \cup seen[x] /\ Has'[x] = arrived'[x] \cup seen'[x]
      BY DEF Has
    <2> QED BY <2>1, <2>2, <2>3, <2>4
  <1>5. ASSUME NEW c \in DOMAIN conn
        PROVE  (IF conn[c].device = d /\ conn[c].open
                THEN [conn[c] EXCEPT !.open = FALSE, !.ready = FALSE, !.cut = TRUE, !.out = <<>>, !.in = <<>>]
                ELSE conn[c]) \in Connections(TrueMessages', Has')
    <2> DEFINE k == conn[c]
               gone == [k EXCEPT !.open = FALSE, !.ready = FALSE, !.cut = TRUE, !.out = <<>>, !.in = <<>>]
    <2>1. /\ k \in Connections(TrueMessages, Has) /\ k.device \in Devices
          /\ k.out \in Seq(OutFrames(TrueMessages, Has[k.device]))
          /\ k.open \/ k.out = <<>>
      BY ConnTyped
    <2>2. /\ Seq(OutFrames(TrueMessages, TrueMessages)) \subseteq Seq(OutFrames(TrueMessages', TrueMessages'))
          /\ Seq(InFrames(TrueMessages)) \subseteq Seq(InFrames(TrueMessages'))
          /\ k.device # d => Seq(OutFrames(TrueMessages, Has[k.device]))
                               \subseteq Seq(OutFrames(TrueMessages', Has'[k.device]))
      <3>1. /\ Seq(OutFrames(TrueMessages, TrueMessages)) \subseteq Seq(OutFrames(TrueMessages', TrueMessages'))
            /\ Seq(InFrames(TrueMessages)) \subseteq Seq(InFrames(TrueMessages'))
        BY <1>3, FramesGrow, Zenon
      <3>2. ASSUME NEW B PROVE Seq(OutFrames(TrueMessages, B)) \subseteq Seq(OutFrames(TrueMessages', B))
        <4>1. B \subseteq B
          OBVIOUS
        <4> QED BY <1>3, <4>1, FramesGrow, Zenon
      <3>3. k.device # d => Has'[k.device] = Has[k.device]
        BY <1>4, <2>1
      <3> QED BY <3>1, <3>2, <3>3
    <2>3. k \in [device : Devices, open : BOOLEAN, ready : BOOLEAN, cut : BOOLEAN,
                 relay : {"opening", "ready", "closed", "gone"},
                 out : Seq(OutFrames(TrueMessages', TrueMessages')), in : Seq(InFrames(TrueMessages'))]
      BY <2>1, <2>2, FieldsTyped
    <2>4. <<>> \in Seq(OutFrames(TrueMessages', TrueMessages')) /\ <<>> \in Seq(InFrames(TrueMessages'))
          /\ <<>> \in Seq(OutFrames(TrueMessages', Has'[k.device]))
      BY EmptySeq
    <2> HIDE DEF k
    <2>5. CASE k.device = d /\ k.open
      <3>1. /\ gone \in [device : Devices, open : BOOLEAN, ready : BOOLEAN, cut : BOOLEAN,
                         relay : {"opening", "ready", "closed", "gone"},
                         out : Seq(OutFrames(TrueMessages', TrueMessages')), in : Seq(InFrames(TrueMessages'))]
            /\ gone.device = k.device /\ gone.out = <<>>
        BY <2>3, <2>4
      <3> HIDE DEF gone
      <3>2. gone \in Connections(TrueMessages', Has')
        BY <3>1, <2>4 DEF Connections
      <3> QED BY <2>5, <3>2 DEF gone, k
    <2>6. CASE ~(k.device = d /\ k.open)
      <3>1. k.out \in Seq(OutFrames(TrueMessages', Has'[k.device]))
        BY <2>1, <2>2, <2>4, <2>6
      <3>2. k \in Connections(TrueMessages', Has')
        BY <2>1, <2>3, <3>1 DEF Connections
      <3> QED BY <2>6, <3>2 DEF k
    <2> QED BY <2>5, <2>6
  <1>6. conn' \in [DOMAIN conn -> Connections(TrueMessages', Has')]
    BY <1>5 DEF Restart
  <1>7. conn' \in Seq(Connections(TrueMessages', Has'))
    BY <1>6, SameShape DEF TypeOK
  <1>8. /\ UNCHANGED <<held, inbox>>
        /\ told' \in [Calls -> Ends \cup {"nothing"}]
    BY DEF Restart, TypeOK
  <1> QED BY <1>1, <1>3, <1>4, <1>7, <1>2, <1>8, InsideTyped

LEMMA InitTyped == Init => TypeOK
  <1> SUFFICES ASSUME Init PROVE TypeOK
    OBVIOUS
  <1>1. conn \in Seq(Connections(TrueMessages, Has))
    BY EmptySeq DEF Init
  <1>2. <<>> \in Seq(TrueMessages)
    BY EmptySeq
  <1>3. held \in [Devices -> Seq(TrueMessages)] /\ inbox \in [Devices -> Seq(TrueMessages)]
    BY <1>2 DEF Init
  <1>4. count \in [mishaps : Nat, kinds : SUBSET Kinds, tries : [Calls -> Nat],
                   sent : [Calls -> [request : Nat, response : Nat]]]
    BY DEF Init
  <1> QED BY <1>1, <1>3, <1>4 DEF Init, TypeOK, States, Ends

LEMMA StepTyped ==
  ASSUME TypeOK, [Next]_vars
  PROVE  TypeOK'
  <1>1. CASE UNCHANGED vars
    <2>1. TrueMessages' = TrueMessages /\ Has' = Has
      BY <1>1 DEF vars, TrueMessages, Numbered, Has
    <2> QED BY <1>1, <2>1, OutsideTyped DEF vars, TypeOK, PeersUntouched, Wire, Stores, Counts
  <1>2. CASE Network
    BY <1>2, CutTyped, PeerClosesTyped, RelayClosesTyped DEF Network
  <1>3. CASE Relay
    BY <1>3, AuthenticateTyped, FullTyped, TakesTyped, AckedTyped, FlushTyped, ExpireTyped, StopTyped
    DEF Relay
  <1>4. CASE Peers
    BY <1>4, ConnectTyped, RestartTyped, AskTyped, TimeOutTyped, FinishTyped, BecomesReadyTyped,
       ReceiveTyped, RepeatedTyped, TakeAnswerTyped, TakeRequestTyped
    DEF Peers
  <1> QED BY <1>1, <1>2, <1>3, <1>4 DEF Next

(* The types hold; with them, every answer under way is true and only what  *)
(* a device has is acknowledged (BridgePeer.receive, dispatch).             *)
THEOREM TypeCorrect == Spec => []TypeOK
  <1>1. Init => TypeOK
    BY InitTyped
  <1>2. TypeOK /\ [Next]_vars => TypeOK'
    BY StepTyped
  <1> QED BY <1>1, <1>2, PTL DEF Spec

---------------------------------------------------------------------------
(* An operation is carried out once: only three actions change the journal, *)
(* and one what the asker was told.                                         *)

LEMMA RequestBegins ==
  ASSUME TypeOK, NEW d \in Devices, NEW m \in arrived[d], TakeRequest(d, m)
  PROVE  [Call!Next]_<<journal, told>>
  <1>1. m.call \in Calls
    BY DEF TypeOK, TrueMessages, Messages
  <1>2. journal \in [Calls -> States] /\ (jobs[m.call] > 0 <=> journal[m.call] = "running")
    BY <1>1 DEF TypeOK
  <1>3. UNCHANGED told
    BY DEF TakeRequest
  <1>4. CASE jobs[m.call] > 0
    <2>1. journal' = [journal EXCEPT ![m.call] = "running"]
      BY <1>4 DEF TakeRequest
    <2>2. journal' = journal
      BY <1>1, <1>2, <1>4, <2>1
    <2> QED BY <1>3, <2>2
  <1>5. CASE ~(jobs[m.call] > 0) /\ journal[m.call] = "none"
    <2>1. journal' = [journal EXCEPT ![m.call] = "running"]
      BY <1>5 DEF TakeRequest
    <2>2. Call!Begin(m.call)
      BY <1>3, <1>5, <2>1 DEF Call!Begin
    <2> QED BY <1>1, <2>2 DEF Call!Next
  <1>6. CASE ~(jobs[m.call] > 0) /\ journal[m.call] # "none"
    <2>1. UNCHANGED journal
      BY <1>6 DEF TakeRequest
    <2> QED BY <1>3, <2>1
  <1> QED BY <1>4, <1>5, <1>6

LEMMA FinishCompletes ==
  ASSUME TypeOK, NEW q \in Calls, Finish(q)
  PROVE  Call!Next
  <1>1. journal[q] = "running"
    BY DEF Finish, TypeOK
  <1>2. journal' = [journal EXCEPT ![q] = "complete"] /\ UNCHANGED told
    BY DEF Finish
  <1>3. Call!Complete(q)
    BY <1>1, <1>2 DEF Call!Complete
  <1> QED BY <1>3 DEF Call!Next

LEMMA RestartInterrupts ==
  ASSUME TypeOK, NEW d \in Devices, Restart(d)
  PROVE  [Call!Next]_<<journal, told>>
  <1> DEFINE cut == {q \in Calls : To[q] = d /\ journal[q] = "running"}
  <1>1. /\ journal' = [q \in Calls |->
             IF To[q] = d /\ journal[q] = "running" THEN "interrupted" ELSE journal[q]]
        /\ UNCHANGED told
    BY DEF Restart
  <1>2. journal' = [q \in Calls |-> IF q \in cut THEN "interrupted" ELSE journal[q]]
    BY <1>1
  <1>3. cut \in SUBSET {q \in Calls : journal[q] = "running"}
    OBVIOUS
  <1>4. journal \in [Calls -> States]
    BY DEF TypeOK
  <1> HIDE DEF cut
  <1>5. CASE cut = {}
    <2>1. journal' = journal
      BY <1>2, <1>4, <1>5
    <2> QED BY <1>1, <2>1
  <1>6. CASE cut # {}
    <2>1. Call!Interrupt
      BY <1>1, <1>2, <1>3, <1>6 DEF Call!Interrupt
    <2> QED BY <2>1 DEF Call!Next
  <1> QED BY <1>5, <1>6

LEMMA AnswerTells ==
  ASSUME TypeOK, NEW d \in Devices, NEW m \in arrived[d], TakeAnswer(d, m)
  PROVE  [Call!Next]_<<journal, told>>
  <1>1. m \in TrueMessages /\ m.kind = "response"
    BY DEF TypeOK, TakeAnswer
  <1>2. m.call \in Calls /\ m.result \in Ends /\ journal[m.call] = m.result
    BY <1>1 DEF TrueMessages, Messages
  <1>3. UNCHANGED journal
    BY DEF TakeAnswer
  <1>4. CASE m.call \in pending[d]
    <2>1. told' = [told EXCEPT ![m.call] = m.result]
      BY <1>4 DEF TakeAnswer
    <2>2. Call!Tell(m.call)
      BY <1>2, <1>3, <2>1 DEF Call!Tell, Ends
    <2> QED BY <1>2, <2>2 DEF Call!Next
  <1>5. CASE m.call \notin pending[d]
    BY <1>3, <1>5 DEF TakeAnswer
  <1> QED BY <1>4, <1>5

LEMMA StepCarriesOut == TypeOK /\ [Next]_vars => [Call!Next]_<<journal, told>>
  <1> SUFFICES ASSUME TypeOK, [Next]_vars PROVE [Call!Next]_<<journal, told>>
    OBVIOUS
  <1>1. CASE UNCHANGED vars
    BY <1>1 DEF vars
  <1>2. CASE Network
    BY <1>2 DEF Network, Cut, PeerCloses, RelayCloses
  <1>3. CASE Relay
    BY <1>3 DEF Relay, Authenticate, Full, Takes, Acked, Flush, Expire, Stop, Crash
  <1>4. CASE Peers
    <2>1. CASE \E d \in Devices : Connect(d)
      BY <2>1 DEF Connect
    <2>2. CASE \E q \in Calls : Ask(q) \/ TimeOut(q)
      BY <2>2 DEF Ask, TimeOut
    <2>3. CASE \E c \in DOMAIN conn : BecomesReady(c) \/ Receive(c)
      BY <2>3 DEF BecomesReady, Receive
    <2>4. CASE \E d \in Devices : \E m \in arrived[d] : Repeated(d, m)
      BY <2>4 DEF Repeated
    <2>5. CASE \E d \in Devices : Restart(d)
      BY <2>5, RestartInterrupts
    <2>6. CASE \E q \in Calls : Finish(q)
      BY <2>6, FinishCompletes
    <2>7. CASE \E d \in Devices : \E m \in arrived[d] : TakeAnswer(d, m)
      BY <2>7, AnswerTells
    <2>8. CASE \E d \in Devices : \E m \in arrived[d] : TakeRequest(d, m)
      BY <2>8, RequestBegins
    <2> QED BY <1>4, <2>1, <2>2, <2>3, <2>4, <2>5, <2>6, <2>7, <2>8 DEF Peers
  <1> QED BY <1>1, <1>2, <1>3, <1>4 DEF Next

(* The bridge implements RemoteCall: whatever is lost, repeated or          *)
(* restarted, an operation is carried out at most once, and its asker is    *)
(* told only what became of it (WorkspaceStore.once, BridgePeer.dispatch).  *)
THEOREM OnceOnly == Spec => CarriedOutOnce
  <1>1. Init => Call!Init
    BY DEF Init, Call!Init
  <1>2. TypeOK /\ [Next]_vars => [Call!Next]_<<journal, told>>
    BY StepCarriesOut
  <1> QED BY <1>1, <1>2, TypeCorrect, PTL DEF Spec, CarriedOutOnce, Call!Spec
---------------------------------------------------------------------------
(* A device has one connection at the relay.  Only authenticate makes a     *)
(* connection ready; every other step leaves the ready ones among those     *)
(* that were.                                                               *)

Alone(cs) == \A d \in Devices : \A a, b \in Online(cs, d) : a = b

Quiet(new, old) ==
  \A c \in DOMAIN new :
    /\ c \in DOMAIN old
    /\ new[c].device = old[c].device
    /\ new[c].relay = "ready" => old[c].relay = "ready"

LEMMA QuietAlone ==
  ASSUME NEW new, NEW old, Quiet(new, old), Alone(old)
  PROVE  Alone(new)
  BY DEF Quiet, Alone, Online

LEMMA QuietTwice ==
  ASSUME NEW x, NEW y, NEW z, Quiet(x, y), Quiet(y, z)
  PROVE  Quiet(x, z)
  BY DEF Quiet

LEMMA QuietReplaced ==
  ASSUME NEW cs \in Wire, NEW c \in DOMAIN cs, NEW k,
         k.device = cs[c].device, k.relay = "ready" => cs[c].relay = "ready"
  PROVE  Quiet([cs EXCEPT ![c] = k], cs)
  BY DEF Quiet

LEMMA QuietSent ==
  ASSUME NEW cs \in Seq(Connections(TrueMessages, Has)), NEW d, NEW frames
  PROVE  Quiet(Sent(cs, d, frames), cs)
  <1> SUFFICES ASSUME NEW c \in DOMAIN cs
               PROVE  /\ Sent(cs, d, frames)[c].device = cs[c].device
                      /\ Sent(cs, d, frames)[c].relay = cs[c].relay
    BY DEF Quiet, Sent
  <1> DEFINE k == cs[c]
             sent == [k EXCEPT !.out = k.out \o frames]
  <1>1. k \in Connections(TrueMessages, Has)
    BY Each
  <1> HIDE DEF k
  <1>2. sent.device = k.device /\ sent.relay = k.relay
    BY <1>1, FieldsTyped
  <1>3. Sent(cs, d, frames)[c] \in {k, sent}
    BY DEF Sent, k
  <1> HIDE DEF sent
  <1>4. Sent(cs, d, frames)[c].device = k.device /\ Sent(cs, d, frames)[c].relay = k.relay
    BY <1>2, <1>3
  <1> QED BY <1>4 DEF k

LEMMA QuietClosed ==
  ASSUME NEW cs \in Seq(Connections(TrueMessages, Has)), NEW which
  PROVE  /\ Quiet(ClosedByRelay(cs, which), cs)
         /\ \A c \in DOMAIN cs \cap which : ClosedByRelay(cs, which)[c].relay = "closed"
         /\ \A c \in DOMAIN cs \ which : ClosedByRelay(cs, which)[c] = cs[c]
         /\ DOMAIN ClosedByRelay(cs, which) = DOMAIN cs
  <1>1. ASSUME NEW c \in DOMAIN cs
        PROVE  /\ [cs[c] EXCEPT !.relay = "closed", !.out = <<>>].device = cs[c].device
               /\ [cs[c] EXCEPT !.relay = "closed", !.out = <<>>].relay = "closed"
    <2> DEFINE k == cs[c]
    <2>1. k \in Connections(TrueMessages, Has)
      BY Each
    <2> HIDE DEF k
    <2>2. /\ [k EXCEPT !.relay = "closed", !.out = <<>>].device = k.device
          /\ [k EXCEPT !.relay = "closed", !.out = <<>>].relay = "closed"
      BY <2>1, FieldsTyped
    <2> QED BY <2>2 DEF k
  <1> QED BY <1>1 DEF Quiet, ClosedByRelay

LEMMA QuietDelivered ==
  ASSUME NEW cs \in Seq(Connections(TrueMessages, Has)), NEW c \in DOMAIN cs, NEW ms
  PROVE  Quiet(Delivered(cs, c, ms), cs)
  <1> DEFINE frames == [i \in DOMAIN ms |-> [type |-> "delivery", message |-> ms[i]]]
             k == cs[c]
             got == [k EXCEPT !.in = k.in \o frames]
  <1>1. k \in Connections(TrueMessages, Has)
    BY Each
  <1> HIDE DEF frames
  <1>2. CASE cs[c].cut
    BY <1>2 DEF Delivered, Quiet
  <1>3. CASE ~cs[c].cut
    <2>1. Delivered(cs, c, ms) = [cs EXCEPT ![c] = got]
      BY <1>3 DEF Delivered, frames
    <2> HIDE DEF k
    <2>2. got.device = k.device /\ got.relay = k.relay
      BY <1>1, FieldsTyped
    <2> HIDE DEF got
    <2>3. Quiet([cs EXCEPT ![c] = got], cs)
      BY <2>2, QuietReplaced DEF k, Wire
    <2> QED BY <2>1, <2>3
  <1> QED BY <1>2, <1>3

(* What else changes a connection leaves it to its device, and not ready.   *)
LEMMA QuietUpdates ==
  ASSUME NEW k \in Connections(TrueMessages, Has), NEW out, NEW in
  PROVE  /\ [k EXCEPT !.out = out].device = k.device /\ [k EXCEPT !.out = out].relay = k.relay
         /\ [k EXCEPT !.in = in].device = k.device /\ [k EXCEPT !.in = in].relay = k.relay
         /\ [k EXCEPT !.in = in, !.ready = TRUE].device = k.device
         /\ [k EXCEPT !.in = in, !.ready = TRUE].relay = k.relay
         /\ [k EXCEPT !.relay = "gone", !.out = out].device = k.device
         /\ [k EXCEPT !.relay = "gone", !.out = out].relay = "gone"
         /\ [k EXCEPT !.relay = "ready", !.out = out, !.in = in].device = k.device
         /\ [k EXCEPT !.relay = "ready", !.out = out, !.in = in].relay = "ready"
         /\ [k EXCEPT !.cut = TRUE, !.out = out, !.in = in].device = k.device
         /\ [k EXCEPT !.cut = TRUE, !.out = out, !.in = in].relay = k.relay
         /\ [k EXCEPT !.cut = TRUE, !.relay = "gone", !.out = out, !.in = in].device = k.device
         /\ [k EXCEPT !.cut = TRUE, !.relay = "gone", !.out = out, !.in = in].relay = "gone"
         /\ [k EXCEPT !.open = FALSE, !.ready = FALSE, !.cut = TRUE, !.out = out, !.in = in].device = k.device
         /\ [k EXCEPT !.open = FALSE, !.ready = FALSE, !.cut = TRUE, !.out = out, !.in = in].relay = k.relay
  BY FieldsTyped

LEMMA NetworkQuiet ==
  ASSUME TypeOK, NEW c \in DOMAIN conn, Cut(c) \/ PeerCloses(c) \/ RelayCloses(c)
  PROVE  Quiet(conn', conn)
  <1> DEFINE k == conn[c]
             lost == [k EXCEPT !.cut = TRUE, !.out = <<>>, !.in = <<>>]
             shut == [k EXCEPT !.open = FALSE, !.ready = FALSE, !.cut = TRUE, !.out = <<>>, !.in = <<>>]
             gone == [k EXCEPT !.relay = "gone", !.out = <<>>]
  <1>1. \/ conn' = [conn EXCEPT ![c] = lost]
        \/ conn' = [conn EXCEPT ![c] = shut]
        \/ conn' = [conn EXCEPT ![c] = gone]
    BY DEF Cut, PeerCloses, RelayCloses
  <1>2. k \in Connections(TrueMessages, Has) /\ conn \in Wire
    BY ConnTyped
  <1> HIDE DEF k
  <1>3. /\ lost.device = k.device /\ lost.relay = k.relay
        /\ shut.device = k.device /\ shut.relay = k.relay
        /\ gone.device = k.device /\ gone.relay = "gone"
    BY <1>2, QuietUpdates
  <1> HIDE DEF lost, shut, gone
  <1>4. /\ Quiet([conn EXCEPT ![c] = lost], conn)
        /\ Quiet([conn EXCEPT ![c] = shut], conn)
        /\ Quiet([conn EXCEPT ![c] = gone], conn)
    BY <1>2, <1>3, QuietReplaced DEF k
  <1> QED BY <1>1, <1>4

LEMMA TakenQuiet ==
  ASSUME TypeOK, NEW c \in DOMAIN conn
  PROVE  Quiet([conn EXCEPT ![c].out = Tail(@)], conn)
  <1> DEFINE k == conn[c]
             taken == [k EXCEPT !.out = Tail(k.out)]
  <1>1. k \in Connections(TrueMessages, Has) /\ conn \in Wire
    BY ConnTyped
  <1>2. [conn EXCEPT ![c].out = Tail(@)] = [conn EXCEPT ![c] = taken]
    OBVIOUS
  <1> HIDE DEF k
  <1>3. taken.device = k.device /\ taken.relay = k.relay
    BY <1>1, QuietUpdates
  <1> HIDE DEF taken
  <1>4. Quiet([conn EXCEPT ![c] = taken], conn)
    BY <1>1, <1>3, QuietReplaced DEF k
  <1> QED BY <1>2, <1>4

LEMMA TakesQuiet ==
  ASSUME TypeOK, NEW c \in DOMAIN conn, Takes(c)
  PROVE  Quiet(conn', conn)
  <1> DEFINE m == Head(conn[c].out).message
             taken == [conn EXCEPT ![c].out = Tail(@)]
             online == Online(conn, m.to)
  <1>1. taken \in Seq(Connections(TrueMessages, Has)) /\ DOMAIN taken = DOMAIN conn
    BY FrameTaken DEF Takes, Wire
  <1>2. Quiet(taken, conn)
    BY TakenQuiet
  <1>3. \/ conn' = taken
        \/ conn' = [x \in DOMAIN conn |->
                      IF x \in online THEN Delivered(taken, x, <<m>>)[x] ELSE taken[x]]
        \/ conn' = ClosedByRelay(taken, online)
    BY DEF Takes
  <1> HIDE DEF m, taken, online
  <1>4. Quiet(ClosedByRelay(taken, online), conn)
    <2>1. Quiet(ClosedByRelay(taken, online), taken)
      BY <1>1, QuietClosed
    <2> QED BY <1>2, <2>1, QuietTwice
  <1>5. Quiet([x \in DOMAIN conn |->
                 IF x \in online THEN Delivered(taken, x, <<m>>)[x] ELSE taken[x]], conn)
    <2>1. ASSUME NEW x \in DOMAIN conn
          PROVE  /\ x \in DOMAIN Delivered(taken, x, <<m>>)
                 /\ Quiet(Delivered(taken, x, <<m>>), conn)
      <3>1. ASSUME NEW ms PROVE Quiet(Delivered(taken, x, ms), taken)
        BY <1>1, QuietDelivered
      <3>2. Quiet(Delivered(taken, x, <<m>>), taken)
        BY <3>1
      <3>3. DOMAIN Delivered(taken, x, <<m>>) = DOMAIN taken
        BY DEF Delivered
      <3> QED BY <1>1, <1>2, <3>2, <3>3, QuietTwice
    <2> QED BY <1>1, <1>2, <2>1 DEF Quiet
  <1> QED BY <1>2, <1>3, <1>4, <1>5

LEMMA HungUpQuiet ==
  ASSUME TypeOK
  PROVE  Quiet(Hangup, conn)
  <1>1. ASSUME NEW c \in DOMAIN conn
        PROVE  /\ [conn[c] EXCEPT !.cut = TRUE, !.relay = "gone", !.out = <<>>, !.in = <<>>].device
                    = conn[c].device
               /\ [conn[c] EXCEPT !.cut = TRUE, !.relay = "gone", !.out = <<>>, !.in = <<>>].relay = "gone"
    <2> DEFINE k == conn[c]
    <2>1. k \in Connections(TrueMessages, Has)
      BY ConnTyped
    <2> HIDE DEF k
    <2>2. /\ [k EXCEPT !.cut = TRUE, !.relay = "gone", !.out = <<>>, !.in = <<>>].device = k.device
          /\ [k EXCEPT !.cut = TRUE, !.relay = "gone", !.out = <<>>, !.in = <<>>].relay = "gone"
      BY <2>1, QuietUpdates
    <2> QED BY <2>2 DEF k
  <1> QED BY <1>1 DEF Quiet, Hangup

LEMMA RestartQuiet ==
  ASSUME TypeOK, NEW d \in Devices, Restart(d)
  PROVE  Quiet(conn', conn)
  <1>1. ASSUME NEW c \in DOMAIN conn
        PROVE  conn'[c].device = conn[c].device /\ conn'[c].relay = conn[c].relay
    <2> DEFINE k == conn[c]
               shut == [k EXCEPT !.open = FALSE, !.ready = FALSE, !.cut = TRUE, !.out = <<>>, !.in = <<>>]
    <2>1. k \in Connections(TrueMessages, Has)
      BY ConnTyped
    <2>2. conn'[c] \in {k, shut}
      BY DEF Restart
    <2> HIDE DEF k
    <2>3. shut.device = k.device /\ shut.relay = k.relay
      BY <2>1, QuietUpdates
    <2> HIDE DEF shut
    <2>4. conn'[c].device = k.device /\ conn'[c].relay = k.relay
      BY <2>2, <2>3
    <2> QED BY <2>4 DEF k
  <1>2. DOMAIN conn' = DOMAIN conn
    BY DEF Restart
  <1> QED BY <1>1, <1>2 DEF Quiet

(* A device reads a frame, and may send some.                               *)
LEMMA ReadQuiet ==
  ASSUME TypeOK, NEW c \in DOMAIN conn, BecomesReady(c) \/ Receive(c)
  PROVE  Quiet(conn', conn)
  <1> DEFINE k == conn[c]
             read == [k EXCEPT !.in = Tail(k.in)]
             ready == [k EXCEPT !.in = Tail(k.in), !.ready = TRUE]
  <1>1. k \in Connections(TrueMessages, Has) /\ conn \in Wire
    BY ConnTyped
  <1>2. \/ \E frames : conn' = Sent([conn EXCEPT ![c] = ready], k.device, frames)
        \/ \E frames : conn' = Sent([conn EXCEPT ![c] = read], k.device, frames)
    <2>1. CASE BecomesReady(c)
      BY <2>1 DEF BecomesReady, Transmitted
    <2>2. CASE Receive(c)
      BY <2>2 DEF Receive
    <2> QED BY <2>1, <2>2
  <1>3. k.in # <<>>
    BY DEF BecomesReady, Receive, NextIn
  <1>4. Tail(k.in) \in Seq(InFrames(TrueMessages))
    BY <1>1, <1>3, Fields, TailTyped
  <1>5. read \in Connections(TrueMessages, Has) /\ ready \in Connections(TrueMessages, Has)
    BY <1>4, ConnTyped, HasTyped, Updated
  <1> HIDE DEF k
  <1>6. /\ read.device = k.device /\ read.relay = k.relay
        /\ ready.device = k.device /\ ready.relay = k.relay
    BY <1>1, QuietUpdates
  <1> HIDE DEF read, ready
  <1>7. /\ [conn EXCEPT ![c] = ready] \in Seq(Connections(TrueMessages, Has))
        /\ [conn EXCEPT ![c] = read] \in Seq(Connections(TrueMessages, Has))
    BY <1>1, <1>5, Replaced DEF Wire
  <1>8. Quiet([conn EXCEPT ![c] = ready], conn) /\ Quiet([conn EXCEPT ![c] = read], conn)
    BY <1>1, <1>6, QuietReplaced DEF k
  <1>9. ASSUME NEW d, NEW frames
        PROVE  /\ Quiet(Sent([conn EXCEPT ![c] = ready], d, frames), conn)
               /\ Quiet(Sent([conn EXCEPT ![c] = read], d, frames), conn)
    <2>1. /\ Quiet(Sent([conn EXCEPT ![c] = ready], d, frames), [conn EXCEPT ![c] = ready])
          /\ Quiet(Sent([conn EXCEPT ![c] = read], d, frames), [conn EXCEPT ![c] = read])
      BY <1>7, QuietSent
    <2> QED BY <1>8, <2>1, QuietTwice
  <1> QED BY <1>2, <1>9

(* The newer connection replaces the older: it is the only one ready.       *)
LEMMA AuthenticateAlone ==
  ASSUME TypeOK, Alone(conn), NEW c \in DOMAIN conn, Authenticate(c)
  PROVE  Alone(conn')
  <1> DEFINE d == conn[c].device
             k == conn[c]
             new == [k EXCEPT !.relay = "ready", !.out = Tail(k.out), !.in = <<[type |-> "ready"]>>]
             ready == [conn EXCEPT ![c] = new]
             sent == Delivered(ready, c, Stored(d))
             older == Online(conn, d)
  <1>1. k \in Connections(TrueMessages, Has) /\ conn \in Wire
    BY ConnTyped
  <1>2. conn' = ClosedByRelay(sent, older)
    BY DEF Authenticate
  <1>3. Tail(conn[c].out) \in Seq(OutFrames(TrueMessages, Has[conn[c].device])) /\ conn[c].open
    BY ConnTyped, TailTyped DEF Authenticate
  <1>4. <<[type |-> "ready"]>> \in Seq(InFrames(TrueMessages))
    <2>1. [type |-> "ready"] \in InFrames(TrueMessages)
      BY DEF InFrames
    <2> QED BY <2>1, Singleton
  <1>5. new \in Connections(TrueMessages, Has)
    BY <1>3, <1>4, ConnTyped, HasTyped, Updated
  <1>6. Stored(d) \in Seq(TrueMessages) /\ d \in Devices
    BY ConnTyped, StoredTyped
  <1> HIDE DEF k
  <1>7. new.device = k.device
    BY <1>1, QuietUpdates
  <1> HIDE DEF new
  <1>8. ready \in Seq(Connections(TrueMessages, Has)) /\ DOMAIN ready = DOMAIN conn
    BY <1>1, <1>5, Replaced DEF Wire
  <1>9. \A x \in DOMAIN conn : ready[x].device = conn[x].device /\ (x # c => ready[x] = conn[x])
    BY <1>7 DEF k
  <1> HIDE DEF ready, d
  <1>10. sent \in Seq(Connections(TrueMessages, Has)) /\ DOMAIN sent = DOMAIN ready
    BY <1>6, <1>8, HasTyped, DeliveredTyped
  <1>11. Quiet(sent, ready)
    BY <1>8, QuietDelivered
  <1> HIDE DEF sent, older
  <1>12. /\ Quiet(conn', sent)
         /\ \A x \in DOMAIN sent \cap older : conn'[x].relay = "closed"
         /\ DOMAIN conn' = DOMAIN sent
    BY <1>2, <1>10, QuietClosed
  <1>13. Quiet(conn', ready)
    BY <1>11, <1>12, QuietTwice
  <1>14. ASSUME NEW x \in DOMAIN conn', conn'[x].relay = "ready", x # c
         PROVE  /\ conn'[x].device = conn[x].device /\ conn[x].relay = "ready" /\ x \in DOMAIN conn
                /\ conn[x].device # d
    <2>1. conn'[x].device = conn[x].device /\ conn[x].relay = "ready" /\ x \in DOMAIN conn
      BY <1>8, <1>9, <1>10, <1>12, <1>13, <1>14 DEF Quiet
    <2>2. x \notin older
      BY <1>12, <1>14
    <2> QED BY <2>1, <2>2 DEF older, Online
  <1>15. c \in DOMAIN conn' => conn'[c].device = d
    BY <1>8, <1>9, <1>13 DEF Quiet, d
  <1> QED BY <1>14, <1>15 DEF Alone, Online

LEMMA ConnectAlone ==
  ASSUME TypeOK, Alone(conn), NEW d \in Devices, Connect(d)
  PROVE  Alone(conn')
  <1> DEFINE k == [device |-> d, open |-> TRUE, ready |-> FALSE, relay |-> "opening",
                   cut |-> FALSE, out |-> <<[type |-> "auth"]>>, in |-> <<>>]
  <1>1. conn' = Append(conn, k) /\ k.relay = "opening"
    BY DEF Connect
  <1> HIDE DEF k
  <1>2. /\ DOMAIN conn = 1..Len(conn) /\ Len(conn) \in Nat
        /\ DOMAIN conn' = 1..(Len(conn) + 1)
        /\ \A c \in DOMAIN conn : conn'[c] = conn[c]
        /\ conn'[Len(conn) + 1] = k
    BY <1>1 DEF TypeOK
  <1>3. \A c \in DOMAIN conn' : conn'[c].relay = "ready" => c \in DOMAIN conn /\ conn'[c] = conn[c]
    <2> TAKE c \in DOMAIN conn'
    <2>1. c \in DOMAIN conn \/ c = Len(conn) + 1
      BY <1>2
    <2> QED BY <1>1, <1>2, <2>1
  <1> QED BY <1>3 DEF Alone, Online

LEMMA StepAlone ==
  ASSUME TypeOK, Alone(conn), [Next]_vars
  PROVE  Alone(conn')
  <1>1. conn' = conn => Alone(conn')
    OBVIOUS
  <1>2. CASE UNCHANGED vars
    BY <1>1, <1>2 DEF vars
  <1>3. CASE Network
    BY <1>3, NetworkQuiet, QuietAlone DEF Network
  <1>4. CASE Relay
    <2>1. CASE \E c \in DOMAIN conn : Authenticate(c)
      BY <2>1, AuthenticateAlone
    <2>2. CASE \E c \in DOMAIN conn : Full(c)
      <3>1. PICK c \in DOMAIN conn : conn' = ClosedByRelay(conn, {c})
        BY <2>2 DEF Full
      <3> QED BY <3>1, QuietClosed, QuietAlone DEF TypeOK
    <2>3. CASE \E c \in DOMAIN conn : Takes(c)
      BY <2>3, TakesQuiet, QuietAlone
    <2>4. CASE \E c \in DOMAIN conn : Acked(c)
      BY <2>4, TakenQuiet, QuietAlone DEF Acked
    <2>5. CASE Flush \/ \E d \in Devices : \E i \in DOMAIN inbox[d] : Expire(d, i)
      BY <1>1, <2>5 DEF Flush, Expire
    <2>6. CASE Stop \/ Crash
      <3>1. conn' = Hangup
        BY <2>6 DEF Stop, Crash
      <3> QED BY <3>1, HungUpQuiet, QuietAlone
    <2> QED BY <1>4, <2>1, <2>2, <2>3, <2>4, <2>5, <2>6 DEF Relay
  <1>5. CASE Peers
    <2>1. CASE \E d \in Devices : Connect(d)
      BY <2>1, ConnectAlone
    <2>2. CASE \E d \in Devices : Restart(d)
      BY <2>2, RestartQuiet, QuietAlone
    <2>3. CASE \E c \in DOMAIN conn : BecomesReady(c) \/ Receive(c)
      BY <2>3, ReadQuiet, QuietAlone
    <2>4. CASE \E d, frames : conn' = Sent(conn, d, frames)
      BY <2>4, QuietSent, QuietAlone DEF TypeOK
    <2>5. CASE \E q \in Calls : Ask(q) \/ TimeOut(q) \/ Finish(q)
      <3>1. conn' = conn \/ \E d, frames : conn' = Sent(conn, d, frames)
        BY <2>5 DEF Ask, TimeOut, Finish, Answered
      <3> QED BY <1>1, <2>4, <3>1
    <2>6. CASE \E d \in Devices : \E m \in arrived[d] : Repeated(d, m) \/ TakeAnswer(d, m) \/ TakeRequest(d, m)
      <3>1. conn' = conn \/ \E d, frames : conn' = Sent(conn, d, frames)
        BY <2>6 DEF Repeated, TakeAnswer, TakeRequest, Answered
      <3> QED BY <1>1, <2>4, <3>1
    <2> QED BY <1>5, <2>1, <2>2, <2>3, <2>5, <2>6 DEF Peers
  <1> QED BY <1>2, <1>3, <1>4, <1>5 DEF Next

(* A device has one connection at the relay (Relay.authenticate closes the  *)
(* older ones in the step that makes the newer one ready).                  *)
THEOREM OneEach == Spec => []OneConnection
  <1>1. Init => Alone(conn)
    <2> SUFFICES ASSUME Init PROVE Alone(conn)
      OBVIOUS
    <2>1. DOMAIN conn = {}
      BY DEF Init
    <2> QED BY <2>1 DEF Alone, Online
  <1>2. TypeOK /\ Alone(conn) /\ [Next]_vars => Alone(conn)'
    BY StepAlone DEF Alone
  <1>3. Alone(conn) => OneConnection
    <2> SUFFICES ASSUME Alone(conn), NEW d \in Devices PROVE Cardinality(Online(conn, d)) <= 1
      BY DEF OneConnection
    <2>1. CASE Online(conn, d) = {}
      BY <2>1, FS_EmptySet
    <2>2. CASE Online(conn, d) # {}
      <3>1. PICK c : Online(conn, d) = {c}
        BY <2>2 DEF Alone
      <3> QED BY <3>1, FS_Singleton
    <2> QED BY <2>1, <2>2
  <1> QED BY <1>1, <1>2, <1>3, TypeCorrect, PTL DEF Spec

---------------------------------------------------------------------------
(* What the relay keeps.                                                    *)

Keeps(d) == ToSet(Stored(d)) \subseteq ToSet(Stored(d)')

LEMMA SameKept ==
  ASSUME NEW d, inbox'[d] = inbox[d], held'[d] = held[d]
  PROVE  Keeps(d)
  BY DEF Keeps, Stored

LEMMA StoredNext ==
  ASSUME NEW d, NEW S, inbox'[d] \in Seq(S), held'[d] \in Seq(S)
  PROVE  ToSet(Stored(d)') = ToSet(inbox'[d]) \cup ToSet(held'[d])
  <1>1. Stored(d)' = inbox'[d] \o held'[d]
    BY DEF Stored
  <1> QED BY <1>1, ConcatSets

LEMMA PersistedKeeps ==
  ASSUME TypeOK, NEW e \in Devices, Persisted(e), NEW d \in Devices
  PROVE  Keeps(d)
  <1>1. CASE d # e
    BY <1>1, SameKept DEF Persisted, TypeOK
  <1>2. CASE d = e
    <2>1. inbox'[d] = Stored(d) /\ held'[d] = <<>>
      BY <1>2 DEF Persisted, TypeOK
    <2>2. Stored(d) \in Seq(TrueMessages) /\ <<>> \in Seq(TrueMessages)
      BY StoredTyped, EmptySeq
    <2>3. ToSet(Stored(d)') = ToSet(Stored(d)) \cup ToSet(held'[d])
      BY <2>1, <2>2, StoredNext
    <2> QED BY <2>3 DEF Keeps
  <1> QED BY <1>1, <1>2

LEMMA AppendedKeeps ==
  ASSUME NEW S, NEW s \in Seq(S), NEW m \in S
  PROVE  Append(s, m) \in Seq(S) /\ ToSet(s) \subseteq ToSet(Append(s, m))
  BY AppendProperties, LenProperties DEF ToSet

LEMMA TakesKeeps ==
  ASSUME TypeOK, NEW c \in DOMAIN conn, Takes(c), NEW d \in Devices
  PROVE  Keeps(d)
  <1> DEFINE m == Head(conn[c].out).message
  <1>1. m \in TrueMessages /\ m.to \in Devices
    BY NextSent DEF Takes
  <1>2. \/ inbox' = [inbox EXCEPT ![m.to] = Append(@, m)] /\ held' = held
        \/ held' = [held EXCEPT ![m.to] = Append(@, m)] /\ inbox' = inbox
    BY DEF Takes
  <1> HIDE DEF m
  <1>3. CASE d # m.to
    BY <1>2, <1>3, SameKept DEF TypeOK
  <1>4. CASE d = m.to
    <2>1. /\ inbox'[d] \in {inbox[d], Append(inbox[d], m)}
          /\ held'[d] \in {held[d], Append(held[d], m)}
      BY <1>2, <1>4 DEF TypeOK
    <2>2. /\ inbox[d] \in Seq(TrueMessages) /\ held[d] \in Seq(TrueMessages)
          /\ ToSet(Stored(d)) = ToSet(inbox[d]) \cup ToSet(held[d])
      BY StoredTyped
    <2>3. /\ inbox'[d] \in Seq(TrueMessages) /\ ToSet(inbox[d]) \subseteq ToSet(inbox'[d])
          /\ held'[d] \in Seq(TrueMessages) /\ ToSet(held[d]) \subseteq ToSet(held'[d])
      BY <1>1, <2>1, <2>2, AppendedKeeps
    <2>4. ToSet(Stored(d)') = ToSet(inbox'[d]) \cup ToSet(held'[d])
      BY <2>3, StoredNext
    <2> QED BY <2>2, <2>3, <2>4 DEF Keeps
  <1> QED BY <1>3, <1>4

(* Only what the device has is acknowledged: that is part of TypeOK.        *)
LEMMA AckedKeeps ==
  ASSUME TypeOK, NEW c \in DOMAIN conn, Acked(c), NEW d \in Devices, NEW m \in ToSet(Stored(d))
  PROVE  m \in ToSet(Stored(d)') \/ m \in arrived[d] \cup seen[d]
  <1> DEFINE a == Head(conn[c].out).message
             e == conn[c].device
  <1>1. held' = [held EXCEPT ![e] = Without(@, a)] /\ inbox' = [inbox EXCEPT ![e] = Without(@, a)]
    BY DEF Acked
  <1>2. e \in Devices /\ a \in Has[e]
    <2>1. Head(conn[c].out) \in OutFrames(TrueMessages, Has[e]) /\ Head(conn[c].out).type = "ack"
      BY ConnTyped, TailTyped DEF Acked, NextFrame
    <2> QED BY <2>1, ConnTyped DEF OutFrames
  <1> HIDE DEF a, e
  <1>3. CASE d # e
    <2>1. Keeps(d)
      BY <1>1, <1>3, SameKept DEF TypeOK
    <2> QED BY <2>1 DEF Keeps
  <1>4. CASE d = e /\ m = a
    BY <1>2, <1>4 DEF Has
  <1>5. CASE d = e /\ m # a
    <2>1. inbox'[d] = Without(inbox[d], a) /\ held'[d] = Without(held[d], a)
      BY <1>1, <1>5 DEF TypeOK
    <2>2. /\ inbox[d] \in Seq(TrueMessages) /\ held[d] \in Seq(TrueMessages)
          /\ m \in ToSet(inbox[d]) \cup ToSet(held[d])
      BY StoredTyped
    <2>3. /\ inbox'[d] \in Seq(TrueMessages) /\ held'[d] \in Seq(TrueMessages)
          /\ \A x \in ToSet(inbox[d]) : x # a => x \in ToSet(inbox'[d])
          /\ \A x \in ToSet(held[d]) : x # a => x \in ToSet(held'[d])
      BY <2>1, <2>2, WithoutTyped
    <2>4. ToSet(Stored(d)') = ToSet(inbox'[d]) \cup ToSet(held'[d])
      BY <2>3, StoredNext
    <2> QED BY <1>5, <2>2, <2>3, <2>4
  <1> QED BY <1>3, <1>4, <1>5

(* The two parts of what was held have all of it.                           *)
LEMMA TwoParts ==
  ASSUME NEW S, NEW s \in Seq(S), NEW n \in Nat, n <= Len(s)
  PROVE  /\ SubSeq(s, 1, n) \in Seq(S) /\ SubSeq(s, n + 1, Len(s)) \in Seq(S)
         /\ ToSet(s) \subseteq ToSet(SubSeq(s, 1, n)) \cup ToSet(SubSeq(s, n + 1, Len(s)))
  <1>1. DOMAIN s = 1..Len(s) /\ Len(s) \in Nat
    BY LenProperties
  <1>2. n + 1 \in 1..(Len(s) + 1) /\ Len(s) \in 0..Len(s) /\ 1 \in 1..(Len(s) + 1) /\ n \in 0..Len(s)
    BY <1>1
  <1>3. /\ SubSeq(s, 1, n) \in Seq(S)
        /\ Len(SubSeq(s, 1, n)) = n
        /\ \A i \in 1..n : SubSeq(s, 1, n)[i] = s[i]
    <2>1. /\ SubSeq(s, 1, n) \in Seq(S)
          /\ Len(SubSeq(s, 1, n)) = IF 1 <= n THEN n - 1 + 1 ELSE 0
          /\ \A i \in 1..(n - 1 + 1) : SubSeq(s, 1, n)[i] = s[1 + i - 1]
      BY <1>2, PartTyped
    <2> QED BY <2>1
  <1>4. /\ SubSeq(s, n + 1, Len(s)) \in Seq(S)
        /\ Len(SubSeq(s, n + 1, Len(s))) = Len(s) - n
        /\ \A i \in 1..(Len(s) - n) : SubSeq(s, n + 1, Len(s))[i] = s[n + i]
    <2> DEFINE rest == SubSeq(s, n + 1, Len(s))
    <2>1. /\ rest \in Seq(S)
          /\ Len(rest) = IF n + 1 <= Len(s) THEN Len(s) - (n + 1) + 1 ELSE 0
          /\ \A i \in 1..(Len(s) - (n + 1) + 1) : rest[i] = s[n + 1 + i - 1]
      BY <1>2, PartTyped
    <2> HIDE DEF rest
    <2>2. Len(rest) = Len(s) - n
      <3>1. \A l \in Nat : n <= l => (IF n + 1 <= l THEN l - (n + 1) + 1 ELSE 0) = l - n
        OBVIOUS
      <3> QED BY <1>1, <2>1, <3>1
    <2>3. ASSUME NEW i \in 1..(Len(s) - n) PROVE rest[i] = s[n + i]
      <3>1. i \in 1..(Len(s) - (n + 1) + 1) /\ n + 1 + i - 1 = n + i
        BY <1>1
      <3> QED BY <2>1, <3>1
    <2> QED BY <2>1, <2>2, <2>3 DEF rest
  <1> DEFINE first == SubSeq(s, 1, n)
             rest == SubSeq(s, n + 1, Len(s))
  <1>5. /\ DOMAIN first = 1..n /\ \A i \in 1..n : first[i] = s[i]
        /\ DOMAIN rest = 1..(Len(s) - n) /\ \A i \in 1..(Len(s) - n) : rest[i] = s[n + i]
    BY <1>3, <1>4, LenProperties
  <1> HIDE DEF first, rest
  <1>6. ASSUME NEW x \in ToSet(s) PROVE x \in ToSet(first) \cup ToSet(rest)
    <2>1. PICK i \in 1..Len(s) : s[i] = x
      BY <1>1 DEF ToSet
    <2>2. CASE i <= n
      <3>1. i \in DOMAIN first /\ first[i] = x
        BY <1>5, <2>1, <2>2
      <3> QED BY <3>1 DEF ToSet
    <2>3. CASE i > n
      <3>1. i - n \in DOMAIN rest /\ rest[i - n] = x
        BY <1>1, <1>5, <2>1, <2>3
      <3> QED BY <3>1 DEF ToSet
    <2> QED BY <1>1, <2>1, <2>2, <2>3
  <1> QED BY <1>3, <1>4, <1>6 DEF first, rest

LEMMA FlushKeeps ==
  ASSUME TypeOK, Flush, NEW d \in Devices
  PROVE  Keeps(d)
  <1>1. PICK n \in [Devices -> 0..InboxLimit] :
          /\ \A e \in Devices : n[e] <= Len(held[e])
          /\ inbox' = [e \in Devices |-> inbox[e] \o SubSeq(held[e], 1, n[e])]
          /\ held' = [e \in Devices |-> SubSeq(held[e], n[e] + 1, Len(held[e]))]
    BY DEF Flush
  <1> DEFINE first == SubSeq(held[d], 1, n[d])
             rest == SubSeq(held[d], n[d] + 1, Len(held[d]))
  <1>2. inbox'[d] = inbox[d] \o first /\ held'[d] = rest
    BY <1>1
  <1>3. n[d] \in Nat /\ n[d] <= Len(held[d])
    BY <1>1, BridgeConstants
  <1>4. /\ inbox[d] \in Seq(TrueMessages) /\ held[d] \in Seq(TrueMessages)
        /\ ToSet(Stored(d)) = ToSet(inbox[d]) \cup ToSet(held[d])
    BY StoredTyped
  <1>5. /\ first \in Seq(TrueMessages) /\ rest \in Seq(TrueMessages)
        /\ ToSet(held[d]) \subseteq ToSet(first) \cup ToSet(rest)
    BY <1>3, <1>4, TwoParts
  <1> HIDE DEF first, rest
  <1>6. inbox'[d] \in Seq(TrueMessages) /\ ToSet(inbox'[d]) = ToSet(inbox[d]) \cup ToSet(first)
    BY <1>2, <1>4, <1>5, ConcatSets
  <1>7. ToSet(Stored(d)') = ToSet(inbox'[d]) \cup ToSet(held'[d])
    BY <1>2, <1>5, <1>6, StoredNext
  <1> QED BY <1>2, <1>4, <1>5, <1>6, <1>7 DEF Keeps

LEMMA StopKeeps ==
  ASSUME TypeOK, Stop, NEW d \in Devices
  PROVE  Keeps(d)
  <1>1. inbox'[d] = Stored(d) /\ held'[d] = <<>>
    BY DEF Stop
  <1>2. Stored(d) \in Seq(TrueMessages) /\ <<>> \in Seq(TrueMessages)
    BY StoredTyped, EmptySeq
  <1>3. ToSet(Stored(d)') = ToSet(Stored(d)) \cup ToSet(held'[d])
    BY <1>1, <1>2, StoredNext
  <1> QED BY <1>3 DEF Keeps

Kept(d, m) ==
  \/ m \in ToSet(Stored(d)') \/ m \in arrived[d] \cup seen[d]
  \/ Crash \/ \E i \in DOMAIN inbox[d] : Expire(d, i)

LEMMA StepKeeps ==
  ASSUME TypeOK, [Next]_vars, NEW d \in Devices, NEW m \in ToSet(Stored(d))
  PROVE  Kept(d, m)
  <1>1. Keeps(d) => Kept(d, m)
    BY DEF Keeps, Kept
  <1>2. UNCHANGED <<held, inbox>> => Kept(d, m)
    BY <1>1, SameKept
  <1>3. CASE UNCHANGED vars
    BY <1>2, <1>3 DEF vars
  <1>4. CASE Network
    <2>1. PICK c \in DOMAIN conn : Cut(c) \/ PeerCloses(c) \/ RelayCloses(c)
      BY <1>4 DEF Network
    <2>2. UNCHANGED <<held, inbox>> \/ Persisted(conn[c].device)
      BY <2>1 DEF Cut, PeerCloses, RelayCloses
    <2> QED BY <1>1, <1>2, <2>2, ConnTyped, PersistedKeeps
  <1>5. CASE Relay
    <2>1. CASE \E c \in DOMAIN conn : Authenticate(c)
      <3>1. PICK c \in DOMAIN conn : Persisted(conn[c].device)
        BY <2>1 DEF Authenticate
      <3> QED BY <1>1, <3>1, ConnTyped, PersistedKeeps
    <2>2. CASE \E c \in DOMAIN conn : Full(c)
      BY <1>2, <2>2 DEF Full
    <2>3. CASE \E c \in DOMAIN conn : Takes(c)
      BY <1>1, <2>3, TakesKeeps
    <2>4. CASE \E c \in DOMAIN conn : Acked(c)
      BY <2>4, AckedKeeps DEF Kept
    <2>5. CASE Flush
      BY <1>1, <2>5, FlushKeeps
    <2>6. CASE \E e \in Devices : \E i \in DOMAIN inbox[e] : Expire(e, i)
      <3>1. PICK e \in Devices : \E i \in DOMAIN inbox[e] : Expire(e, i)
        BY <2>6
      <3>2. CASE d = e
        BY <3>1, <3>2 DEF Kept
      <3>3. CASE d # e
        <4>1. inbox'[d] = inbox[d] /\ held'[d] = held[d]
          BY <3>1, <3>3 DEF Expire, TypeOK
        <4> QED BY <1>1, <4>1, SameKept
      <3> QED BY <3>2, <3>3
    <2>7. CASE Stop
      BY <1>1, <2>7, StopKeeps
    <2>8. CASE Crash
      BY <2>8 DEF Kept
    <2> QED BY <1>5, <2>1, <2>2, <2>3, <2>4, <2>5, <2>6, <2>7, <2>8 DEF Relay
  <1>6. CASE Peers
    <2>1. UNCHANGED <<held, inbox>>
      BY <1>6 DEF Peers, Connect, Restart, Ask, TimeOut, Finish, BecomesReady, Receive,
                  Repeated, TakeAnswer, TakeRequest
    <2> QED BY <1>2, <2>1
  <1> QED BY <1>3, <1>4, <1>5, <1>6 DEF Next

(* A message the relay took is kept until its device has it: only an        *)
(* acknowledgment, its expiry or a crash lose it (Relay.handle, closed,     *)
(* scheduleFlush, close).                                                   *)
THEOREM KeptForDevice == Spec => KeptUntilAcked
  <1>1. TypeOK /\ [Next]_vars =>
          [\A d \in Devices : \A m \in ToSet(Stored(d)) :
             \/ m \in ToSet(Stored(d)') \/ m \in arrived[d] \cup seen[d]
             \/ Crash \/ \E i \in DOMAIN inbox[d] : Expire(d, i)]_vars
    BY StepKeeps DEF Kept
  <1> QED BY <1>1, TypeCorrect, PTL DEF Spec, KeptUntilAcked

---------------------------------------------------------------------------
(* Recovery of an asker.  What a connection is sending; a connection is     *)
(* steady when it is ready only after the relay said so, first of all, and  *)
(* what comes down it is for its device; and what becomes of a connection   *)
(* in a step, in which the messages `gone' leave it.                        *)

MessagesIn(out) == {out[i].message : i \in {j \in DOMAIN out : out[j].type = "send"}}
Sending(k) == MessagesIn(k.out)

For(d) == {m \in Messages : m.to = d}

Steady(k) ==
  /\ k.in \in Seq(InFrames(For(k.device)))
  /\ k.ready => k.open
  /\ k.relay = "opening" => ~k.ready /\ k.in = <<>> /\ Sending(k) = {}
  /\ ~k.ready /\ k.in # <<>> => Head(k.in).type = "ready"
  /\ k.relay = "ready" /\ ~k.cut /\ ~k.ready => k.in # <<>>

Alive(k) == ~k.cut /\ k.relay \in {"opening", "ready"}

Follows(k, n, gone) ==
  /\ n.device = k.device
  /\ k.cut => n.cut
  /\ n.open => k.open
  /\ k.ready => n.ready \/ n.cut
  /\ n.relay = "opening" => k.relay = "opening"
  /\ n.relay = "ready" => k.relay \in {"opening", "ready"}
  /\ Steady(k) => Steady(n)
  /\ Steady(k) /\ Alive(n) => Sending(k) \subseteq Sending(n) \cup gone

Firm(k, n) == n.ready => k.ready

LEMMA FollowsTwice ==
  ASSUME NEW k, NEW l, NEW n, NEW gone, NEW lost,
         Follows(k, l, gone), Follows(l, n, lost)
  PROVE  Follows(k, n, gone \cup lost)
  <1>1. Alive(n) => Alive(l)
    BY DEF Follows, Alive
  <1>2. Steady(k) => Steady(l) /\ Steady(n)
    BY DEF Follows
  <1>3. Steady(k) /\ Alive(n) => Sending(k) \subseteq Sending(n) \cup gone \cup lost
    BY <1>1, <1>2 DEF Follows
  <1>4. /\ n.device = k.device
        /\ k.cut => n.cut
        /\ n.open => k.open
        /\ k.ready => n.ready \/ n.cut
        /\ n.relay = "opening" => k.relay = "opening"
        /\ n.relay = "ready" => k.relay \in {"opening", "ready"}
    BY DEF Follows
  <1> QED BY <1>2, <1>3, <1>4 DEF Follows

LEMMA FollowsSelf == \A k : Follows(k, k, {}) /\ Firm(k, k)
  BY DEF Follows, Firm

LEMMA NothingSent == MessagesIn(<<>>) = {}
  <1>1. DOMAIN <<>> = {}
    OBVIOUS
  <1> QED BY <1>1 DEF MessagesIn

LEMMA SentAlso ==
  ASSUME NEW S, NEW out \in Seq(S), NEW frames \in Seq(S)
  PROVE  /\ MessagesIn(out) \subseteq MessagesIn(out \o frames)
         /\ MessagesIn(frames) \subseteq MessagesIn(out \o frames)
  <1> DEFINE both == out \o frames
  <1>1. /\ DOMAIN out = 1..Len(out) /\ Len(out) \in Nat
        /\ DOMAIN frames = 1..Len(frames) /\ Len(frames) \in Nat
        /\ DOMAIN both = 1..(Len(out) + Len(frames))
        /\ \A i \in 1..(Len(out) + Len(frames)) :
             both[i] = IF i <= Len(out) THEN out[i] ELSE frames[i - Len(out)]
    BY ConcatProperties, LenProperties
  <1> HIDE DEF both
  <1>2. ASSUME NEW m \in MessagesIn(out) PROVE m \in MessagesIn(both)
    <2>1. PICK i \in DOMAIN out : out[i].type = "send" /\ m = out[i].message
      BY DEF MessagesIn
    <2>2. i \in DOMAIN both /\ both[i] = out[i]
      BY <1>1
    <2> QED BY <2>1, <2>2 DEF MessagesIn
  <1>3. ASSUME NEW m \in MessagesIn(frames) PROVE m \in MessagesIn(both)
    <2>1. PICK i \in DOMAIN frames : frames[i].type = "send" /\ m = frames[i].message
      BY DEF MessagesIn
    <2> DEFINE j == i + Len(out)
    <2>2. j \in DOMAIN both /\ both[j] = frames[i]
      BY <1>1
    <2> HIDE DEF j
    <2> QED BY <2>1, <2>2 DEF MessagesIn
  <1> QED BY <1>2, <1>3 DEF both

First(out) == IF Head(out).type = "send" THEN {Head(out).message} ELSE {}

LEMMA SentBut ==
  ASSUME NEW S, NEW out \in Seq(S), out # <<>>
  PROVE  MessagesIn(out) \subseteq MessagesIn(Tail(out)) \cup First(out)
  <1> DEFINE rest == Tail(out)
  <1>1. /\ DOMAIN out = 1..Len(out) /\ Len(out) \in Nat /\ Head(out) = out[1]
        /\ DOMAIN rest = 1..(Len(out) - 1)
        /\ \A i \in 1..(Len(out) - 1) : rest[i] = out[i + 1]
    BY HeadTailProperties, LenProperties
  <1> HIDE DEF rest
  <1>2. ASSUME NEW m \in MessagesIn(out) PROVE m \in MessagesIn(rest) \cup First(out)
    <2>1. PICK i \in DOMAIN out : out[i].type = "send" /\ m = out[i].message
      BY DEF MessagesIn
    <2>2. CASE i = 1
      BY <1>1, <2>1, <2>2 DEF First
    <2>3. CASE i # 1
      <3> DEFINE j == i - 1
      <3>1. j \in DOMAIN rest /\ rest[j] = out[i]
        BY <1>1, <2>3
      <3> HIDE DEF j
      <3> QED BY <2>1, <3>1 DEF MessagesIn
    <2> QED BY <2>2, <2>3
  <1> QED BY <1>2 DEF rest

(* What the steps do to one connection.                                     *)

LEMMA FollowsDown ==
  ASSUME NEW T, NEW A, NEW k \in Connections(T, A)
  PROVE  /\ LET n == [k EXCEPT !.cut = TRUE, !.out = <<>>, !.in = <<>>]
            IN  Follows(k, n, {}) /\ Firm(k, n)
         /\ LET n == [k EXCEPT !.open = FALSE, !.ready = FALSE, !.cut = TRUE, !.out = <<>>, !.in = <<>>]
            IN  Follows(k, n, {}) /\ Firm(k, n)
         /\ LET n == [k EXCEPT !.relay = "gone", !.out = <<>>]
            IN  Follows(k, n, {}) /\ Firm(k, n)
         /\ LET n == [k EXCEPT !.relay = "closed", !.out = <<>>]
            IN  Follows(k, n, {}) /\ Firm(k, n)
         /\ LET n == [k EXCEPT !.cut = TRUE, !.relay = "gone", !.out = <<>>, !.in = <<>>]
            IN  Follows(k, n, {}) /\ Firm(k, n)
  <1>1. /\ k \in [device : Devices, open : BOOLEAN, ready : BOOLEAN, cut : BOOLEAN,
                relay : {"opening", "ready", "closed", "gone"},
                out : Seq(OutFrames(T, T)), in : Seq(InFrames(T))]
    BY FieldsTyped
  <1>2. ASSUME NEW n, n.device = k.device, n.out = <<>>,
               n.open \in BOOLEAN, n.ready \in BOOLEAN, n.cut \in BOOLEAN, k.cut => n.cut,
               \/ n.ready = k.ready /\ n.open = k.open
               \/ ~n.ready /\ ~n.open /\ n.cut /\ n.in = <<>>,
               n.in = k.in \/ n.in = <<>>,
               n.relay \in {"closed", "gone"} \/ (n.relay = k.relay /\ n.cut)
        PROVE  Follows(k, n, {}) /\ Firm(k, n)
    <2>1. Sending(n) = {}
      BY <1>2, NothingSent DEF Sending
    <2>2. ~Alive(n)
      BY <1>2 DEF Alive
    <2>3. Steady(k) => Steady(n)
      <3> SUFFICES ASSUME Steady(k) PROVE Steady(n)
        OBVIOUS
      <3>1. n.ready => n.open
        BY <1>1, <1>2 DEF Steady
      <3>2. n.relay = "opening" => ~n.ready /\ n.in = <<>>
        BY <1>1, <1>2 DEF Steady
      <3>3. ~n.ready /\ n.in # <<>> => Head(n.in).type = "ready"
        BY <1>1, <1>2 DEF Steady
      <3>4. ~(n.relay = "ready" /\ ~n.cut)
        BY <1>2
      <3>5. n.in \in Seq(InFrames(For(n.device)))
        BY <1>2, EmptySeq DEF Steady
      <3> QED BY <2>1, <3>1, <3>2, <3>3, <3>4, <3>5 DEF Steady
    <2> QED BY <1>1, <1>2, <2>2, <2>3 DEF Follows, Firm
  <1>3. LET n == [k EXCEPT !.cut = TRUE, !.out = <<>>, !.in = <<>>]
        IN  Follows(k, n, {}) /\ Firm(k, n)
    <2> DEFINE n == [k EXCEPT !.cut = TRUE, !.out = <<>>, !.in = <<>>]
    <2>1. /\ n.device = k.device /\ n.out = <<>> /\ n.in = <<>> /\ n.relay = k.relay
          /\ n.ready = k.ready /\ n.open = k.open /\ n.cut
          /\ n.open \in BOOLEAN /\ n.ready \in BOOLEAN /\ n.cut \in BOOLEAN
      BY <1>1
    <2> HIDE DEF n
    <2>2. Follows(k, n, {}) /\ Firm(k, n)
      BY <1>2, <2>1
    <2> QED BY <2>2 DEF n
  <1>4. LET n == [k EXCEPT !.open = FALSE, !.ready = FALSE, !.cut = TRUE, !.out = <<>>, !.in = <<>>]
        IN  Follows(k, n, {}) /\ Firm(k, n)
    <2> DEFINE n == [k EXCEPT !.open = FALSE, !.ready = FALSE, !.cut = TRUE, !.out = <<>>, !.in = <<>>]
    <2>1. /\ n.device = k.device /\ n.out = <<>> /\ n.in = <<>> /\ n.relay = k.relay
          /\ ~n.ready /\ ~n.open /\ n.cut
          /\ n.open \in BOOLEAN /\ n.ready \in BOOLEAN /\ n.cut \in BOOLEAN
      BY <1>1
    <2> HIDE DEF n
    <2>2. Follows(k, n, {}) /\ Firm(k, n)
      BY <1>2, <2>1
    <2> QED BY <2>2 DEF n
  <1>5. LET n == [k EXCEPT !.relay = "gone", !.out = <<>>]
        IN  Follows(k, n, {}) /\ Firm(k, n)
    <2> DEFINE n == [k EXCEPT !.relay = "gone", !.out = <<>>]
    <2>1. /\ n.device = k.device /\ n.out = <<>> /\ n.in = k.in /\ n.relay = "gone"
          /\ n.ready = k.ready /\ n.open = k.open /\ n.cut = k.cut
          /\ n.open \in BOOLEAN /\ n.ready \in BOOLEAN /\ n.cut \in BOOLEAN
      BY <1>1
    <2> HIDE DEF n
    <2>2. Follows(k, n, {}) /\ Firm(k, n)
      BY <1>2, <2>1
    <2> QED BY <2>2 DEF n
  <1>6. LET n == [k EXCEPT !.relay = "closed", !.out = <<>>]
        IN  Follows(k, n, {}) /\ Firm(k, n)
    <2> DEFINE n == [k EXCEPT !.relay = "closed", !.out = <<>>]
    <2>1. /\ n.device = k.device /\ n.out = <<>> /\ n.in = k.in /\ n.relay = "closed"
          /\ n.ready = k.ready /\ n.open = k.open /\ n.cut = k.cut
          /\ n.open \in BOOLEAN /\ n.ready \in BOOLEAN /\ n.cut \in BOOLEAN
      BY <1>1
    <2> HIDE DEF n
    <2>2. Follows(k, n, {}) /\ Firm(k, n)
      BY <1>2, <2>1
    <2> QED BY <2>2 DEF n
  <1>7. LET n == [k EXCEPT !.cut = TRUE, !.relay = "gone", !.out = <<>>, !.in = <<>>]
        IN  Follows(k, n, {}) /\ Firm(k, n)
    <2> DEFINE n == [k EXCEPT !.cut = TRUE, !.relay = "gone", !.out = <<>>, !.in = <<>>]
    <2>1. /\ n.device = k.device /\ n.out = <<>> /\ n.in = <<>> /\ n.relay = "gone"
          /\ n.ready = k.ready /\ n.open = k.open /\ n.cut
          /\ n.open \in BOOLEAN /\ n.ready \in BOOLEAN /\ n.cut \in BOOLEAN
      BY <1>1
    <2> HIDE DEF n
    <2>2. Follows(k, n, {}) /\ Firm(k, n)
      BY <1>2, <2>1
    <2> QED BY <2>2 DEF n
  <1> QED BY <1>3, <1>4, <1>5, <1>6, <1>7

(* A connection the relay authenticates, one it takes a frame from, one it  *)
(* sends down; and a device that reads a frame, and one that sends.         *)

LEMMA FollowsAuthenticated ==
  ASSUME NEW T, NEW A, NEW k \in Connections(T, A), k.relay = "opening", NEW out
  PROVE  LET n == [k EXCEPT !.relay = "ready", !.out = out, !.in = <<[type |-> "ready"]>>]
         IN  Follows(k, n, {}) /\ Firm(k, n) /\ n.relay = "ready"
  <1> DEFINE first == <<[type |-> "ready"]>>
             n == [k EXCEPT !.relay = "ready", !.out = out, !.in = first]
  <1>1. /\ first # <<>> /\ Head(first).type = "ready"
        /\ first \in Seq(InFrames(For(k.device)))
    <2>1. [type |-> "ready"] \in InFrames(For(k.device))
      BY DEF InFrames
    <2> QED BY <2>1, Singleton
  <1> HIDE DEF first
  <1>2. /\ n.device = k.device /\ n.in = first /\ n.relay = "ready"
        /\ n.ready = k.ready /\ n.open = k.open /\ n.cut = k.cut
    BY FieldsTyped
  <1> HIDE DEF n
  <1>3. Steady(k) => Steady(n) /\ Sending(k) = {}
    BY <1>1, <1>2 DEF Steady
  <1>4. Follows(k, n, {}) /\ Firm(k, n) /\ n.relay = "ready"
    BY <1>2, <1>3 DEF Follows, Firm
  <1> QED BY <1>4 DEF n, first

LEMMA FollowsTaken ==
  ASSUME NEW T, NEW A, NEW k \in Connections(T, A), k.relay = "ready", k.out # <<>>
  PROVE  LET n == [k EXCEPT !.out = Tail(k.out)]
         IN  Follows(k, n, First(k.out)) /\ Firm(k, n) /\ n.relay = "ready"
  <1> DEFINE rest == Tail(k.out)
             n == [k EXCEPT !.out = rest]
  <1>1. MessagesIn(k.out) \subseteq MessagesIn(rest) \cup First(k.out)
    BY Fields, SentBut
  <1> HIDE DEF rest
  <1>2. /\ n.device = k.device /\ n.in = k.in /\ n.relay = k.relay /\ n.out = rest
        /\ n.ready = k.ready /\ n.open = k.open /\ n.cut = k.cut
    BY FieldsTyped
  <1> HIDE DEF n
  <1>3. Steady(k) => Steady(n)
    BY <1>2 DEF Steady
  <1>4. Follows(k, n, First(k.out)) /\ Firm(k, n) /\ n.relay = "ready"
    BY <1>1, <1>2, <1>3 DEF Follows, Firm, Sending
  <1> QED BY <1>4 DEF n, rest

LEMMA FollowsDelivered ==
  ASSUME NEW T, NEW A, NEW k \in Connections(T, A), k.relay = "ready", ~k.cut,
         NEW frames \in Seq(InFrames(T)), frames \in Seq(InFrames(For(k.device)))
  PROVE  LET n == [k EXCEPT !.in = k.in \o frames]
         IN  Follows(k, n, {}) /\ Firm(k, n)
  <1> DEFINE both == k.in \o frames
             n == [k EXCEPT !.in = both]
  <1>1. k.in # <<>> => both # <<>> /\ Head(both) = Head(k.in)
    <2>1. k.in \in Seq(InFrames(T))
      BY Fields
    <2>2. /\ Len(both) = Len(k.in) + Len(frames) /\ both \in Seq(InFrames(T))
          /\ k.in # <<>> => Len(k.in) > 0 /\ both[1] = k.in[1]
          /\ Len(k.in) \in Nat /\ Len(frames) \in Nat
      BY <2>1, ConcatProperties, LenProperties, EmptySeq
    <2> HIDE DEF both
    <2>3. k.in # <<>> => both # <<>>
      BY <2>2
    <2> QED BY <2>1, <2>2, <2>3, HeadTailProperties
  <1>6. Steady(k) => both \in Seq(InFrames(For(k.device)))
    BY ConcatProperties DEF Steady
  <1> HIDE DEF both
  <1>2. /\ n.device = k.device /\ n.in = both /\ n.relay = k.relay /\ n.out = k.out
        /\ n.ready = k.ready /\ n.open = k.open /\ n.cut = k.cut
    BY FieldsTyped
  <1> HIDE DEF n
  <1>3. Sending(n) = Sending(k)
    BY <1>2 DEF Sending
  <1>4. Steady(k) => Steady(n)
    BY <1>1, <1>2, <1>3, <1>6 DEF Steady
  <1>5. Follows(k, n, {}) /\ Firm(k, n)
    BY <1>2, <1>3, <1>4 DEF Follows, Firm
  <1> QED BY <1>5 DEF n, both

OutSet(k, s) == [k EXCEPT !.out = s]
InSet(k, s) == [k EXCEPT !.in = s]
ReadySet(k, s) == [k EXCEPT !.in = s, !.ready = TRUE]

LEMMA FieldsSet ==
  ASSUME NEW T, NEW A, NEW k \in Connections(T, A), NEW s
  PROVE  /\ /\ OutSet(k, s).device = k.device /\ OutSet(k, s).in = k.in
            /\ OutSet(k, s).relay = k.relay /\ OutSet(k, s).out = s
            /\ OutSet(k, s).ready = k.ready /\ OutSet(k, s).open = k.open /\ OutSet(k, s).cut = k.cut
         /\ /\ InSet(k, s).device = k.device /\ InSet(k, s).in = s
            /\ InSet(k, s).relay = k.relay /\ InSet(k, s).out = k.out
            /\ InSet(k, s).ready = k.ready /\ InSet(k, s).open = k.open /\ InSet(k, s).cut = k.cut
         /\ /\ ReadySet(k, s).device = k.device /\ ReadySet(k, s).in = s
            /\ ReadySet(k, s).relay = k.relay /\ ReadySet(k, s).out = k.out
            /\ ReadySet(k, s).ready /\ ReadySet(k, s).open = k.open /\ ReadySet(k, s).cut = k.cut
  BY FieldsTyped DEF OutSet, InSet, ReadySet

LEMMA FollowsRead ==
  ASSUME NEW T, NEW A, NEW k \in Connections(T, A), k.open, k.in # <<>>
  PROVE  /\ \A n : n = InSet(k, Tail(k.in)) /\ Head(k.in).type = "delivery"
                    => Follows(k, n, {}) /\ Firm(k, n)
         /\ \A n : n = ReadySet(k, Tail(k.in))
                    => Follows(k, n, {}) /\ n.ready /\ n.open /\ n.cut = k.cut /\ n.relay = k.relay
  <1>1. PICK rest : rest = Tail(k.in)
    OBVIOUS
  <1>4. Steady(k) => rest \in Seq(InFrames(For(k.device)))
    BY <1>1, TailTyped DEF Steady
  <1>2. ASSUME NEW n, n = InSet(k, rest), Head(k.in).type = "delivery"
        PROVE  Follows(k, n, {}) /\ Firm(k, n)
    <2>1. /\ n.device = k.device /\ n.relay = k.relay /\ n.out = k.out
          /\ n.ready = k.ready /\ n.open /\ n.cut = k.cut
      BY <1>2, FieldsSet
    <2>2. Sending(n) = Sending(k)
      BY <2>1 DEF Sending
    <2>3. Steady(k) => Steady(n)
      BY <1>2, <1>4, <2>1, <2>2, FieldsSet DEF Steady
    <2> QED BY <2>1, <2>2, <2>3 DEF Follows, Firm
  <1>3. ASSUME NEW n, n = ReadySet(k, rest)
        PROVE  Follows(k, n, {}) /\ n.ready /\ n.open /\ n.cut = k.cut /\ n.relay = k.relay
    <2>1. /\ n.device = k.device /\ n.relay = k.relay /\ n.out = k.out
          /\ n.ready /\ n.open /\ n.cut = k.cut
      BY <1>3, FieldsSet
    <2>2. Sending(n) = Sending(k)
      BY <2>1 DEF Sending
    <2>3. Steady(k) => Steady(n)
      BY <1>3, <1>4, <2>1, <2>2, FieldsSet DEF Steady
    <2> QED BY <2>1, <2>2, <2>3 DEF Follows
  <1> QED BY <1>1, <1>2, <1>3

LEMMA FollowsSent ==
  ASSUME NEW T, NEW A, NEW k \in Connections(T, A), k.ready,
         NEW S, k.out \in Seq(S), NEW frames \in Seq(S),
         NEW n, n = OutSet(k, k.out \o frames)
  PROVE  Follows(k, n, {}) /\ Firm(k, n) /\ MessagesIn(frames) \subseteq Sending(n)
  <1>1. PICK both : both = k.out \o frames
    OBVIOUS
  <1>2. MessagesIn(k.out) \subseteq MessagesIn(both) /\ MessagesIn(frames) \subseteq MessagesIn(both)
    BY <1>1, SentAlso
  <1>3. n = OutSet(k, both)
    BY <1>1
  <1>4. /\ n.device = k.device /\ n.in = k.in /\ n.relay = k.relay /\ n.out = both
        /\ n.ready /\ n.open = k.open /\ n.cut = k.cut
    BY <1>3, FieldsSet
  <1>5. Steady(k) => Steady(n)
    BY <1>4 DEF Steady
  <1> QED BY <1>2, <1>4, <1>5 DEF Follows, Firm, Sending

(* All connections at once.                                                 *)

FollowAll(new, old, gone) ==
  DOMAIN new = DOMAIN old /\ \A c \in DOMAIN old : Follows(old[c], new[c], gone)
FirmAll(new, old) == \A c \in DOMAIN old : Firm(old[c], new[c])

LEMMA AllTwice ==
  ASSUME NEW x, NEW y, NEW z, NEW gone, FollowAll(y, x, gone), FollowAll(z, y, {})
  PROVE  FollowAll(z, x, gone) /\ (FirmAll(y, x) /\ FirmAll(z, y) => FirmAll(z, x))
  <1>1. ASSUME NEW c \in DOMAIN x PROVE Follows(x[c], z[c], gone)
    <2>1. Follows(x[c], y[c], gone) /\ Follows(y[c], z[c], {})
      BY DEF FollowAll
    <2>2. Follows(x[c], z[c], gone \cup {})
      BY <2>1, FollowsTwice
    <2>3. gone \cup {} = gone
      OBVIOUS
    <2> QED BY <2>2, <2>3
  <1>2. DOMAIN z = DOMAIN x /\ DOMAIN y = DOMAIN x
    BY DEF FollowAll
  <1>3. FirmAll(y, x) /\ FirmAll(z, y) => FirmAll(z, x)
    BY <1>2 DEF FirmAll, Firm
  <1> QED BY <1>1, <1>2, <1>3 DEF FollowAll

LEMMA AllSelf == \A cs : FollowAll(cs, cs, {}) /\ FirmAll(cs, cs)
  BY FollowsSelf DEF FollowAll, FirmAll

LEMMA AllReplaced ==
  ASSUME NEW T, NEW A, NEW cs \in Seq(Connections(T, A)), NEW c \in DOMAIN cs, NEW k, NEW gone,
         Follows(cs[c], k, gone)
  PROVE  /\ FollowAll([cs EXCEPT ![c] = k], cs, gone)
         /\ Firm(cs[c], k) => FirmAll([cs EXCEPT ![c] = k], cs)
  <1>1. ASSUME NEW l PROVE Follows(l, l, gone) /\ Firm(l, l)
    BY DEF Follows, Firm
  <1>2. PICK new : new = [cs EXCEPT ![c] = k]
    OBVIOUS
  <1>3. DOMAIN new = DOMAIN cs /\ \A x \in DOMAIN cs : new[x] = IF x = c THEN k ELSE cs[x]
    BY <1>2
  <1>4. FollowAll(new, cs, gone) /\ (Firm(cs[c], k) => FirmAll(new, cs))
    BY <1>1, <1>3 DEF FollowAll, FirmAll
  <1> QED BY <1>2, <1>4

LEMMA AllSent ==
  ASSUME NEW T, NEW A, \A x \in Devices : A[x] \subseteq T,
         NEW cs \in Seq(Connections(T, A)), NEW d, NEW frames \in Seq(OutFrames(T, T))
  PROVE  /\ FollowAll(Sent(cs, d, frames), cs, {}) /\ FirmAll(Sent(cs, d, frames), cs)
         /\ \A c \in DOMAIN cs :
              cs[c].device = d /\ cs[c].open /\ cs[c].ready /\ ~cs[c].cut
              => MessagesIn(frames) \subseteq Sending(Sent(cs, d, frames)[c])
  <1>1. PICK new : new = Sent(cs, d, frames)
    OBVIOUS
  <1>2. ASSUME NEW c \in DOMAIN cs
        PROVE  /\ Follows(cs[c], new[c], {}) /\ Firm(cs[c], new[c])
               /\ cs[c].device = d /\ cs[c].open /\ cs[c].ready /\ ~cs[c].cut
                  => MessagesIn(frames) \subseteq Sending(new[c])
    <2>1. PICK k : k = cs[c]
      OBVIOUS
    <2>2. k \in Connections(T, A) /\ k.out \in Seq(OutFrames(T, T))
      <3>1. k \in Connections(T, A)
        BY <2>1, Each
      <3> QED BY <3>1, FieldsTyped
    <2>3. CASE k.device = d /\ k.open /\ k.ready /\ ~k.cut
      <3>1. new[c] = OutSet(k, k.out \o frames)
        BY <1>1, <2>1, <2>3 DEF Sent, OutSet
      <3>2. Follows(k, new[c], {}) /\ Firm(k, new[c]) /\ MessagesIn(frames) \subseteq Sending(new[c])
        BY <2>2, <2>3, <3>1, FollowsSent
      <3> QED BY <2>1, <3>2
    <2>4. CASE ~(k.device = d /\ k.open /\ k.ready /\ ~k.cut)
      <3>1. new[c] = k
        BY <1>1, <2>1, <2>4 DEF Sent
      <3> QED BY <2>1, <2>4, <3>1, FollowsSelf
    <2> QED BY <2>3, <2>4
  <1>3. DOMAIN new = DOMAIN cs
    BY <1>1 DEF Sent
  <1> QED BY <1>1, <1>2, <1>3 DEF FollowAll, FirmAll

LEMMA AllClosed ==
  ASSUME NEW T, NEW A, NEW cs \in Seq(Connections(T, A)), NEW which
  PROVE  FollowAll(ClosedByRelay(cs, which), cs, {}) /\ FirmAll(ClosedByRelay(cs, which), cs)
  <1>1. PICK new : new = ClosedByRelay(cs, which)
    OBVIOUS
  <1>2. ASSUME NEW c \in DOMAIN cs
        PROVE  Follows(cs[c], new[c], {}) /\ Firm(cs[c], new[c])
    <2>1. PICK k : k = cs[c]
      OBVIOUS
    <2>2. k \in Connections(T, A)
      BY <2>1, Each
    <2>3. PICK n : n = [k EXCEPT !.relay = "closed", !.out = <<>>]
      OBVIOUS
    <2>4. Follows(k, n, {}) /\ Firm(k, n)
      BY <2>2, <2>3, FollowsDown
    <2>5. new[c] \in {k, n}
      BY <1>1, <2>1, <2>3 DEF ClosedByRelay
    <2> QED BY <2>1, <2>4, <2>5, FollowsSelf
  <1>3. DOMAIN new = DOMAIN cs
    BY <1>1 DEF ClosedByRelay
  <1> QED BY <1>1, <1>2, <1>3 DEF FollowAll, FirmAll

LEMMA AllDelivered ==
  ASSUME NEW T, NEW A, NEW cs \in Seq(Connections(T, A)), NEW c \in DOMAIN cs,
         cs[c].relay = "ready", NEW ms \in Seq(T), ms \in Seq(For(cs[c].device))
  PROVE  FollowAll(Delivered(cs, c, ms), cs, {}) /\ FirmAll(Delivered(cs, c, ms), cs)
  <1>1. CASE cs[c].cut
    BY <1>1, AllSelf DEF Delivered
  <1>2. CASE ~cs[c].cut
    <2>1. PICK frames : frames = [i \in DOMAIN ms |-> [type |-> "delivery", message |-> ms[i]]]
      OBVIOUS
    <2>2. ASSUME NEW U, ms \in Seq(U) PROVE frames \in Seq(InFrames(U))
      <3>1. \A i \in DOMAIN ms : [type |-> "delivery", message |-> ms[i]] \in InFrames(U)
        BY <2>2, Each DEF InFrames
      <3>2. frames \in [DOMAIN ms -> InFrames(U)]
        BY <2>1, <3>1
      <3> QED BY <2>2, <3>2, SameShape
    <2>3. PICK k : k = cs[c]
      OBVIOUS
    <2>4. k \in Connections(T, A) /\ k.relay = "ready" /\ ~k.cut
      BY <1>2, <2>3, Each
    <2>5. PICK n : n = [k EXCEPT !.in = k.in \o frames]
      OBVIOUS
    <2>6. Follows(k, n, {}) /\ Firm(k, n)
      <3>1. frames \in Seq(InFrames(T)) /\ frames \in Seq(InFrames(For(k.device)))
        BY <2>2, <2>3
      <3> QED BY <2>4, <2>5, <3>1, FollowsDelivered
    <2>7. Delivered(cs, c, ms) = [cs EXCEPT ![c] = n]
      BY <1>2, <2>1, <2>3, <2>5 DEF Delivered
    <2>8. Follows(cs[c], n, {}) /\ Firm(cs[c], n)
      BY <2>3, <2>6
    <2>9. FollowAll([cs EXCEPT ![c] = n], cs, {}) /\ FirmAll([cs EXCEPT ![c] = n], cs)
      BY <2>8, AllReplaced
    <2> QED BY <2>7, <2>9
  <1> QED BY <1>1, <1>2

(* The steps.  What the relay keeps for a device, and what the device       *)
(* received, is for it.                                                     *)
Addressed ==
  \A d \in Devices : /\ inbox[d] \in Seq(For(d)) /\ held[d] \in Seq(For(d))
                     /\ arrived[d] \subseteq For(d)

LEMMA NetworkFollows ==
  ASSUME TypeOK, NEW c \in DOMAIN conn, Cut(c) \/ PeerCloses(c) \/ RelayCloses(c)
  PROVE  FollowAll(conn', conn, {}) /\ FirmAll(conn', conn)
  <1>1. PICK k : k = conn[c]
    OBVIOUS
  <1>2. k \in Connections(TrueMessages, Has) /\ conn \in Seq(Connections(TrueMessages, Has))
    BY <1>1, ConnTyped DEF Wire
  <1>3. PICK lost : lost = [k EXCEPT !.cut = TRUE, !.out = <<>>, !.in = <<>>]
    OBVIOUS
  <1>4. PICK shut : shut = [k EXCEPT !.open = FALSE, !.ready = FALSE, !.cut = TRUE, !.out = <<>>, !.in = <<>>]
    OBVIOUS
  <1>5. PICK gone : gone = [k EXCEPT !.relay = "gone", !.out = <<>>]
    OBVIOUS
  <1>6. \E n \in {lost, shut, gone} : conn' = [conn EXCEPT ![c] = n]
    BY <1>1, <1>3, <1>4, <1>5 DEF Cut, PeerCloses, RelayCloses
  <1>7. PICK n : n \in {lost, shut, gone} /\ conn' = [conn EXCEPT ![c] = n]
    BY <1>6
  <1>8. Follows(conn[c], n, {}) /\ Firm(conn[c], n)
    <2>1. Follows(k, lost, {}) /\ Firm(k, lost)
      BY <1>2, <1>3, FollowsDown
    <2>2. Follows(k, shut, {}) /\ Firm(k, shut)
      BY <1>2, <1>4, FollowsDown
    <2>3. Follows(k, gone, {}) /\ Firm(k, gone)
      BY <1>2, <1>5, FollowsDown
    <2> QED BY <1>1, <1>7, <2>1, <2>2, <2>3
  <1>9. FollowAll([conn EXCEPT ![c] = n], conn, {}) /\ FirmAll([conn EXCEPT ![c] = n], conn)
    BY <1>2, <1>8, AllReplaced
  <1> QED BY <1>7, <1>9

LEMMA AuthenticateFollows ==
  ASSUME TypeOK, Addressed, NEW c \in DOMAIN conn, Authenticate(c)
  PROVE  FollowAll(conn', conn, {}) /\ FirmAll(conn', conn)
  <1>1. PICK k : k = conn[c]
    OBVIOUS
  <1>2. /\ k \in Connections(TrueMessages, Has) /\ conn \in Seq(Connections(TrueMessages, Has))
        /\ k.relay = "opening" /\ k.device \in Devices
    BY <1>1, ConnTyped DEF Wire, Authenticate
  <1>3. PICK n : n = [k EXCEPT !.relay = "ready", !.out = Tail(k.out), !.in = <<[type |-> "ready"]>>]
    OBVIOUS
  <1>4. n \in Connections(TrueMessages, Has)
    <2>1. Tail(conn[c].out) \in Seq(OutFrames(TrueMessages, Has[conn[c].device])) /\ conn[c].open
      BY ConnTyped, TailTyped DEF Authenticate
    <2>2. [type |-> "ready"] \in InFrames(TrueMessages)
      BY DEF InFrames
    <2>3. <<[type |-> "ready"]>> \in Seq(InFrames(TrueMessages))
      BY <2>2, Singleton
    <2> QED BY <1>1, <1>2, <1>3, <2>1, <2>3, HasTyped, Updated
  <1>5. Follows(conn[c], n, {}) /\ Firm(conn[c], n) /\ n.relay = "ready"
    <2>1. PICK rest : rest = Tail(k.out)
      OBVIOUS
    <2>2. n = [k EXCEPT !.relay = "ready", !.out = rest, !.in = <<[type |-> "ready"]>>]
      BY <1>3, <2>1
    <2>3. Follows(k, n, {}) /\ Firm(k, n) /\ n.relay = "ready"
      BY <1>2, <2>2, FollowsAuthenticated
    <2> QED BY <1>1, <2>3
  <1>6. PICK ready : ready = [conn EXCEPT ![c] = n]
    OBVIOUS
  <1>7. FollowAll(ready, conn, {}) /\ FirmAll(ready, conn)
    <2>1. FollowAll([conn EXCEPT ![c] = n], conn, {}) /\ FirmAll([conn EXCEPT ![c] = n], conn)
      BY <1>2, <1>5, AllReplaced
    <2> QED BY <1>6, <2>1
  <1>8. ready \in Seq(Connections(TrueMessages, Has)) /\ DOMAIN ready = DOMAIN conn /\ ready[c] = n
    BY <1>2, <1>4, <1>6, Replaced
  <1>9. PICK sent : sent = Delivered(ready, c, Stored(k.device))
    OBVIOUS
  <1>10. Stored(k.device) \in Seq(TrueMessages) /\ Stored(k.device) \in Seq(For(ready[c].device))
    <2>1. ready[c].device = k.device
      BY <1>5, <1>1, <1>8 DEF Follows
    <2>2. Stored(k.device) \in Seq(For(k.device))
      BY <1>2, ConcatSets DEF Addressed, Stored
    <2> QED BY <1>2, <2>1, <2>2, StoredTyped
  <1>11. FollowAll(sent, ready, {}) /\ FirmAll(sent, ready)
    BY <1>5, <1>8, <1>9, <1>10, AllDelivered
  <1>12. sent \in Seq(Connections(TrueMessages, Has))
    BY <1>8, <1>9, <1>10, HasTyped, DeliveredTyped
  <1>13. conn' = ClosedByRelay(sent, Online(conn, k.device))
    BY <1>1, <1>3, <1>6, <1>9 DEF Authenticate
  <1>14. FollowAll(conn', sent, {}) /\ FirmAll(conn', sent)
    BY <1>12, <1>13, AllClosed
  <1>15. FollowAll(sent, conn, {}) /\ FirmAll(sent, conn)
    BY <1>7, <1>11, AllTwice
  <1> QED BY <1>14, <1>15, AllTwice

LEMMA TakenFollows ==
  ASSUME TypeOK, NEW c \in DOMAIN conn, NextFrame(c)
  PROVE  LET taken == [conn EXCEPT ![c].out = Tail(@)]
         IN  FollowAll(taken, conn, First(conn[c].out)) /\ FirmAll(taken, conn)
  <1>1. PICK k : k = conn[c]
    OBVIOUS
  <1>2. /\ k \in Connections(TrueMessages, Has) /\ conn \in Seq(Connections(TrueMessages, Has))
        /\ k.relay = "ready" /\ k.out # <<>>
    BY <1>1, ConnTyped DEF Wire, NextFrame
  <1>3. PICK n : n = [k EXCEPT !.out = Tail(k.out)]
    OBVIOUS
  <1>4. Follows(conn[c], n, First(conn[c].out)) /\ Firm(conn[c], n)
    BY <1>1, <1>2, <1>3, FollowsTaken
  <1>5. FollowAll([conn EXCEPT ![c] = n], conn, First(conn[c].out)) /\ FirmAll([conn EXCEPT ![c] = n], conn)
    BY <1>2, <1>4, AllReplaced
  <1> QED BY <1>1, <1>3, <1>5

LEMMA TakesFollows ==
  ASSUME TypeOK, NEW c \in DOMAIN conn, Takes(c)
  PROVE  FollowAll(conn', conn, {Head(conn[c].out).message}) /\ FirmAll(conn', conn)
  <1>1. PICK m : m = Head(conn[c].out).message
    OBVIOUS
  <1>2. PICK taken : taken = [conn EXCEPT ![c].out = Tail(@)]
    OBVIOUS
  <1>3. FollowAll(taken, conn, {m}) /\ FirmAll(taken, conn)
    <2>1. First(conn[c].out) = {m}
      BY <1>1 DEF First, Takes
    <2>2. FollowAll(taken, conn, First(conn[c].out)) /\ FirmAll(taken, conn)
      BY <1>2, TakenFollows DEF Takes
    <2> QED BY <2>1, <2>2
  <1>4. taken \in Seq(Connections(TrueMessages, Has)) /\ DOMAIN taken = DOMAIN conn
    BY <1>2, FrameTaken DEF Takes, Wire
  <1>5. m \in TrueMessages
    BY <1>1, NextSent DEF Takes
  <1>6. PICK online : online = Online(conn, m.to)
    OBVIOUS
  <1>7. \/ conn' = taken
        \/ conn' = [x \in DOMAIN conn |->
                      IF x \in online THEN Delivered(taken, x, <<m>>)[x] ELSE taken[x]]
        \/ conn' = ClosedByRelay(taken, online)
    BY <1>1, <1>2, <1>6 DEF Takes
  <1>8. CASE conn' = taken
    BY <1>1, <1>3, <1>8
  <1>9. CASE conn' = ClosedByRelay(taken, online)
    <2>1. FollowAll(conn', taken, {}) /\ FirmAll(conn', taken)
      BY <1>4, <1>9, AllClosed
    <2> QED BY <1>1, <1>3, <2>1, AllTwice
  <1>10. CASE conn' = [x \in DOMAIN conn |->
                        IF x \in online THEN Delivered(taken, x, <<m>>)[x] ELSE taken[x]]
    <2>1. ASSUME NEW x \in DOMAIN conn
          PROVE  Follows(taken[x], conn'[x], {}) /\ Firm(taken[x], conn'[x])
      <3>1. CASE x \in online
        <4>1. taken[x].relay = "ready"
          <5>1. conn[x].relay = "ready"
            BY <1>6, <3>1 DEF Online
          <5>2. taken[x].relay = conn[x].relay
            <6>1. PICK k : k = conn[x]
              OBVIOUS
            <6>2. k \in Connections(TrueMessages, Has)
              BY <6>1, ConnTyped
            <6>3. taken[x] \in {k, OutSet(k, Tail(k.out))}
              BY <1>2, <6>1, ConnTyped DEF OutSet
            <6>4. OutSet(k, Tail(k.out)).relay = k.relay
              BY <6>2, FieldsSet
            <6> QED BY <6>1, <6>3, <6>4
          <5> QED BY <5>1, <5>2
        <4>2. PICK ms : ms = <<m>>
          OBVIOUS
        <4>3. ms \in Seq(TrueMessages) /\ ms \in Seq(For(taken[x].device))
          <5>1. m \in For(m.to)
            BY <1>5 DEF For, TrueMessages
          <5>2. taken[x].device = conn[x].device
            BY <1>3 DEF FollowAll, Follows
          <5>3. conn[x].device = m.to
            BY <1>6, <3>1 DEF Online
          <5> QED BY <1>5, <4>2, <5>1, <5>2, <5>3, Singleton
        <4>4. FollowAll(Delivered(taken, x, ms), taken, {}) /\ FirmAll(Delivered(taken, x, ms), taken)
          BY <1>4, <4>1, <4>3, AllDelivered
        <4>5. conn'[x] = Delivered(taken, x, ms)[x]
          BY <1>10, <3>1, <4>2
        <4> QED BY <1>4, <4>4, <4>5 DEF FollowAll, FirmAll
      <3>2. CASE x \notin online
        BY <1>10, <3>2, FollowsSelf
      <3> QED BY <3>1, <3>2
    <2>2. DOMAIN conn' = DOMAIN taken
      BY <1>4, <1>10
    <2>3. FollowAll(conn', taken, {}) /\ FirmAll(conn', taken)
      BY <1>4, <2>1, <2>2 DEF FollowAll, FirmAll
    <2> QED BY <1>1, <1>3, <2>3, AllTwice
  <1> QED BY <1>7, <1>8, <1>9, <1>10

LEMMA HangupFollows ==
  ASSUME TypeOK
  PROVE  FollowAll(Hangup, conn, {}) /\ FirmAll(Hangup, conn)
  <1>1. ASSUME NEW c \in DOMAIN conn
        PROVE  Follows(conn[c], Hangup[c], {}) /\ Firm(conn[c], Hangup[c])
    <2>1. PICK k : k = conn[c]
      OBVIOUS
    <2>2. k \in Connections(TrueMessages, Has)
      BY <2>1, ConnTyped
    <2>3. PICK n : n = [k EXCEPT !.cut = TRUE, !.relay = "gone", !.out = <<>>, !.in = <<>>]
      OBVIOUS
    <2>4. Follows(k, n, {}) /\ Firm(k, n)
      BY <2>2, <2>3, FollowsDown
    <2>5. Hangup[c] = n
      BY <2>1, <2>3 DEF Hangup
    <2> QED BY <2>1, <2>4, <2>5
  <1>2. DOMAIN Hangup = DOMAIN conn
    BY DEF Hangup
  <1> QED BY <1>1, <1>2 DEF FollowAll, FirmAll

LEMMA RestartFollows ==
  ASSUME TypeOK, NEW d \in Devices, Restart(d)
  PROVE  FollowAll(conn', conn, {}) /\ FirmAll(conn', conn)
  <1>1. ASSUME NEW c \in DOMAIN conn
        PROVE  Follows(conn[c], conn'[c], {}) /\ Firm(conn[c], conn'[c])
    <2>1. PICK k : k = conn[c]
      OBVIOUS
    <2>2. k \in Connections(TrueMessages, Has)
      BY <2>1, ConnTyped
    <2>3. PICK shut : shut = [k EXCEPT !.open = FALSE, !.ready = FALSE, !.cut = TRUE, !.out = <<>>, !.in = <<>>]
      OBVIOUS
    <2>4. Follows(k, shut, {}) /\ Firm(k, shut)
      BY <2>2, <2>3, FollowsDown
    <2>5. conn'[c] \in {k, shut}
      BY <2>1, <2>3 DEF Restart
    <2> QED BY <2>1, <2>4, <2>5, FollowsSelf
  <1>2. DOMAIN conn' = DOMAIN conn
    BY DEF Restart
  <1> QED BY <1>1, <1>2 DEF FollowAll, FirmAll

LEMMA ConnMessages ==
  ASSUME TypeOK
  PROVE  /\ \A x \in Devices : Has[x] \subseteq Messages
         /\ Seq(Connections(TrueMessages, Has)) \subseteq Seq(Connections(Messages, Has))
         /\ conn \in Seq(Connections(Messages, Has))
  <1>1. TrueMessages \subseteq Messages
    BY DEF TrueMessages
  <1>2. Seq(Connections(TrueMessages, Has)) \subseteq Seq(Connections(Messages, Has))
    BY <1>1, ConnectionsGrow
  <1> QED BY <1>1, <1>2, HasTyped DEF TypeOK

(* What is sent over the connection of a device that works.                 *)
Reaches(cs, d, ms) ==
  \A x \in DOMAIN cs :
    cs[x].device = d /\ cs[x].open /\ cs[x].ready /\ ~cs[x].cut => ms \subseteq Sending(cs[x])

LEMMA SentFollows ==
  ASSUME TypeOK, NEW cs \in Seq(Connections(Messages, Has)), NEW d,
         NEW frames \in Seq(OutFrames(Messages, Messages)), NEW new, new = Sent(cs, d, frames)
  PROVE  /\ FollowAll(new, cs, {}) /\ FirmAll(new, cs)
         /\ Reaches(new, d, MessagesIn(frames))
  <1>1. /\ FollowAll(new, cs, {}) /\ FirmAll(new, cs)
        /\ \A c \in DOMAIN cs :
              cs[c].device = d /\ cs[c].open /\ cs[c].ready /\ ~cs[c].cut
              => MessagesIn(frames) \subseteq Sending(new[c])
    BY ConnMessages, AllSent
  <1>2. ASSUME NEW x \in DOMAIN new,
               new[x].device = d, new[x].open, new[x].ready, ~new[x].cut
        PROVE  MessagesIn(frames) \subseteq Sending(new[x])
    <2>1. x \in DOMAIN cs /\ Follows(cs[x], new[x], {}) /\ Firm(cs[x], new[x])
      BY <1>1 DEF FollowAll, FirmAll
    <2>2. cs[x].device = d /\ cs[x].open /\ cs[x].ready /\ ~cs[x].cut
      BY <1>2, <2>1 DEF Follows, Firm
    <2> QED BY <1>1, <2>1, <2>2
  <1> QED BY <1>1, <1>2 DEF Reaches

LEMMA SendFramesOf ==
  ASSUME NEW ms \in Seq(Messages)
  PROVE  /\ SendFrames(ms) \in Seq(OutFrames(Messages, Messages))
         /\ \A m \in ToSet(ms) : m \in MessagesIn(SendFrames(ms))
  <1>1. SendFrames(ms) \in Seq(OutFrames(Messages, Messages))
    BY SendFramesTyped
  <1>2. ASSUME NEW m \in ToSet(ms) PROVE m \in MessagesIn(SendFrames(ms))
    <2>1. PICK i \in DOMAIN ms : ms[i] = m
      BY DEF ToSet
    <2>2. i \in DOMAIN SendFrames(ms) /\ SendFrames(ms)[i].type = "send" /\ SendFrames(ms)[i].message = m
      BY <2>1 DEF SendFrames, SendFrame
    <2> QED BY <2>2 DEF MessagesIn
  <1> QED BY <1>1, <1>2

LEMMA SetToSeqAll ==
  ASSUME NEW S, IsFiniteSet(S)
  PROVE  S \subseteq ToSet(SetToSeq(S))
  <1>1. PICK n : n = Cardinality(S)
    OBVIOUS
  <1>2. n \in Nat /\ ExistsBijection(1..n, S)
    BY <1>1, FS_CardinalityType
  <1>3. \E f \in [1..n -> S] : IsInjective(f)
    BY <1>2 DEF ExistsBijection, Bijection, Injection
  <1>4. PICK f : f = SetToSeq(S)
    OBVIOUS
  <1>5. f \in [1..n -> S] /\ IsInjective(f)
    BY <1>1, <1>3, <1>4 DEF SetToSeq
  <1>6. f \in Injection(1..n, S)
    BY <1>5 DEF Injection
  <1>7. IsFiniteSet(1..n) /\ Cardinality(1..n) = n
    <2>1. Cardinality(1..n) = IF 1 > n THEN 0 ELSE n - 1 + 1
      BY <1>2, FS_Interval
    <2> QED BY <1>2, <2>1, FS_Interval
  <1>8. f \in Surjection(1..n, S)
    BY <1>1, <1>6, <1>7, FS_Injection
  <1>9. \A x \in S : \E i \in 1..n : f[i] = x
    BY <1>8 DEF Surjection
  <1> QED BY <1>4, <1>5, <1>9 DEF ToSet

(* Everyone asked for is in the requests; an answer is in the responses.    *)
LEMMA RequestsFrames ==
  ASSUME TypeOK, NEW qs \in SUBSET Calls
  PROVE  /\ SendFrames(Requests(qs)) \in Seq(OutFrames(Messages, Messages))
         /\ \A q \in qs : Message("request", q, count.sent[q].request + 1, "nothing")
                            \in MessagesIn(SendFrames(Requests(qs)))
  <1>1. Requests(qs) \in Seq(Messages)
    <2>1. \A m \in Messages : NewRequest(m, qs) => m \in Messages
      OBVIOUS
    <2> QED BY <2>1, RequestsTyped
  <1> DEFINE new(q) == Message("request", q, count.sent[q].request + 1, "nothing")
             ms == {new(q) : q \in qs}
             f == [q \in qs |-> new(q)]
  <1>2. IsFiniteSet(qs)
    BY BridgeConstants, FS_Subset
  <1>3. f \in Surjection(qs, ms)
    BY DEF Surjection
  <1>4. IsFiniteSet(ms)
    <2> HIDE DEF f, ms
    <2> QED BY <1>2, <1>3, FS_Surjection
  <1>5. ms \subseteq ToSet(Requests(qs))
    <2>1. Requests(qs) = SetToSeq(ms)
      BY DEF Requests
    <2> HIDE DEF ms
    <2> QED BY <1>4, <2>1, SetToSeqAll
  <1>6. \A q \in qs : new(q) \in ToSet(Requests(qs))
    BY <1>5
  <1> HIDE DEF new
  <1>7. /\ SendFrames(Requests(qs)) \in Seq(OutFrames(Messages, Messages))
        /\ \A q \in qs : new(q) \in MessagesIn(SendFrames(Requests(qs)))
    BY <1>1, <1>6, SendFramesOf
  <1> QED BY <1>7 DEF new

LEMMA ResponsesFrames ==
  ASSUME TypeOK, NEW q \in Calls, NEW result \in Ends, NEW n \in Nat
  PROVE  /\ SendFrames(Responses(q, result, n)) \in Seq(OutFrames(Messages, Messages))
         /\ n > 0 => Message("response", q, count.sent[q].response + 1, result)
                       \in MessagesIn(SendFrames(Responses(q, result, n)))
  <1>1. Responses(q, result, n) \in Seq(Messages)
    <2>1. \A m \in Messages : NewAnswer(m, q, result, n) => m \in Messages
      OBVIOUS
    <2> QED BY <2>1, ResponsesTyped
  <1>2. n > 0 => Message("response", q, count.sent[q].response + 1, result) \in ToSet(Responses(q, result, n))
    <2> SUFFICES ASSUME n > 0
                 PROVE  Message("response", q, count.sent[q].response + 1, result)
                          \in ToSet(Responses(q, result, n))
      OBVIOUS
    <2>1. 1 \in 1..n
      OBVIOUS
    <2>2. /\ 1 \in DOMAIN Responses(q, result, n)
          /\ Responses(q, result, n)[1] = Message("response", q, count.sent[q].response + 1, result)
      BY <2>1 DEF Responses
    <2> QED BY <2>2 DEF ToSet
  <1> QED BY <1>1, <1>2, SendFramesOf

LEMMA ReadFollows ==
  ASSUME TypeOK, NEW c \in DOMAIN conn, BecomesReady(c) \/ Receive(c)
  PROVE  /\ FollowAll(conn', conn, {})
         /\ Receive(c) => FirmAll(conn', conn)
         /\ \A x \in DOMAIN conn : x # c => Firm(conn[x], conn'[x])
         /\ BecomesReady(c) =>
              LET d == conn[c].device
              IN  Reaches(conn', d, MessagesIn(SendFrames(Requests(pending[d]))))
  <1>1. PICK k : k = conn[c]
    OBVIOUS
  <1>2. /\ k \in Connections(TrueMessages, Has) /\ k.device \in Devices
        /\ conn \in Seq(Connections(TrueMessages, Has))
        /\ k.open /\ k.in # <<>>
    BY <1>1, ConnTyped DEF Wire, BecomesReady, Receive, NextIn
  <1>3. Tail(k.in) \in Seq(InFrames(TrueMessages))
    BY <1>2, Fields, TailTyped
  <1>4. CASE Receive(c)
    <2>1. PICK n : n = InSet(k, Tail(k.in))
      OBVIOUS
    <2>2. Follows(conn[c], n, {}) /\ Firm(conn[c], n)
      BY <1>1, <1>2, <1>4, <2>1, FollowsRead DEF Receive
    <2>3. n \in Connections(TrueMessages, Has)
      BY <1>2, <1>3, <2>1, HasTyped, Fields, Updated DEF InSet
    <2>4. PICK read : read = [conn EXCEPT ![c] = n]
      OBVIOUS
    <2>5. read \in Seq(Connections(TrueMessages, Has))
      BY <1>2, <2>3, <2>4, Replaced
    <2>6. FollowAll(read, conn, {}) /\ FirmAll(read, conn)
      <3>1. /\ FollowAll([conn EXCEPT ![c] = n], conn, {})
            /\ FirmAll([conn EXCEPT ![c] = n], conn)
        BY <1>2, <2>2, AllReplaced
      <3> QED BY <2>4, <3>1
    <2>7. PICK m : m = Head(conn[c].in).message
      OBVIOUS
    <2>8. <<[type |-> "ack", message |-> m]>> \in Seq(OutFrames(Messages, Messages))
      <3>1. m \in Messages
        BY <1>4, <2>7, NextDelivered DEF Receive, TrueMessages
      <3>2. [type |-> "ack", message |-> m] \in OutFrames(Messages, Messages)
        BY <3>1 DEF OutFrames
      <3> QED BY <3>2, Singleton
    <2>9. conn' = Sent(read, k.device, <<[type |-> "ack", message |-> m]>>)
      BY <1>1, <1>4, <2>1, <2>4, <2>7 DEF Receive, InSet
    <2>10. PICK frames : frames = <<[type |-> "ack", message |-> m]>>
      OBVIOUS
    <2>11. FollowAll(conn', read, {}) /\ FirmAll(conn', read)
      BY <2>5, <2>8, <2>9, <2>10, ConnMessages, SentFollows
    <2>12. FollowAll(conn', conn, {}) /\ FirmAll(conn', conn)
      BY <2>6, <2>11, AllTwice
    <2>13. ~BecomesReady(c)
      BY <1>4 DEF Receive, BecomesReady
    <2> QED BY <2>12, <2>13 DEF FirmAll
  <1>5. CASE BecomesReady(c)
    <2>1. PICK n : n = ReadySet(k, Tail(k.in))
      OBVIOUS
    <2>2. Follows(conn[c], n, {})
      BY <1>1, <1>2, <2>1, FollowsRead
    <2>3. n \in Connections(TrueMessages, Has)
      BY <1>2, <1>3, <2>1, HasTyped, Fields, Updated DEF ReadySet
    <2>4. PICK ready : ready = [conn EXCEPT ![c] = n]
      OBVIOUS
    <2>5. ready \in Seq(Connections(TrueMessages, Has))
      BY <1>2, <2>3, <2>4, Replaced
    <2>6. FollowAll(ready, conn, {}) /\ \A x \in DOMAIN conn : x # c => Firm(conn[x], ready[x])
      <3>1. FollowAll([conn EXCEPT ![c] = n], conn, {})
        BY <1>2, <2>2, AllReplaced
      <3>2. \A x \in DOMAIN conn : x # c => ready[x] = conn[x]
        BY <2>4
      <3> QED BY <2>4, <3>1, <3>2, FollowsSelf
    <2>7. PICK frames : frames = SendFrames(Requests(pending[k.device]))
      OBVIOUS
    <2>8. frames \in Seq(OutFrames(Messages, Messages))
      BY <1>2, <2>7, RequestsFrames DEF TypeOK
    <2>9. conn' = Sent(ready, k.device, frames)
      BY <1>1, <1>5, <2>1, <2>4, <2>7 DEF BecomesReady, Transmitted, ReadySet
    <2>10. FollowAll(conn', ready, {}) /\ FirmAll(conn', ready) /\ Reaches(conn', k.device, MessagesIn(frames))
      BY <2>5, <2>8, <2>9, ConnMessages, SentFollows
    <2>11. FollowAll(conn', conn, {})
      BY <2>6, <2>10, AllTwice
    <2>12. \A x \in DOMAIN conn : x # c => Firm(conn[x], conn'[x])
      BY <2>6, <2>10 DEF FirmAll, FollowAll, Firm
    <2>13. ~Receive(c)
      BY <1>5 DEF Receive, BecomesReady
    <2> QED BY <1>1, <2>7, <2>10, <2>11, <2>12, <2>13
  <1> QED BY <1>4, <1>5

(* A step that sends over the connections there are.                        *)
LEMMA SendFollows ==
  ASSUME TypeOK, NEW d, NEW frames \in Seq(OutFrames(Messages, Messages)), conn' = Sent(conn, d, frames)
  PROVE  /\ FollowAll(conn', conn, {}) /\ FirmAll(conn', conn)
         /\ Reaches(conn', d, MessagesIn(frames))
  BY ConnMessages, SentFollows

LEMMA AskFollows ==
  ASSUME TypeOK, NEW q \in Calls, Ask(q)
  PROVE  /\ FollowAll(conn', conn, {}) /\ FirmAll(conn', conn)
         /\ Reaches(conn', From[q], MessagesIn(SendFrames(Requests({q}))))
  <1>1. PICK frames : frames = SendFrames(Requests({q}))
    OBVIOUS
  <1>2. frames \in Seq(OutFrames(Messages, Messages)) /\ conn' = Sent(conn, From[q], frames)
    BY <1>1, RequestsFrames DEF Ask
  <1> QED BY <1>1, <1>2, SendFollows

LEMMA AnswerFollows ==
  ASSUME TypeOK, NEW q \in Calls, NEW result \in Ends, NEW n \in Nat, Answered(conn, q, result, n)
  PROVE  /\ FollowAll(conn', conn, {}) /\ FirmAll(conn', conn)
         /\ Reaches(conn', To[q], MessagesIn(SendFrames(Responses(q, result, n))))
  <1>1. PICK frames : frames = SendFrames(Responses(q, result, n))
    OBVIOUS
  <1>2. frames \in Seq(OutFrames(Messages, Messages)) /\ conn' = Sent(conn, To[q], frames)
    BY <1>1, ResponsesFrames DEF Answered
  <1> QED BY <1>1, <1>2, SendFollows

(* The steps that answer.                                                   *)
LEMMA FinishAnswers ==
  ASSUME TypeOK, NEW q \in Calls, Finish(q)
  PROVE  jobs[q] \in Nat /\ jobs[q] > 0 /\ "complete" \in Ends /\ Answered(conn, q, "complete", jobs[q])
  BY DEF Finish, TypeOK, Ends

LEMMA TakeRequestAnswers ==
  ASSUME TypeOK, NEW d \in Devices, NEW m \in arrived[d], TakeRequest(d, m)
  PROVE  /\ m \in TrueMessages /\ m.call \in Calls
         /\ \/ jobs' = [jobs EXCEPT ![m.call] = @ + 1] /\ conn' = conn
            \/ /\ journal[m.call] \in Ends /\ Answered(conn, m.call, journal[m.call], 1)
               /\ jobs' = jobs
  <1>1. m \in TrueMessages /\ m.call \in Calls
    BY DEF TypeOK, TrueMessages, Messages
  <1>2. CASE jobs[m.call] > 0 \/ journal[m.call] = "none"
    BY <1>1, <1>2 DEF TakeRequest
  <1>3. CASE ~(jobs[m.call] > 0 \/ journal[m.call] = "none")
    <2>1. journal[m.call] \in Ends
      BY <1>1, <1>3 DEF TypeOK, States, Ends
    <2> QED BY <1>1, <1>3, <2>1 DEF TakeRequest
  <1> QED BY <1>2, <1>3

LEMMA OthersFollow ==
  ASSUME TypeOK,
         \/ \E q \in Calls : Ask(q) \/ TimeOut(q) \/ Finish(q)
         \/ \E d \in Devices : \E m \in arrived[d] : Repeated(d, m) \/ TakeAnswer(d, m) \/ TakeRequest(d, m)
  PROVE  FollowAll(conn', conn, {}) /\ FirmAll(conn', conn)
  <1>1. conn' = conn => FollowAll(conn', conn, {}) /\ FirmAll(conn', conn)
    BY AllSelf
  <1>2. CASE \E q \in Calls : Ask(q) \/ TimeOut(q) \/ Finish(q)
    <2>1. PICK q \in Calls : Ask(q) \/ TimeOut(q) \/ Finish(q)
      BY <1>2
    <2>2. CASE Ask(q)
      BY <2>2, AskFollows
    <2>3. CASE TimeOut(q)
      BY <1>1, <2>3 DEF TimeOut
    <2>4. CASE Finish(q)
      BY <2>4, FinishAnswers, AnswerFollows
    <2> QED BY <2>1, <2>2, <2>3, <2>4
  <1>3. CASE \E d \in Devices : \E m \in arrived[d] : Repeated(d, m) \/ TakeAnswer(d, m) \/ TakeRequest(d, m)
    <2>4. PICK d \in Devices : \E m \in arrived[d] : Repeated(d, m) \/ TakeAnswer(d, m) \/ TakeRequest(d, m)
      BY <1>3
    <2>1. PICK m \in arrived[d] : Repeated(d, m) \/ TakeAnswer(d, m) \/ TakeRequest(d, m)
      BY <2>4
    <2>2. CASE Repeated(d, m) \/ TakeAnswer(d, m)
      BY <1>1, <2>2 DEF Repeated, TakeAnswer
    <2>3. CASE TakeRequest(d, m)
      <3>1. 1 \in Nat
        OBVIOUS
      <3> QED BY <1>1, <2>3, <3>1, TakeRequestAnswers, AnswerFollows
    <2> QED BY <2>1, <2>2, <2>3
  <1> QED BY <1>2, <1>3

(* What one step does to the connections there are: all of them follow;     *)
(* only the relay takes what they send, only a device told so is ready.     *)
Calm == FollowAll(conn', conn, {}) /\ FirmAll(conn', conn)

LEMMA StepFollows ==
  ASSUME TypeOK, Addressed, [Next]_vars
  PROVE  \/ Calm
         \/ \E d \in Devices : Connect(d)
         \/ \E c \in DOMAIN conn : Takes(c)
         \/ \E c \in DOMAIN conn : BecomesReady(c)
  <1>1. conn' = conn => Calm
    BY AllSelf DEF Calm
  <1>2. CASE UNCHANGED vars
    BY <1>1, <1>2 DEF vars
  <1>3. CASE Network
    BY <1>3, NetworkFollows DEF Network, Calm
  <1>4. CASE Relay
    <2>1. CASE \E c \in DOMAIN conn : Authenticate(c)
      BY <2>1, AuthenticateFollows DEF Calm
    <2>2. CASE \E c \in DOMAIN conn : Full(c)
      <3>1. PICK c \in DOMAIN conn : conn' = ClosedByRelay(conn, {c})
        BY <2>2 DEF Full
      <3>2. conn \in Seq(Connections(TrueMessages, Has))
        BY DEF TypeOK
      <3> QED BY <3>1, <3>2, AllClosed DEF Calm
    <2>3. CASE \E c \in DOMAIN conn : Acked(c)
      <3>1. PICK c \in DOMAIN conn : Acked(c)
        BY <2>3
      <3>2. /\ NextFrame(c) /\ First(conn[c].out) = {}
            /\ conn' = [conn EXCEPT ![c].out = Tail(@)]
        BY <3>1 DEF Acked, First
      <3>3. FollowAll(conn', conn, First(conn[c].out)) /\ FirmAll(conn', conn)
        BY <3>2, TakenFollows
      <3> QED BY <3>2, <3>3 DEF Calm
    <2>4. CASE Flush \/ \E d \in Devices : \E i \in DOMAIN inbox[d] : Expire(d, i)
      BY <1>1, <2>4 DEF Flush, Expire
    <2>5. CASE Stop \/ Crash
      <3>1. conn' = Hangup
        BY <2>5 DEF Stop, Crash
      <3> QED BY <3>1, HangupFollows DEF Calm
    <2> QED BY <1>4, <2>1, <2>2, <2>3, <2>4, <2>5 DEF Relay
  <1>5. CASE Peers
    <2>1. CASE \E d \in Devices : Restart(d)
      BY <2>1, RestartFollows DEF Calm
    <2>2. CASE \E c \in DOMAIN conn : Receive(c)
      BY <2>2, ReadFollows DEF Calm
    <2>3. CASE \/ \E q \in Calls : Ask(q) \/ TimeOut(q) \/ Finish(q)
               \/ \E d \in Devices : \E m \in arrived[d] :
                    Repeated(d, m) \/ TakeAnswer(d, m) \/ TakeRequest(d, m)
      BY <2>3, OthersFollow DEF Calm
    <2> QED BY <1>5, <2>1, <2>2, <2>3 DEF Peers
  <1> QED BY <1>2, <1>3, <1>4, <1>5 DEF Next

(* A new connection.                                                        *)
LEMMA ConnectFollows ==
  ASSUME TypeOK, NEW d \in Devices, Connect(d)
  PROVE  \E n :
           /\ n \notin DOMAIN conn /\ DOMAIN conn' = DOMAIN conn \cup {n}
           /\ \A c \in DOMAIN conn : conn'[c] = conn[c]
           /\ conn'[n].device = d /\ conn'[n].open /\ ~conn'[n].ready /\ ~conn'[n].cut
           /\ conn'[n].relay = "opening" /\ Steady(conn'[n])
  <1> DEFINE k == [device |-> d, open |-> TRUE, ready |-> FALSE, relay |-> "opening",
                   cut |-> FALSE, out |-> <<[type |-> "auth"]>>, in |-> <<>>]
  <1>1. /\ conn' = Append(conn, k) /\ k.relay = "opening" /\ k.device = d
        /\ k.open /\ ~k.ready /\ ~k.cut /\ k.in = <<>> /\ k.out = <<[type |-> "auth"]>>
    BY DEF Connect
  <1> HIDE DEF k
  <1>2. /\ DOMAIN conn = 1..Len(conn) /\ Len(conn) \in Nat
        /\ DOMAIN conn' = 1..(Len(conn) + 1)
        /\ \A c \in DOMAIN conn : conn'[c] = conn[c]
        /\ conn'[Len(conn) + 1] = k
    BY <1>1 DEF TypeOK
  <1>3. Sending(k) = {}
    <2>1. PICK out : out = <<[type |-> "auth"]>>
      OBVIOUS
    <2>2. \A i \in DOMAIN out : out[i].type # "send"
      BY <2>1
    <2>3. k.out = out
      BY <1>1, <2>1
    <2> QED BY <2>2, <2>3 DEF Sending, MessagesIn
  <1>4. Steady(k)
    <2>1. <<>> \in Seq(InFrames(For(k.device)))
      BY EmptySeq
    <2> QED BY <1>1, <1>3, <2>1 DEF Steady
  <1>5. Len(conn) + 1 \notin DOMAIN conn /\ DOMAIN conn' = DOMAIN conn \cup {Len(conn) + 1}
    BY <1>2
  <1> QED BY <1>1, <1>2, <1>4, <1>5

(* The same for every step: a connection there was is still there.          *)
LEMMA EachFollows ==
  ASSUME TypeOK, Addressed, [Next]_vars, NEW c \in DOMAIN conn
  PROVE  /\ c \in DOMAIN conn'
         /\ conn'[c].device = conn[c].device
         /\ conn[c].cut => conn'[c].cut
         /\ conn'[c].open => conn[c].open
         /\ conn[c].ready => conn'[c].ready \/ conn'[c].cut
         /\ conn'[c].relay = "opening" => conn[c].relay = "opening"
         /\ conn'[c].relay = "ready" => conn[c].relay \in {"opening", "ready"}
         /\ Steady(conn[c]) => Steady(conn'[c])
         /\ conn'[c].ready => conn[c].ready \/ BecomesReady(c)
         /\ Steady(conn[c]) /\ Alive(conn'[c]) =>
              \A m \in Sending(conn[c]) :
                \/ m \in Sending(conn'[c])
                \/ \E x \in DOMAIN conn : Takes(x) /\ m = Head(conn[x].out).message
  <1>1. CASE Calm
    BY <1>1 DEF Calm, FollowAll, FirmAll, Follows, Firm
  <1>2. CASE \E d \in Devices : Connect(d)
    BY <1>2, ConnectFollows
  <1>3. CASE \E x \in DOMAIN conn : Takes(x)
    <2>1. PICK x \in DOMAIN conn : Takes(x)
      BY <1>3
    <2>2. FollowAll(conn', conn, {Head(conn[x].out).message}) /\ FirmAll(conn', conn)
      BY <2>1, TakesFollows
    <2> QED BY <2>1, <2>2 DEF FollowAll, FirmAll, Follows, Firm
  <1>4. CASE \E x \in DOMAIN conn : BecomesReady(x)
    <2>1. PICK x \in DOMAIN conn : BecomesReady(x)
      BY <1>4
    <2>2. FollowAll(conn', conn, {}) /\ (c # x => Firm(conn[c], conn'[c]))
      BY <2>1, ReadFollows
    <2> QED BY <2>1, <2>2 DEF FollowAll, Follows, Firm
  <1> QED BY <1>1, <1>2, <1>3, <1>4, StepFollows

(* The parts of the inductive invariant.                                     *)
AllSteady == \A c \in DOMAIN conn : Steady(conn[c])

(* A device has one connection open, and one that was ready if it received  *)
(* something or is carrying something out.                                  *)
OneOpen ==
  \A a, b \in DOMAIN conn :
    conn[a].open /\ conn[b].open /\ conn[a].device = conn[b].device => a = b

Busy(d) == arrived[d] # {} \/ \E q \in Calls : To[q] = d /\ jobs[q] > 0
WasReady(d) == \E c \in DOMAIN conn : conn[c].device = d /\ (conn[c].ready \/ conn[c].cut)
Reached == \A d \in Devices : Busy(d) => WasReady(d)

LEMMA StepSteady ==
  ASSUME TypeOK, Addressed, AllSteady, [Next]_vars
  PROVE  AllSteady'
  <1>1. CASE \E d \in Devices : Connect(d)
    BY <1>1, ConnectFollows DEF AllSteady
  <1>2. CASE ~\E d \in Devices : Connect(d)
    <2>1. DOMAIN conn' = DOMAIN conn
      BY <1>2, StepFollows, TakesFollows, ReadFollows DEF Calm, FollowAll
    <2>2. \A c \in DOMAIN conn : Steady(conn'[c])
      BY EachFollows DEF AllSteady
    <2> QED BY <2>1, <2>2 DEF AllSteady
  <1> QED BY <1>1, <1>2

LEMMA StepOneOpen ==
  ASSUME TypeOK, Addressed, OneOpen, [Next]_vars
  PROVE  OneOpen'
  <1>1. CASE \E d \in Devices : Connect(d)
    <2>1. PICK d \in Devices : Connect(d)
      BY <1>1
    <2>2. \A c \in DOMAIN conn : conn[c].device = d => ~conn[c].open
      BY <2>1 DEF Connect, Made
    <2>3. PICK n : /\ n \notin DOMAIN conn /\ DOMAIN conn' = DOMAIN conn \cup {n}
                   /\ \A c \in DOMAIN conn : conn'[c] = conn[c]
                   /\ conn'[n].device = d
      BY <2>1, ConnectFollows
    <2> QED BY <2>2, <2>3 DEF OneOpen
  <1>2. CASE ~\E d \in Devices : Connect(d)
    <2>1. DOMAIN conn' = DOMAIN conn
      BY <1>2, StepFollows, TakesFollows, ReadFollows DEF Calm, FollowAll
    <2>2. \A c \in DOMAIN conn : conn'[c].device = conn[c].device /\ (conn'[c].open => conn[c].open)
      BY EachFollows
    <2> QED BY <2>1, <2>2 DEF OneOpen
  <1> QED BY <1>1, <1>2

(* What is kept for a device, and what it received.                         *)
LEMMA SameAddressed ==
  ASSUME Addressed, UNCHANGED <<held, inbox>>, \A d \in Devices : arrived'[d] \subseteq For(d)
  PROVE  Addressed'
  BY DEF Addressed

LEMMA PersistedAddressed ==
  ASSUME TypeOK, Addressed, NEW e \in Devices, Persisted(e), UNCHANGED arrived
  PROVE  Addressed'
  <1>1. Stored(e) \in Seq(For(e)) /\ <<>> \in Seq(For(e))
    BY ConcatSets, EmptySeq DEF Addressed, Stored
  <1> QED BY <1>1 DEF Addressed, Persisted, TypeOK

LEMMA TakesAddressed ==
  ASSUME TypeOK, Addressed, NEW c \in DOMAIN conn, Takes(c)
  PROVE  Addressed'
  <1>1. PICK m : m = Head(conn[c].out).message
    OBVIOUS
  <1>2. m \in For(m.to) /\ m.to \in Devices
    BY <1>1, NextSent DEF Takes, For, TrueMessages
  <1>3. /\ \/ inbox' = [inbox EXCEPT ![m.to] = Append(@, m)] /\ held' = held
           \/ held' = [held EXCEPT ![m.to] = Append(@, m)] /\ inbox' = inbox
        /\ UNCHANGED arrived
    BY <1>1 DEF Takes
  <1>4. inbox[m.to] \in Seq(For(m.to)) /\ held[m.to] \in Seq(For(m.to))
    BY <1>2 DEF Addressed
  <1>5. Append(inbox[m.to], m) \in Seq(For(m.to)) /\ Append(held[m.to], m) \in Seq(For(m.to))
    BY <1>2, <1>4, AppendProperties
  <1> QED BY <1>2, <1>3, <1>5 DEF Addressed, TypeOK

LEMMA AckedAddressed ==
  ASSUME TypeOK, Addressed, NEW c \in DOMAIN conn, Acked(c)
  PROVE  Addressed'
  <1>1. PICK m, d : m = Head(conn[c].out).message /\ d = conn[c].device
    OBVIOUS
  <1>2. /\ held' = [held EXCEPT ![d] = Without(@, m)]
        /\ inbox' = [inbox EXCEPT ![d] = Without(@, m)]
        /\ UNCHANGED arrived /\ d \in Devices
    BY <1>1, ConnTyped DEF Acked
  <1>3. Without(held[d], m) \in Seq(For(d)) /\ Without(inbox[d], m) \in Seq(For(d))
    BY <1>2, WithoutTyped DEF Addressed
  <1> QED BY <1>2, <1>3 DEF Addressed, TypeOK

LEMMA FlushAddressed ==
  ASSUME TypeOK, Addressed, Flush
  PROVE  Addressed'
  <1>1. PICK n \in [Devices -> 0..InboxLimit] :
          /\ \A d \in Devices : n[d] <= Len(held[d])
          /\ inbox' = [d \in Devices |-> inbox[d] \o SubSeq(held[d], 1, n[d])]
          /\ held' = [d \in Devices |-> SubSeq(held[d], n[d] + 1, Len(held[d]))]
    BY DEF Flush
  <1>2. ASSUME NEW d \in Devices PROVE inbox'[d] \in Seq(For(d)) /\ held'[d] \in Seq(For(d))
    <2>1. /\ held[d] \in Seq(For(d)) /\ inbox[d] \in Seq(For(d))
          /\ n[d] \in Nat /\ n[d] <= Len(held[d])
      BY <1>1, BridgeConstants DEF Addressed
    <2>2. /\ inbox[d] \o SubSeq(held[d], 1, n[d]) \in Seq(For(d))
          /\ SubSeq(held[d], n[d] + 1, Len(held[d])) \in Seq(For(d))
      BY <2>1, FlushedTyped
    <2> QED BY <1>1, <2>2
  <1> QED BY <1>2 DEF Addressed, Flush

LEMMA StopAddressed ==
  ASSUME TypeOK, Addressed, Stop \/ Crash
  PROVE  Addressed'
  <1>1. \A d \in Devices : Stored(d) \in Seq(For(d)) /\ <<>> \in Seq(For(d))
    BY ConcatSets, EmptySeq DEF Addressed, Stored
  <1> QED BY <1>1 DEF Addressed, Stop, Crash

LEMMA ExpireAddressed ==
  ASSUME TypeOK, Addressed, NEW d \in Devices, NEW i \in DOMAIN inbox[d], Expire(d, i)
  PROVE  Addressed'
  <1>1. inbox[d] \in Seq(For(d))
    BY DEF Addressed
  <1>2. RemoveAt(inbox[d], i) \in Seq(For(d))
    BY <1>1, RemoveAtTyped
  <1> QED BY <1>2 DEF Addressed, Expire, TypeOK

LEMMA ReceiveAddressed ==
  ASSUME TypeOK, Addressed, AllSteady, NEW c \in DOMAIN conn, Receive(c)
  PROVE  Addressed'
  <1>1. PICK k, m : k = conn[c] /\ m = Head(k.in).message
    OBVIOUS
  <1>2. /\ k.in \in Seq(InFrames(For(k.device))) /\ k.in # <<>> /\ Head(k.in).type = "delivery"
        /\ k.device \in Devices
    BY <1>1, ConnTyped DEF AllSteady, Steady, Receive, NextIn
  <1>3. Head(k.in) \in InFrames(For(k.device))
    BY <1>2, TailTyped
  <1>4. m \in For(k.device)
    BY <1>1, <1>2, <1>3 DEF InFrames
  <1>5. arrived' = [arrived EXCEPT ![k.device] = @ \cup {m}] /\ UNCHANGED <<held, inbox>>
    BY <1>1 DEF Receive
  <1> QED BY <1>2, <1>4, <1>5, SameAddressed DEF Addressed, TypeOK

(* Only a delivery received adds to what arrived.                           *)
LEMMA ArrivedBefore ==
  ASSUME TypeOK, [Next]_vars, ~\E c \in DOMAIN conn : Receive(c), NEW d \in Devices
  PROVE  arrived'[d] \subseteq arrived[d]
  <1>1. arrived' = arrived => arrived'[d] \subseteq arrived[d]
    OBVIOUS
  <1>2. UNCHANGED vars \/ Network \/ Relay => arrived' = arrived
    BY DEF vars, Network, Relay, Cut, PeerCloses, RelayCloses, Authenticate, Full, Takes, Acked,
           Flush, Expire, Stop, Crash
  <1>3. ASSUME NEW e \in Devices, NEW m \in arrived[e], Opened(e, m)
        PROVE  arrived'[d] \subseteq arrived[d]
    BY <1>3 DEF Opened, TypeOK
  <1>4. ASSUME NEW e \in Devices, Restart(e)
        PROVE  arrived'[d] \subseteq arrived[d]
    BY <1>4 DEF Restart, TypeOK
  <1>5. CASE Peers
    <2>1. \/ arrived' = arrived
          \/ \E e \in Devices : Restart(e)
          \/ \E e \in Devices : \E m \in arrived[e] : Opened(e, m)
      BY <1>5 DEF Peers, Connect, Ask, TimeOut, Finish, BecomesReady, Repeated, TakeAnswer, TakeRequest
    <2> QED BY <1>1, <1>3, <1>4, <2>1
  <1> QED BY <1>1, <1>2, <1>5 DEF Next

LEMMA StepAddressed ==
  ASSUME TypeOK, Addressed, AllSteady, [Next]_vars
  PROVE  Addressed'
  <1>1. UNCHANGED <<held, inbox, arrived>> => Addressed'
    BY SameAddressed DEF Addressed
  <1>2. CASE UNCHANGED vars
    BY <1>1, <1>2 DEF vars
  <1>3. CASE Network
    <2>1. PICK c \in DOMAIN conn : Cut(c) \/ PeerCloses(c) \/ RelayCloses(c)
      BY <1>3 DEF Network
    <2>2. UNCHANGED arrived /\ (UNCHANGED <<held, inbox>> \/ Persisted(conn[c].device))
      BY <2>1 DEF Cut, PeerCloses, RelayCloses
    <2> QED BY <1>1, <2>2, ConnTyped, PersistedAddressed
  <1>4. CASE Relay
    <2>1. CASE \E c \in DOMAIN conn : Authenticate(c)
      <3>1. PICK c \in DOMAIN conn : Persisted(conn[c].device) /\ UNCHANGED arrived
        BY <2>1 DEF Authenticate
      <3> QED BY <3>1, ConnTyped, PersistedAddressed
    <2>2. CASE \E c \in DOMAIN conn : Full(c)
      BY <1>1, <2>2 DEF Full
    <2> QED BY <1>4, <2>1, <2>2, TakesAddressed, AckedAddressed, FlushAddressed, ExpireAddressed,
               StopAddressed DEF Relay
  <1>5. CASE Peers
    <2>1. CASE \E c \in DOMAIN conn : Receive(c)
      BY <2>1, ReceiveAddressed
    <2>2. CASE ~\E c \in DOMAIN conn : Receive(c)
      <3>1. UNCHANGED <<held, inbox>> /\ \A d \in Devices : arrived'[d] \subseteq arrived[d]
        <4>1. UNCHANGED <<held, inbox>>
          BY <1>5, <2>2 DEF Peers, Connect, Restart, Ask, TimeOut, Finish, BecomesReady,
                            Repeated, TakeAnswer, TakeRequest
        <4> QED BY <2>2, <4>1, ArrivedBefore
      <3> QED BY <3>1, SameAddressed DEF Addressed
    <2> QED BY <2>1, <2>2
  <1> QED BY <1>2, <1>3, <1>4, <1>5 DEF Next

(* A device hears and works only over a connection that was ready.          *)
LEMMA StaysReady ==
  ASSUME TypeOK, Addressed, [Next]_vars, NEW d, WasReady(d)
  PROVE  WasReady(d)'
  BY EachFollows DEF WasReady

LEMMA StepReached ==
  ASSUME TypeOK, Addressed, AllSteady, Reached, [Next]_vars
  PROVE  Reached'
  <1> SUFFICES ASSUME NEW d \in Devices, Busy(d)' PROVE WasReady(d)'
    BY DEF Reached
  <1>1. Busy(d) => WasReady(d)'
    BY StaysReady DEF Reached
  <1>2. CASE arrived'[d] # {} /\ arrived[d] = {}
    <2>1. \E c \in DOMAIN conn : Receive(c) /\ conn[c].device = d
      <3>4. PICK c \in DOMAIN conn : Receive(c)
        BY <1>2, ArrivedBefore
      <3>5. conn[c].device = d
        BY <1>2, <3>4 DEF Receive, TypeOK
      <3> QED BY <3>4, <3>5
    <2>2. PICK c \in DOMAIN conn : Receive(c) /\ conn[c].device = d
      BY <2>1
    <2>3. conn[c].ready
      BY <2>2 DEF AllSteady, Steady, Receive, NextIn
    <2> QED BY <2>2, <2>3, StaysReady DEF WasReady
  <1>3. CASE \E q \in Calls : To[q] = d /\ jobs'[q] > 0 /\ ~(jobs[q] > 0)
    <2>1. PICK q \in Calls : To[q] = d /\ jobs'[q] > 0 /\ ~(jobs[q] > 0)
      BY <1>3
    <2>2. UNCHANGED vars \/ Network \/ Relay => jobs' = jobs
      BY DEF vars, Network, Relay, Cut, PeerCloses, RelayCloses, Authenticate, Full, Takes, Acked,
             Flush, Expire, Stop, Crash
    <2>3. Peers
      BY <2>1, <2>2 DEF Next
    <2>4. \/ \E e \in Devices : \E m \in arrived[e] : TakeRequest(e, m)
          \/ jobs'[q] = jobs[q] \/ jobs'[q] = 0
      BY <2>3 DEF Peers, Connect, Restart, Ask, TimeOut, Finish, BecomesReady, Receive,
             Repeated, TakeAnswer, TypeOK
    <2>5. PICK e \in Devices : \E m \in arrived[e] : TakeRequest(e, m)
      BY <2>1, <2>4
    <2>6. PICK m \in arrived[e] : TakeRequest(e, m)
      BY <2>5
    <2>7. m.call = q /\ m.kind = "request" /\ m \in TrueMessages
      <3>1. jobs' \in {jobs, [jobs EXCEPT ![m.call] = @ + 1]}
        BY <2>6, TakeRequestAnswers
      <3> QED BY <2>1, <2>6, <3>1, TakeRequestAnswers DEF TakeRequest, TypeOK
    <2>8. e = d
      BY <2>1, <2>7 DEF Addressed, For, TrueMessages
    <2> QED BY <1>1, <2>6, <2>8 DEF Busy
  <1> QED BY <1>1, <1>2, <1>3 DEF Busy

(* Who sends a message; and a call carried by a job, by a message kept for  *)
(* a device or received by it, or by one being sent by its sender, that its *)
(* receiver has not dispatched before.                                      *)
Sender(m) == IF m.kind = "request" THEN From[m.call] ELSE To[m.call]

Carrying(q, m) == m.call = q /\ m \notin seen[m.to]
Reaching(d) == ToSet(Stored(d)) \cup arrived[d]

Carried(q) ==
  \/ jobs[q] > 0
  \/ \E d \in Devices : \E m \in Reaching(d) : Carrying(q, m)
  \/ \E c \in DOMAIN conn : \E m \in Sending(conn[c]) : Carrying(q, m) /\ conn[c].device = Sender(m)

Recovering ==
  \A q \in Calls :
    q \in pending[From[q]] /\ Works(From[q]) /\ Unharmed(q) => Carried(q)

Recovery == AllSteady /\ OneOpen /\ Addressed /\ Reached /\ Recovering

LEMMA SentTrue ==
  ASSUME TypeOK, NEW c \in DOMAIN conn
  PROVE  Sending(conn[c]) \subseteq TrueMessages /\ (Sending(conn[c]) # {} => conn[c].open)
  <1>1. PICK out : out = conn[c].out
    OBVIOUS
  <1>2. out \in Seq(OutFrames(TrueMessages, Has[conn[c].device])) /\ (conn[c].open \/ out = <<>>)
    BY <1>1, ConnTyped
  <1>3. ASSUME NEW m \in MessagesIn(out) PROVE m \in TrueMessages /\ out # <<>>
    <2>1. PICK i \in DOMAIN out : out[i].type = "send" /\ m = out[i].message
      BY DEF MessagesIn
    <2>2. out[i] \in OutFrames(TrueMessages, Has[conn[c].device])
      BY <1>2, Each
    <2>3. m \in TrueMessages
      BY <2>1, <2>2 DEF OutFrames
    <2>4. out # <<>>
      <3>1. DOMAIN <<>> = {}
        OBVIOUS
      <3> QED BY <2>1, <3>1
    <2> QED BY <2>3, <2>4
  <1> QED BY <1>1, <1>2, <1>3 DEF Sending

LEMMA TrueFields ==
  ASSUME TypeOK, NEW m \in TrueMessages
  PROVE  /\ m.call \in Calls /\ m.to \in Devices /\ m.n \in Nat
         /\ m.kind \in {"request", "response"}
         /\ m.to = IF m.kind = "request" THEN To[m.call] ELSE From[m.call]
         /\ m.n <= IF m.kind = "request" THEN count.sent[m.call].request ELSE count.sent[m.call].response
         /\ Sender(m) = IF m.kind = "request" THEN From[m.call] ELSE To[m.call]
  BY DEF TrueMessages, Messages, Numbered, Sender

LEMMA ReachingTrue ==
  ASSUME TypeOK, Addressed, NEW d \in Devices
  PROVE  \A m \in Reaching(d) : m \in TrueMessages /\ m.to = d
  <1>1. ASSUME NEW m \in arrived[d] PROVE m \in TrueMessages /\ m.to = d
    BY <1>1 DEF TypeOK, Addressed, For
  <1>2. ASSUME NEW m \in ToSet(Stored(d)) PROVE m \in TrueMessages /\ m.to = d
    <2>1. Stored(d) \in Seq(TrueMessages) /\ Stored(d) \in Seq(For(d))
      BY StoredTyped, ConcatSets DEF Addressed, Stored
    <2>2. PICK i \in DOMAIN Stored(d) : Stored(d)[i] = m
      BY DEF ToSet
    <2>3. m \in TrueMessages /\ m \in For(d)
      BY <2>1, <2>2, Each
    <2> QED BY <2>3 DEF For
  <1> QED BY <1>1, <1>2 DEF Reaching

(* A message under a new number was not sent before.                        *)
LEMMA NewUnsent ==
  ASSUME TypeOK, NEW q \in Calls, NEW result
  PROVE  /\ Message("request", q, count.sent[q].request + 1, result) \notin TrueMessages
         /\ Message("response", q, count.sent[q].response + 1, result) \notin TrueMessages
  <1>1. count.sent[q].request \in Nat /\ count.sent[q].response \in Nat
    BY CountFields
  <1>2. ASSUME NEW m \in TrueMessages, m.call = q
        PROVE  /\ m.kind = "request" => m.n <= count.sent[q].request
               /\ m.kind = "response" => m.n <= count.sent[q].response
    BY <1>2, TrueFields
  <1>3. ASSUME NEW m \in TrueMessages, m = Message("request", q, count.sent[q].request + 1, result)
        PROVE  FALSE
    <2>1. m.call = q /\ m.kind = "request" /\ m.n = count.sent[q].request + 1
      BY <1>3 DEF Message
    <2> QED BY <1>1, <1>2, <2>1
  <1>4. ASSUME NEW m \in TrueMessages, m = Message("response", q, count.sent[q].response + 1, result)
        PROVE  FALSE
    <2>1. m.call = q /\ m.kind = "response" /\ m.n = count.sent[q].response + 1
      BY <1>4 DEF Message
    <2> QED BY <1>1, <1>2, <2>1
  <1> QED BY <1>3, <1>4

(* What has gone wrong is counted.                                          *)
LEMMA OnlyCuts ==
  ASSUME TypeOK, Addressed, [Next]_vars, NEW q \in Calls, Unharmed(q)'
  PROVE  /\ Unharmed(q)
         /\ ~Stop /\ ~Crash /\ \A d : ~Restart(d) /\ \A i : ~Expire(d, i)
  <1>1. ASSUME NEW kind, Happens(kind)
        PROVE  kind = "cut" /\ count.kinds \subseteq count'.kinds
    <2>1. count'.kinds = count.kinds \cup {kind}
      BY <1>1 DEF Happens, TypeOK
    <2>2. count'.kinds \subseteq {"cut"}
      BY DEF Unharmed
    <2> QED BY <2>1, <2>2
  <1>2. count.kinds \subseteq {"cut"}
    <2>1. count'.kinds = count.kinds => count.kinds \subseteq {"cut"}
      BY DEF Unharmed
    <2>2. \/ count'.kinds = count.kinds \/ \E kind : Happens(kind)
      <3>1. UNCHANGED count \/ (\E kind : Happens(kind)) \/ Peers
        BY DEF Next, vars, Network, Relay, Cut, PeerCloses, RelayCloses, Authenticate, Full, Takes,
               Acked, Flush, Expire, Stop, Crash
      <3>2. CASE Peers
        <4>1. UNCHANGED count \/ (\E kind : Happens(kind))
              \/ (\E x : Ask(x)) \/ (\E c : BecomesReady(c))
              \/ \E x, r, n : Answered(conn, x, r, n)
          BY <3>2 DEF Peers, Connect, Restart, TimeOut, Finish, Receive, Repeated, TakeAnswer, TakeRequest
        <4>2. (\E x : Ask(x)) \/ (\E c : BecomesReady(c)) \/ (\E x, r, n : Answered(conn, x, r, n))
              => count'.kinds = count.kinds
          BY DEF Ask, BecomesReady, Transmitted, Answered, TypeOK
        <4> QED BY <4>1, <4>2
      <3> QED BY <3>1, <3>2
    <2> QED BY <1>1, <2>1, <2>2 DEF Unharmed
  <1>3. Made(To[q]) \subseteq Made(To[q])' /\ \A c \in Made(To[q]) : ~conn[c].cut /\ conn[c].relay \in {"opening", "ready"}
    <2> SUFFICES ASSUME NEW c \in Made(To[q])
                 PROVE  c \in Made(To[q])' /\ ~conn[c].cut /\ conn[c].relay \in {"opening", "ready"}
      OBVIOUS
    <2>1. c \in DOMAIN conn /\ c \in Made(To[q])'
      BY EachFollows DEF Made
    <2>2. ~conn'[c].cut /\ conn'[c].relay \in {"opening", "ready"}
      BY <2>1 DEF Unharmed
    <2> QED BY <2>1, <2>2, EachFollows
  <1>4. Cardinality(Made(To[q])) <= 1
    <2>1. IsFiniteSet(Made(To[q])')
      <3>1. DOMAIN conn' = 1..Len(conn') /\ Len(conn') \in Nat
        BY StepTyped, LenProperties DEF TypeOK
      <3>2. IsFiniteSet(1..Len(conn'))
        BY <3>1, FS_Interval
      <3> QED BY <3>1, <3>2, FS_Subset DEF Made
    <2>2. /\ Cardinality(Made(To[q])) <= Cardinality(Made(To[q])')
          /\ Cardinality(Made(To[q])) \in Nat /\ Cardinality(Made(To[q])') \in Nat
      BY <1>3, <2>1, FS_Subset, FS_CardinalityType
    <2>3. Cardinality(Made(To[q])') <= 1
      BY DEF Unharmed
    <2> QED BY <2>2, <2>3
  <1>5. Unharmed(q)
    BY <1>2, <1>3, <1>4 DEF Unharmed
  <1>6. ~Stop /\ ~Crash /\ \A d : ~Restart(d) /\ \A i : ~Expire(d, i)
    <2>1. ~Happens("stop") /\ ~Happens("crash") /\ ~Happens("restart") /\ ~Happens("expired")
      <3>1. "stop" # "cut" /\ "crash" # "cut" /\ "restart" # "cut" /\ "expired" # "cut"
        OBVIOUS
      <3> QED BY <1>1, <3>1
    <2> QED BY <2>1 DEF Stop, Crash, Restart, Expire
  <1> QED BY <1>5, <1>6

(* What carries a call after a step.                                        *)
LEMMA SendingCarries ==
  ASSUME NEW q, NEW c \in DOMAIN conn', NEW m \in Sending(conn'[c]),
         m.call = q, m \notin seen'[m.to], conn'[c].device = Sender(m)
  PROVE  Carried(q)'
  BY DEF Carried, Carrying

LEMMA ReachingCarries ==
  ASSUME NEW q, NEW d \in Devices, NEW m, m \in ToSet(Stored(d)') \/ m \in arrived'[d],
         m.call = q, m \notin seen'[m.to]
  PROVE  Carried(q)'
  BY DEF Carried, Carrying, Reaching

(* A device that works, or that was busy without a mishap, sends what it    *)
(* has to.                                                                  *)
LEMMA AskedIsCarried ==
  ASSUME TypeOK, NEW q \in Calls, NEW ms, Reaches(conn', From[q], ms), UNCHANGED seen,
         Message("request", q, count.sent[q].request + 1, "nothing") \in ms, Works(From[q])'
  PROVE  Carried(q)'
  <1>1. PICK m : m = Message("request", q, count.sent[q].request + 1, "nothing")
    OBVIOUS
  <1>2. m.call = q /\ m.kind = "request" /\ m.to = To[q] /\ To[q] \in Devices
    BY <1>1, BridgeConstants DEF Message
  <1>3. m \notin seen'[m.to]
    BY <1>1, <1>2, NewUnsent DEF TypeOK
  <1>4. PICK c \in DOMAIN conn' : conn'[c].device = From[q] /\ conn'[c].open /\ conn'[c].ready /\ ~conn'[c].cut
    BY DEF Works, Made
  <1>5. m \in Sending(conn'[c])
    BY <1>1, <1>4 DEF Reaches
  <1> QED BY <1>2, <1>3, <1>4, <1>5, SendingCarries DEF Sender

LEMMA AnswerIsCarried ==
  ASSUME TypeOK, Addressed, AllSteady, Reached, [Next]_vars, NEW q \in Calls, Unharmed(q)',
         Busy(To[q]), NEW result \in Ends, NEW n \in Nat, n > 0, Answered(conn, q, result, n),
         \A d \in Devices : seen'[d] \subseteq TrueMessages
  PROVE  Carried(q)'
  <1>1. PICK m : m = Message("response", q, count.sent[q].response + 1, result)
    OBVIOUS
  <1>2. m.call = q /\ m.kind = "response" /\ m.to = From[q] /\ From[q] \in Devices /\ To[q] \in Devices
    BY <1>1, BridgeConstants DEF Message
  <1>3. m \notin seen'[m.to]
    BY <1>1, <1>2, NewUnsent
  <1>4. PICK c \in DOMAIN conn : conn[c].device = To[q] /\ (conn[c].ready \/ conn[c].cut)
    BY <1>2 DEF Reached, WasReady
  <1>5. /\ c \in DOMAIN conn' /\ conn'[c].device = To[q]
        /\ conn'[c].ready \/ conn'[c].cut
        /\ Steady(conn'[c])
    BY <1>4, EachFollows DEF AllSteady
  <1>6. ~conn'[c].cut
    BY <1>5 DEF Unharmed, Made
  <1>7. conn'[c].ready /\ conn'[c].open
    BY <1>5, <1>6 DEF Steady
  <1>8. Reaches(conn', To[q], MessagesIn(SendFrames(Responses(q, result, n))))
    BY AnswerFollows
  <1>9. m \in MessagesIn(SendFrames(Responses(q, result, n)))
    BY <1>1, ResponsesFrames
  <1>10. m \in Sending(conn'[c])
    BY <1>5, <1>6, <1>7, <1>8, <1>9 DEF Reaches
  <1> QED BY <1>2, <1>3, <1>5, <1>10, SendingCarries DEF Sender

(* A call becomes awaited when it is asked for, its asker works when it has *)
(* asked again.                                                             *)
LEMMA NewlyAwaited ==
  ASSUME TypeOK, [Next]_vars, NEW q \in Calls, q \in pending'[From[q]], q \notin pending[From[q]]
  PROVE  Ask(q)
  <1>1. UNCHANGED vars \/ Network \/ Relay => pending' = pending
    BY DEF vars, Network, Relay, Cut, PeerCloses, RelayCloses, Authenticate, Full, Takes, Acked,
           Flush, Expire, Stop, Crash
  <1>2. Peers
    BY <1>1 DEF Next
  <1>3. \/ pending' = pending
        \/ \E x \in Calls : Ask(x) \/ TimeOut(x)
        \/ \E d \in Devices : Restart(d)
        \/ \E d \in Devices : \E m \in arrived[d] : TakeAnswer(d, m)
    BY <1>2 DEF Peers, Connect, Finish, BecomesReady, Receive, Repeated, TakeRequest
  <1>4. From[q] \in Devices
    BY BridgeConstants
  <1>5. ASSUME NEW d \in Devices, Restart(d) PROVE pending'[From[q]] \subseteq pending[From[q]]
    BY <1>4, <1>5 DEF Restart, TypeOK
  <1>6. ASSUME NEW d \in Devices, NEW m, TakeAnswer(d, m) PROVE pending'[From[q]] \subseteq pending[From[q]]
    BY <1>4, <1>6 DEF TakeAnswer, TypeOK
  <1>7. ASSUME NEW x \in Calls, TimeOut(x) PROVE pending'[From[q]] \subseteq pending[From[q]]
    BY <1>4, <1>7 DEF TimeOut, TypeOK
  <1>8. ASSUME NEW x \in Calls, Ask(x) PROVE x = q
    BY <1>4, <1>8 DEF Ask, TypeOK
  <1> QED BY <1>3, <1>5, <1>6, <1>7, <1>8

LEMMA NewlyWorks ==
  ASSUME TypeOK, Addressed, AllSteady, [Next]_vars, NEW d, Works(d)', ~Works(d)
  PROVE  \E c \in DOMAIN conn : BecomesReady(c) /\ conn[c].device = d
  <1>1. PICK c \in DOMAIN conn' : /\ conn'[c].device = d /\ conn'[c].open /\ conn'[c].ready
                                  /\ ~conn'[c].cut /\ conn'[c].relay = "ready"
    BY DEF Works, Made
  <1>2. c \in DOMAIN conn
    BY <1>1, StepFollows, TakesFollows, ReadFollows, ConnectFollows DEF Calm, FollowAll
  <1>3. /\ conn[c].device = d /\ conn[c].open /\ ~conn[c].cut
        /\ conn[c].relay \in {"opening", "ready"}
        /\ conn[c].ready \/ BecomesReady(c)
    BY <1>1, <1>2, EachFollows
  <1>4. CASE conn[c].ready
    <2>1. conn[c].relay = "ready"
      BY <1>2, <1>3, <1>4 DEF AllSteady, Steady
    <2> QED BY <1>2, <1>3, <1>4, <2>1 DEF Works, Made
  <1> QED BY <1>2, <1>3, <1>4

(* A message that was kept or received is still, or it is dispatched.       *)
LEMMA Dispatched ==
  ASSUME TypeOK, [Next]_vars, \A d : ~Restart(d), NEW d \in Devices, NEW m, m \notin seen[d]
  PROVE  \/ m \notin seen'[d] /\ (m \in arrived[d] => m \in arrived'[d])
         \/ m \in arrived[d] /\ (TakeAnswer(d, m) \/ TakeRequest(d, m))
  <1>1. UNCHANGED seen /\ arrived[d] \subseteq arrived'[d]
          => m \notin seen'[d] /\ (m \in arrived[d] => m \in arrived'[d])
    OBVIOUS
  <1>2. UNCHANGED vars \/ Network \/ Relay => UNCHANGED <<seen, arrived>>
    BY DEF vars, Network, Relay, Cut, PeerCloses, RelayCloses, Authenticate, Full, Takes, Acked,
           Flush, Expire, Stop, Crash
  <1>3. CASE Peers
    <2>1. \/ UNCHANGED <<seen, arrived>>
          \/ \E c \in DOMAIN conn : Receive(c)
          \/ \E e \in Devices : \E x \in arrived[e] : Repeated(e, x) \/ TakeAnswer(e, x) \/ TakeRequest(e, x)
      BY <1>3 DEF Peers, Connect, Ask, TimeOut, Finish, BecomesReady
    <2>2. ASSUME NEW c \in DOMAIN conn, Receive(c) PROVE UNCHANGED seen /\ arrived[d] \subseteq arrived'[d]
      BY <2>2 DEF Receive, TypeOK
    <2>3. ASSUME NEW e \in Devices, NEW x \in arrived[e],
                 Repeated(e, x) \/ TakeAnswer(e, x) \/ TakeRequest(e, x)
          PROVE  \/ m \notin seen'[d] /\ (m \in arrived[d] => m \in arrived'[d])
                 \/ m \in arrived[d] /\ (TakeAnswer(d, m) \/ TakeRequest(d, m))
      <3>1. Opened(e, x)
        BY <2>3 DEF Repeated, TakeAnswer, TakeRequest
      <3>2. CASE e = d /\ x = m
        BY <2>3, <3>2 DEF Repeated
      <3>3. CASE ~(e = d /\ x = m)
        <4>1. m \notin seen'[d] /\ (m \in arrived[d] => m \in arrived'[d])
          BY <3>1, <3>3 DEF Opened, TypeOK
        <4> QED BY <4>1
      <3> QED BY <3>2, <3>3
    <2> QED BY <1>1, <2>1, <2>2, <2>3
  <1> QED BY <1>1, <1>2, <1>3 DEF Next

(* The three ways a call is carried, in a step that leaves it awaited.      *)
LEMMA JobStays ==
  ASSUME TypeOK, Addressed, AllSteady, Reached, [Next]_vars, NEW q \in Calls, Unharmed(q)', jobs[q] > 0
  PROVE  Carried(q)'
  <1>1. jobs'[q] > 0 => Carried(q)'
    BY DEF Carried
  <1>2. CASE Finish(q)
    <2>1. Busy(To[q])
      BY DEF Busy
    <2>2. \A d \in Devices : seen'[d] \subseteq TrueMessages
      BY <1>2 DEF Finish, TypeOK
    <2> QED BY <1>2, <2>1, <2>2, FinishAnswers, AnswerIsCarried
  <1>3. CASE ~Finish(q)
    <2>1. \/ jobs' = jobs
          \/ \E x \in Calls : Finish(x)
          \/ \E d \in Devices : \E m \in arrived[d] : TakeRequest(d, m)
      <3>1. UNCHANGED vars \/ Network \/ Relay => jobs' = jobs
        BY DEF vars, Network, Relay, Cut, PeerCloses, RelayCloses, Authenticate, Full, Takes, Acked,
               Flush, Expire, Stop, Crash
      <3>2. ~\E d : Restart(d)
        BY OnlyCuts
      <3>3. CASE Peers
        BY <3>2, <3>3 DEF Peers, Connect, Ask, TimeOut, BecomesReady, Receive, Repeated, TakeAnswer
      <3> QED BY <3>1, <3>3 DEF Next
    <2>2. ASSUME NEW x \in Calls, Finish(x) PROVE jobs'[q] > 0
      BY <1>3, <2>2 DEF Finish, TypeOK
    <2>3. ASSUME NEW d \in Devices, NEW m \in arrived[d], TakeRequest(d, m) PROVE jobs'[q] > 0
      <3>1. jobs \in [Calls -> Nat] /\ m.call \in Calls
        BY <2>3, TakeRequestAnswers DEF TypeOK
      <3>2. CASE jobs' = [jobs EXCEPT ![m.call] = @ + 1]
        BY <3>1, <3>2
      <3>3. CASE jobs' = jobs
        BY <3>3
      <3> QED BY <2>3, <3>2, <3>3, TakeRequestAnswers
    <2> QED BY <1>1, <2>1, <2>2, <2>3
  <1> QED BY <1>2, <1>3

LEMMA DispatchedCarries ==
  ASSUME TypeOK, Addressed, AllSteady, Reached, [Next]_vars, NEW q \in Calls, Unharmed(q)',
         q \in pending'[From[q]], NEW d \in Devices, NEW m \in arrived[d], m.call = q,
         TakeAnswer(d, m) \/ TakeRequest(d, m)
  PROVE  Carried(q)'
  <1>1. m \in TrueMessages /\ m.to = d
    BY ReachingTrue DEF Reaching
  <1>2. CASE TakeAnswer(d, m)
    <2>1. d = From[q]
      BY <1>1, <1>2, TrueFields DEF TakeAnswer
    <2>2. q \notin pending'[d]
      BY <1>2 DEF TakeAnswer, TypeOK
    <2> QED BY <2>1, <2>2
  <1>3. CASE TakeRequest(d, m)
    <2>1. d = To[q]
      BY <1>1, <1>3, TrueFields DEF TakeRequest
    <2>2. CASE jobs' = [jobs EXCEPT ![q] = @ + 1]
      <3>1. jobs'[q] > 0
        BY <2>2 DEF TypeOK
      <3> QED BY <3>1 DEF Carried
    <2>3. CASE journal[q] \in Ends /\ Answered(conn, q, journal[q], 1)
      <3>1. Busy(To[q])
        BY <2>1 DEF Busy
      <3>2. \A x \in Devices : seen'[x] \subseteq TrueMessages
        BY <1>1, <1>3 DEF TakeRequest, Opened, TypeOK
      <3>3. 1 \in Nat /\ 1 > 0
        OBVIOUS
      <3>4. PICK result \in Ends : result = journal[q]
        BY <2>3
      <3> QED BY <2>3, <3>1, <3>2, <3>3, <3>4, AnswerIsCarried
    <2> QED BY <1>3, <2>2, <2>3, TakeRequestAnswers
  <1> QED BY <1>2, <1>3

LEMMA ReachingStays ==
  ASSUME TypeOK, Addressed, AllSteady, Reached, [Next]_vars, NEW q \in Calls, Unharmed(q)',
         q \in pending'[From[q]], NEW d \in Devices, NEW m \in Reaching(d), Carrying(q, m)
  PROVE  Carried(q)'
  <1>1. m \in TrueMessages /\ m.to = d /\ m.call = q /\ m \notin seen[d]
    BY ReachingTrue DEF Carrying
  <1>2. ~Crash /\ \A e : ~Restart(e) /\ \A i : ~Expire(e, i)
    BY OnlyCuts
  <1>3. m \in ToSet(Stored(d)') \/ m \in arrived[d]
    <2>1. CASE m \in ToSet(Stored(d))
      BY <1>1, <1>2, <2>1, StepKeeps DEF Kept
    <2> QED BY <2>1 DEF Reaching
  <1>4. CASE m \notin seen'[d] /\ (m \in arrived[d] => m \in arrived'[d])
    BY <1>1, <1>3, <1>4, ReachingCarries
  <1>5. CASE m \in arrived[d] /\ (TakeAnswer(d, m) \/ TakeRequest(d, m))
    BY <1>1, <1>5, DispatchedCarries
  <1> QED BY <1>1, <1>2, <1>4, <1>5, Dispatched

LEMMA TakenIsStored ==
  ASSUME TypeOK, NEW c \in DOMAIN conn, Takes(c), NEW m, m = Head(conn[c].out).message
  PROVE  m.to \in Devices /\ m \in ToSet(Stored(m.to)')
  <1>1. m \in TrueMessages /\ m.to \in Devices
    BY NextSent DEF Takes
  <1>2. \/ inbox' = [inbox EXCEPT ![m.to] = Append(@, m)] /\ held' = held
        \/ held' = [held EXCEPT ![m.to] = Append(@, m)] /\ inbox' = inbox
    BY DEF Takes
  <1>3. inbox[m.to] \in Seq(TrueMessages) /\ held[m.to] \in Seq(TrueMessages)
    BY <1>1, StoredTyped
  <1>4. ASSUME NEW s \in Seq(TrueMessages) PROVE Append(s, m) \in Seq(TrueMessages) /\ m \in ToSet(Append(s, m))
    BY <1>1, AppendProperties, LenProperties DEF ToSet
  <1>5. /\ inbox'[m.to] \in Seq(TrueMessages) /\ held'[m.to] \in Seq(TrueMessages)
        /\ m \in ToSet(inbox'[m.to]) \cup ToSet(held'[m.to])
    <2>1. inbox \in [Devices -> Seq(TrueMessages)] /\ held \in [Devices -> Seq(TrueMessages)]
      BY DEF TypeOK
    <2>2. /\ \/ inbox'[m.to] = Append(inbox[m.to], m) /\ held'[m.to] = held[m.to]
             \/ held'[m.to] = Append(held[m.to], m) /\ inbox'[m.to] = inbox[m.to]
      BY <1>1, <1>2, <2>1
    <2> QED BY <1>3, <1>4, <2>2
  <1> QED BY <1>1, <1>5, StoredNext

LEMMA SendingStays ==
  ASSUME TypeOK, Addressed, AllSteady, OneOpen, Reached, [Next]_vars, NEW q \in Calls, Unharmed(q)',
         q \in pending'[From[q]], Works(From[q])', NEW c \in DOMAIN conn, NEW m \in Sending(conn[c]),
         Carrying(q, m), conn[c].device = Sender(m)
  PROVE  Carried(q)'
  <1>1. m \in TrueMessages /\ m.call = q /\ m \notin seen[m.to] /\ conn[c].open
    BY SentTrue DEF Carrying
  <1>2. m.to \in Devices /\ \A e : ~Restart(e)
    BY <1>1, TrueFields, OnlyCuts
  <1>3. CASE m \in arrived[m.to] /\ (TakeAnswer(m.to, m) \/ TakeRequest(m.to, m))
    BY <1>1, <1>2, <1>3, DispatchedCarries
  <1>4. CASE m \notin seen'[m.to]
    <2>1. c \in DOMAIN conn' /\ conn'[c].device = Sender(m)
      BY EachFollows
    <2>2. Alive(conn'[c])
      <3>1. CASE m.kind = "request"
        <4>1. conn[c].device = From[q]
          BY <1>1, <3>1, TrueFields
        <4>2. PICK x \in DOMAIN conn' : /\ conn'[x].device = From[q] /\ conn'[x].open /\ conn'[x].ready
                                        /\ ~conn'[x].cut /\ conn'[x].relay = "ready"
          BY DEF Works, Made
        <4>3. x \in DOMAIN conn
          BY <4>2, StepFollows, TakesFollows, ReadFollows, ConnectFollows DEF Calm, FollowAll
        <4>4. conn[x].open /\ conn[x].device = From[q]
          BY <4>2, <4>3, EachFollows
        <4>5. x = c
          BY <1>1, <4>1, <4>3, <4>4 DEF OneOpen
        <4> QED BY <4>2, <4>5 DEF Alive
      <3>2. CASE m.kind # "request"
        <4>1. conn[c].device = To[q]
          BY <1>1, <3>2, TrueFields
        <4>2. conn'[c].device = To[q]
          BY <4>1, EachFollows
        <4> QED BY <2>1, <4>2 DEF Unharmed, Made, Alive
      <3> QED BY <3>1, <3>2
    <2>3. \/ m \in Sending(conn'[c])
          \/ \E x \in DOMAIN conn : Takes(x) /\ m = Head(conn[x].out).message
      BY <2>2, EachFollows DEF AllSteady
    <2>4. CASE m \in Sending(conn'[c])
      BY <1>1, <1>4, <2>1, <2>4, SendingCarries
    <2>5. CASE \E x \in DOMAIN conn : Takes(x) /\ m = Head(conn[x].out).message
      BY <1>1, <1>4, <2>5, TakenIsStored, ReachingCarries
    <2> QED BY <2>3, <2>4, <2>5
  <1> QED BY <1>1, <1>2, <1>3, <1>4, Dispatched

LEMMA StepRecovering ==
  ASSUME TypeOK, Recovery, [Next]_vars
  PROVE  Recovering'
  <1> SUFFICES ASSUME NEW q \in Calls, q \in pending'[From[q]], Works(From[q])', Unharmed(q)'
               PROVE  Carried(q)'
    BY DEF Recovering
  <1>1. AllSteady /\ OneOpen /\ Addressed /\ Reached /\ Recovering
    BY DEF Recovery
  <1>2. CASE q \notin pending[From[q]]
    <2>1. Ask(q)
      BY <1>2, NewlyAwaited
    <2>2. Reaches(conn', From[q], MessagesIn(SendFrames(Requests({q})))) /\ UNCHANGED seen
      BY <2>1, AskFollows DEF Ask
    <2>3. Message("request", q, count.sent[q].request + 1, "nothing") \in MessagesIn(SendFrames(Requests({q})))
      BY RequestsFrames
    <2> QED BY <2>2, <2>3, AskedIsCarried
  <1>3. CASE q \in pending[From[q]] /\ ~Works(From[q])
    <2>1. PICK c \in DOMAIN conn : BecomesReady(c) /\ conn[c].device = From[q]
      BY <1>1, <1>3, NewlyWorks
    <2>2. PICK qs : qs = pending[From[q]]
      OBVIOUS
    <2>3. qs \in SUBSET Calls /\ q \in qs
      BY <1>3, <2>2, BridgeConstants DEF TypeOK
    <2>4. Reaches(conn', From[q], MessagesIn(SendFrames(Requests(qs)))) /\ UNCHANGED seen
      BY <2>1, <2>2, ReadFollows DEF BecomesReady
    <2>5. Message("request", q, count.sent[q].request + 1, "nothing") \in MessagesIn(SendFrames(Requests(qs)))
      BY <2>3, RequestsFrames
    <2> QED BY <2>4, <2>5, AskedIsCarried
  <1>4. CASE q \in pending[From[q]] /\ Works(From[q])
    <2>1. Carried(q)
      BY <1>1, <1>4, OnlyCuts DEF Recovering
    <2>2. CASE jobs[q] > 0
      BY <1>1, <2>2, JobStays
    <2>3. CASE \E d \in Devices : \E m \in Reaching(d) : Carrying(q, m)
      BY <1>1, <2>3, ReachingStays
    <2>4. CASE \E c \in DOMAIN conn : \E m \in Sending(conn[c]) : Carrying(q, m) /\ conn[c].device = Sender(m)
      BY <1>1, <2>4, SendingStays
    <2> QED BY <2>1, <2>2, <2>3, <2>4 DEF Carried
  <1> QED BY <1>2, <1>3, <1>4

LEMMA StepRecovers == TypeOK /\ Recovery /\ [Next]_vars => Recovery'
  BY StepSteady, StepOneOpen, StepAddressed, StepReached, StepRecovering DEF Recovery

LEMMA InitRecovers == Init => Recovery
  <1> SUFFICES ASSUME Init PROVE Recovery
    OBVIOUS
  <1>1. DOMAIN conn = {}
    BY DEF Init
  <1>2. AllSteady /\ OneOpen
    BY <1>1 DEF AllSteady, OneOpen
  <1>3. Addressed
    BY EmptySeq DEF Init, Addressed
  <1>4. Reached
    BY DEF Init, Reached, Busy
  <1>5. Recovering
    BY BridgeConstants DEF Init, Recovering
  <1> QED BY <1>2, <1>3, <1>4, <1>5 DEF Recovery

LEMMA CarriedTravels ==
  ASSUME NEW q \in Calls, Carried(q)
  PROVE  Travels(q)
  <1>1. CASE jobs[q] > 0
    BY <1>1 DEF Travels
  <1>2. CASE \E d \in Devices : \E m \in Reaching(d) : Carrying(q, m)
    BY <1>2 DEF Travels, Reaching, Carrying
  <1>3. CASE \E c \in DOMAIN conn : \E m \in Sending(conn[c]) : Carrying(q, m)
    BY <1>3 DEF Travels, Sending, MessagesIn, Carrying
  <1> QED BY <1>1, <1>2, <1>3 DEF Carried

(* If only the asker has lost connections, what it awaits over a connection *)
(* that works is on its way, being carried out or answered: asking again on *)
(* `ready' is enough (BridgePeer.receive, request).                         *)
THEOREM Recovers == Spec => []AskerRecovers
  <1>1. Init => Recovery
    BY InitRecovers
  <1>2. TypeOK /\ Recovery /\ [Next]_vars => Recovery'
    BY StepRecovers
  <1>3. Recovery => AskerRecovers
    BY CarriedTravels DEF Recovery, Recovering, AskerRecovers
  <1> QED BY <1>1, <1>2, <1>3, TypeCorrect, PTL DEF Spec

=============================================================================
