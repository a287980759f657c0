--------------------------- MODULE RunEventsProof ---------------------------
(***************************************************************************)
(* Proofs about RunEvents, for any readers, any run and any number of      *)
(* faults: nobody misses an event the service still has, and a number is   *)
(* one event's, unless a restart finds a journal that lacks what a failed  *)
(* write should have put there.                                            *)
(***************************************************************************)
EXTENDS RunEvents, TLAPS, FiniteSetTheorems, SequenceTheorems

---------------------------------------------------------------------------
(* The strengthening.                                                       *)

Number == Nat \ {0}
Events == [seq : Number, what : {"event", "done", "interrupted"}]
Pumps == {"runs", "failing", "closing", "dead", "ended"}

RunShape ==
  /\ run \in [buffer : Seq(Events), first : Number, last : Nat, finished : BOOLEAN, pump : Pumps]
  /\ run.finished <=> run.pump = "ended"

JournalShape == journal \in [events : SUBSET Events, last : Nat, finished : BOOLEAN]

Reader == [stage : {"away", "open", "closed", "ended", "gone"},
           after : Nat, from : {"run", "archive"}, next : Number,
           record : [finished : BOOLEAN, last : Nat],
           batch : Seq(Events), holed : BOOLEAN, cursor : Nat,
           pipe : Seq(Events), got : SUBSET Events]

FaultShape == faults \in [cuts : Nat, crashes : Nat, failures : Nat]

Items(s) == {s[i] : i \in 1..Len(s)}
HasNumber(s, n) == \E i \in 1..Len(s) : s[i].seq = n

(* Every event there is, wherever it is.                                    *)
InReader(k) == k.got \cup Items(k.pipe) \cup Items(k.batch)
Seen == journal.events \cup Items(run.buffer) \cup UNION {InReader(reader[r]) : r \in Readers}

OneEventEach ==
  /\ \A e \in Seen : e.seq <= run.last
  /\ \A e, f \in Seen : e.seq = f.seq => e = f

(* The buffer has every event from its first number to the run's last.      *)
BufferWhole ==
  /\ Len(run.buffer) = run.last - run.first + 1
  /\ \A i \in 1..Len(run.buffer) : run.buffer[i].seq = run.first + i - 1
  /\ \A n \in 1..run.first - 1 : n \in lost

(* A run the registry no longer has is over, and its events are gone.       *)
Forgotten ==
  /\ held \in BOOLEAN
  /\ ~held => run.finished /\ \A n \in 1..run.last : n \in lost

JournalEnd ==
  /\ journal.last <= run.last
  /\ journal.finished =>
       /\ run.finished /\ journal.last = run.last
       /\ \E e \in journal.events : e.seq = journal.last

(* Where no write failed, the journal has the newest events of the run.     *)
JournalWhole ==
  faults.failures = 0 =>
    /\ journal.last = run.last /\ journal.finished = run.finished
    /\ \A n \in 1..run.last : n > run.last - Window <=> \E e \in journal.events : e.seq = n

(* What became of number n for reader k: it had it or it is gone; it is on  *)
(* its way; another device has it for it.                                   *)
Had(k, n) == n \in lost \/ \E e \in k.got : e.seq = n
Coming(k, n) == Had(k, n) \/ HasNumber(k.pipe, n)
AtHand(k, n) == Coming(k, n) \/ HasNumber(k.batch, n)

(* What comes to a reader follows what it had.                              *)
NoGap(k) ==
  /\ \A n \in 1..k.after : Had(k, n)
  /\ \A i \in 1..Len(k.pipe) : \A n \in 1..k.pipe[i].seq - 1 :
       Had(k, n) \/ \E j \in 1..i - 1 : k.pipe[j].seq = n

(* What will be sent to it follows what was sent.                           *)
Follows(k) ==
  /\ k.from = "archive" => ~held /\ journal.finished
  /\ k.from = "run" => \A n \in 1..k.next - 1 : AtHand(k, n)
  /\ \A n \in 1..k.cursor : Coming(k, n)
  /\ \A i \in 1..Len(k.batch) : \A n \in 1..k.batch[i].seq - 1 :
       Coming(k, n) \/ \E j \in 1..i - 1 : k.batch[j].seq = n

ReaderOK(k) == k \in Reader /\ NoGap(k) /\ (k.stage = "open" => Follows(k))

ReadersOK ==
  /\ reader = [r \in Readers |-> reader[r]]
  /\ \A r \in Readers : ReaderOK(reader[r])
  /\ \A r \in Local : reader[r].batch = <<>>

Sound ==
  /\ RunShape /\ JournalShape /\ OneEventEach /\ BufferWhole /\ Forgotten
  /\ JournalEnd /\ JournalWhole /\ ReadersOK

IInv == FaultShape /\ (Undamaged => Sound)

---------------------------------------------------------------------------
(* Sequences of events.                                                     *)

LEMMA AppendItem ==
  ASSUME NEW s \in Seq(Events), NEW e \in Events
  PROVE  /\ Append(s, e) \in Seq(Events) /\ Len(s) \in Nat
         /\ Len(Append(s, e)) = Len(s) + 1
         /\ \A i \in 1..Len(s) : Append(s, e)[i] = s[i]
         /\ Append(s, e)[Len(s) + 1] = e
         /\ Items(Append(s, e)) = Items(s) \cup {e}
         /\ \A n : HasNumber(s, n) => HasNumber(Append(s, e), n)
         /\ HasNumber(Append(s, e), e.seq)
  <1>1. /\ Append(s, e) \in Seq(Events) /\ Len(s) \in Nat
        /\ Len(Append(s, e)) = Len(s) + 1
        /\ \A i \in 1..Len(s) : Append(s, e)[i] = s[i]
        /\ Append(s, e)[Len(s) + 1] = e
    BY AppendProperties, LenProperties
  <1>2. Items(Append(s, e)) = Items(s) \cup {e}
    BY <1>1, SMTT(30) DEF Items
  <1>3. \A n : HasNumber(s, n) => HasNumber(Append(s, e), n)
    BY <1>1, SMTT(30) DEF HasNumber
  <1>4. HasNumber(Append(s, e), e.seq)
    BY <1>1, SMTT(30) DEF HasNumber
  <1> QED BY <1>1, <1>2, <1>3, <1>4

LEMMA TailItem ==
  ASSUME NEW s \in Seq(Events), s # <<>>
  PROVE  /\ Tail(s) \in Seq(Events) /\ Head(s) \in Events /\ Len(s) \in Nat \ {0}
         /\ Head(s) = s[1]
         /\ Len(Tail(s)) = Len(s) - 1
         /\ \A i \in 1..Len(Tail(s)) : Tail(s)[i] = s[i + 1]
         /\ Items(Tail(s)) \subseteq Items(s)
         /\ \A n : HasNumber(s, n) => n = Head(s).seq \/ HasNumber(Tail(s), n)
  <1>a. Len(s) \in Nat \ {0}
    BY LenProperties, EmptySeq
  <1>b. Head(s) = s[1]
    BY <1>a
  <1>1. /\ Tail(s) \in Seq(Events) /\ Head(s) \in Events /\ Len(s) \in Nat \ {0}
        /\ Head(s) = s[1]
        /\ Len(Tail(s)) = Len(s) - 1
        /\ \A i \in 1..Len(Tail(s)) : Tail(s)[i] = s[i + 1]
    BY HeadTailProperties, <1>a, <1>b
  <1>2. Items(Tail(s)) \subseteq Items(s)
    BY <1>1, SMTT(30) DEF Items
  <1>3. ASSUME NEW n, HasNumber(s, n)
        PROVE  n = Head(s).seq \/ HasNumber(Tail(s), n)
    <2>1. PICK i \in 1..Len(s) : s[i].seq = n
      BY <1>3 DEF HasNumber
    <2>2. CASE i = 1
      BY <2>1, <2>2, <1>1
    <2>3. CASE i # 1
      <3>1. i - 1 \in 1..Len(Tail(s)) /\ Tail(s)[i - 1] = s[i]
        BY <1>1, <2>3
      <3> QED BY <3>1, <2>1 DEF HasNumber
    <2> QED BY <2>2, <2>3
  <1> QED BY <1>1, <1>2, <1>3

(* u is s with t behind it.                                                 *)
Joined(u, s, t) ==
  /\ u \in Seq(Events) /\ Len(s) \in Nat /\ Len(t) \in Nat
  /\ Len(u) = Len(s) + Len(t)
  /\ \A i \in 1..Len(s) : u[i] = s[i]
  /\ \A i \in 1..Len(t) : u[Len(s) + i] = t[i]
  /\ Items(u) = Items(s) \cup Items(t)
  /\ \A n : HasNumber(s, n) \/ HasNumber(t, n) => HasNumber(u, n)

LEMMA ConcatItem ==
  ASSUME NEW s \in Seq(Events), NEW t \in Seq(Events)
  PROVE  Joined(s \o t, s, t)
  <1>1. /\ s \o t \in Seq(Events) /\ Len(s) \in Nat /\ Len(t) \in Nat
        /\ Len(s \o t) = Len(s) + Len(t)
        /\ \A i \in 1..Len(s) : (s \o t)[i] = s[i]
        /\ \A i \in 1..Len(t) : (s \o t)[Len(s) + i] = t[i]
    BY ConcatProperties, LenProperties, SMTT(30)
  <1>a. \A i \in 1..Len(t) : Len(s) + i \in 1..Len(s \o t)
    BY <1>1
  <1>b. \A i \in 1..Len(s) : i \in 1..Len(s \o t)
    BY <1>1
  <1>2. Items(s \o t) = Items(s) \cup Items(t)
    <2>1. ASSUME NEW x \in Items(s \o t) PROVE x \in Items(s) \cup Items(t)
      <3>1. PICK i \in 1..Len(s \o t) : x = (s \o t)[i]
        BY <2>1 DEF Items
      <3>2. CASE i <= Len(s)
        BY <3>1, <3>2, <1>1 DEF Items
      <3>3. CASE i > Len(s)
        <4>1. i - Len(s) \in 1..Len(t) /\ Len(s) + (i - Len(s)) = i
          BY <3>1, <3>3, <1>1
        <4>2. x = t[i - Len(s)]
          BY <4>1, <3>1, <1>1
        <4> QED BY <4>1, <4>2 DEF Items
      <3> QED BY <3>1, <3>2, <3>3, <1>1
    <2>2. Items(s) \subseteq Items(s \o t)
      BY <1>1, <1>b, Zenon DEF Items
    <2>3. ASSUME NEW x \in Items(t) PROVE x \in Items(s \o t)
      BY <2>3, <1>1, <1>a, Zenon DEF Items
    <2> QED BY <2>1, <2>2, <2>3
  <1>3. ASSUME NEW n, HasNumber(s, n) \/ HasNumber(t, n) PROVE HasNumber(s \o t, n)
    <2>1. CASE HasNumber(s, n)
      BY <2>1, <1>1, <1>b, Zenon DEF HasNumber
    <2>2. CASE HasNumber(t, n)
      BY <2>2, <1>1, <1>a, Zenon DEF HasNumber
    <2> QED BY <1>3, <2>1, <2>2
  <1> QED BY <1>1, <1>2, <1>3 DEF Joined

(* Events numbered without a gap or a number twice are in order.            *)
LEMMA Ordered ==
  ASSUME NEW E \in SUBSET Events, NEW low \in Number, NEW last \in Nat, low <= last + 1,
         \A n \in low..last : \E e \in E : e.seq = n,
         \A e \in E : e.seq \in low..last,
         \A e, f \in E : e.seq = f.seq => e = f
  PROVE  /\ InOrder(E) \in Seq(Events)
         /\ Len(InOrder(E)) = last - low + 1
         /\ \A i \in 1..Len(InOrder(E)) : InOrder(E)[i] \in E /\ InOrder(E)[i].seq = low + i - 1
         /\ E = {} <=> InOrder(E) = <<>>
  <1> DEFINE UpTo(x) == {f \in E : f.seq <= x}
  <1>1. ASSUME NEW x \in Int, low - 1 <= x, x <= last
        PROVE  Cardinality(UpTo(x)) = x - low + 1
    <2> DEFINE g == [n \in low..x |-> CHOOSE e \in E : e.seq = n]
    <2>1. \A n \in low..x : g[n] \in E /\ g[n].seq = n
      BY <1>1 DEF Number
    <2> HIDE DEF g
    <2>2. g \in [low..x -> UpTo(x)]
      <3>1. \A n \in low..x : g[n] \in UpTo(x)
        BY <2>1, <1>1 DEF Number
      <3> HIDE DEF UpTo
      <3> QED BY <3>1 DEF g
    <2>3. \A e \in UpTo(x) : e.seq \in low..x /\ g[e.seq] = e
      BY <2>1, <1>1 DEF Number
    <2>4. \A m, n \in low..x : g[m] = g[n] => m = n
      BY <2>1
    <2> HIDE DEF UpTo
    <2>5. g \in Bijection(low..x, UpTo(x))
      <3>1. g \in Injection(low..x, UpTo(x))
        BY <2>2, <2>4 DEF Injection, IsInjective
      <3>2. \A e \in UpTo(x) : \E n \in low..x : g[n] = e
        BY <2>3
      <3>3. g \in Surjection(low..x, UpTo(x))
        BY <2>2, <3>2 DEF Surjection
      <3> QED BY <3>1, <3>3 DEF Bijection
    <2>6. IsFiniteSet(low..x) /\ Cardinality(low..x) = IF low > x THEN 0 ELSE x - low + 1
      BY <1>1, FS_Interval DEF Number
    <2>7. Cardinality(UpTo(x)) = Cardinality(low..x)
      BY <2>5, <2>6, FS_Bijection DEF ExistsBijection
    <2> QED BY <2>6, <2>7, <1>1 DEF Number
  <1>2. Cardinality(E) = last - low + 1
    <2>1. UpTo(last) = E
      BY DEF Number
    <2> HIDE DEF UpTo
    <2>2. low - 1 <= last /\ last \in Int
      BY DEF Number
    <2> QED BY <1>1, <2>1, <2>2
  <1>3. \A e \in E : Cardinality(UpTo(e.seq)) = e.seq - low + 1
    <2> SUFFICES ASSUME NEW e \in E PROVE Cardinality(UpTo(e.seq)) = e.seq - low + 1
      OBVIOUS
    <2>1. e.seq \in Int /\ low - 1 <= e.seq /\ e.seq <= last
      BY DEF Number
    <2> HIDE DEF UpTo
    <2> QED BY <2>1, <1>1
  <1>4. \A i \in 1..last - low + 1 : InOrder(E)[i] \in E /\ InOrder(E)[i].seq = low + i - 1
    <2> SUFFICES ASSUME NEW i \in 1..last - low + 1
                 PROVE  InOrder(E)[i] \in E /\ InOrder(E)[i].seq = low + i - 1
      OBVIOUS
    <2>1. PICK e \in E : e.seq = low + i - 1
      <3>1. low + i - 1 \in low..last
        BY DEF Number
      <3> QED BY <3>1
    <2>2. Cardinality(UpTo(e.seq)) = i
      BY <1>3, <2>1 DEF Number
    <2>3. InOrder(E)[i] = CHOOSE f \in E : Cardinality(UpTo(f.seq)) = i
      BY <1>2 DEF InOrder
    <2> DEFINE c == CHOOSE f \in E : Cardinality(UpTo(f.seq)) = i
    <2>4. c \in E /\ Cardinality(UpTo(c.seq)) = i
      BY <2>2
    <2> HIDE DEF c, UpTo
    <2>5. c.seq - low + 1 = i /\ c.seq \in Nat
      BY <2>4, <1>3 DEF Number, Events
    <2> QED BY <2>3, <2>4, <2>5 DEF c, Number
  <1>5. InOrder(E) \in Seq(Events) /\ Len(InOrder(E)) = last - low + 1
    <2> DEFINE N == last - low + 1
    <2>1. N \in Nat
      BY DEF Number
    <2>2. InOrder(E) \in [1..N -> Events]
      <3> DEFINE c(i) == CHOOSE e \in E : Cardinality({f \in E : f.seq <= e.seq}) = i
      <3>1. InOrder(E) = [i \in 1..N |-> c(i)]
        BY <1>2 DEF InOrder
      <3> HIDE DEF c
      <3>2. \A i \in 1..N : InOrder(E)[i] \in Events
        BY <1>4
      <3> HIDE DEF N
      <3>3. \A i \in 1..N : c(i) \in Events
        BY <3>1, <3>2
      <3> QED BY <3>1, <3>3
    <2> HIDE DEF N
    <2>3. InOrder(E) \in Seq(Events) /\ Len(InOrder(E)) = N
      BY <2>1, <2>2, SeqDef, LenProperties
    <2> QED BY <2>3 DEF N
  <1>6. E = {} <=> last - low + 1 = 0
    <2>1. E = {} => last - low + 1 = 0
      BY <1>2, FS_EmptySet
    <2>2. last - low + 1 = 0 => E = {}
      BY DEF Number
    <2> QED BY <2>1, <2>2
  <1> QED BY <1>4, <1>5, <1>6, EmptySeq

---------------------------------------------------------------------------
(* One reader goes on.                                                      *)

(* The promises to a reader are the same where nothing is lost meanwhile.   *)
LEMMA SameForReader ==
  ASSUME UNCHANGED <<held, journal, lost>>, NEW k, ReaderOK(k)
  PROVE  ReaderOK(k)'
  <1>1. \A n : Had(k, n)' <=> Had(k, n)
    BY DEF Had
  <1>2. \A n : Coming(k, n)' <=> Coming(k, n)
    BY <1>1 DEF Coming, HasNumber
  <1>3. \A n : AtHand(k, n)' <=> AtHand(k, n)
    BY <1>2 DEF AtHand, HasNumber
  <1>4. NoGap(k)'
    BY <1>1, Zenon DEF ReaderOK, NoGap
  <1>5. Follows(k) => Follows(k)'
    BY <1>2, <1>3, Zenon DEF Follows
  <1>6. (k \in Reader)'
    BY DEF ReaderOK
  <1> QED BY <1>4, <1>5, <1>6 DEF ReaderOK

LEMMA ReaderStep ==
  ASSUME Sound, NEW r \in Readers, NEW k, ReaderOK(k), InReader(k) \subseteq Seen,
         r \in Local => k.batch = <<>>,
         reader' = [reader EXCEPT ![r] = k],
         UNCHANGED <<run, held, journal, lost>>, faults'.failures = faults.failures
  PROVE  Sound'
  <1>1. DOMAIN reader = Readers /\ \A s \in Readers : reader'[s] = IF s = r THEN k ELSE reader[s]
    BY DEF Sound, ReadersOK
  <1>2. RunShape' /\ JournalShape' /\ BufferWhole' /\ Forgotten' /\ JournalEnd' /\ JournalWhole'
    BY DEF Sound, RunShape, JournalShape, BufferWhole, Forgotten, JournalEnd, JournalWhole
  <1>3. OneEventEach'
    <2>1. \A s \in Readers : InReader(reader[s])' \subseteq Seen
      <3> SUFFICES ASSUME NEW s \in Readers PROVE InReader(reader[s])' \subseteq Seen
        OBVIOUS
      <3>1. CASE s = r
        <4>1. InReader(reader[s])' = InReader(k)
          BY <1>1, <3>1 DEF InReader, Items
        <4> QED BY <4>1
      <3>2. CASE s # r
        <4>1. InReader(reader[s])' = InReader(reader[s])
          BY <1>1, <3>2 DEF InReader, Items
        <4> QED BY <4>1 DEF Seen
      <3> QED BY <3>1, <3>2
    <2>2. journal'.events \cup Items(run'.buffer) \subseteq Seen
      BY DEF Seen
    <2>3. Seen' \subseteq Seen
      <3>1. Seen' = journal'.events \cup Items(run'.buffer)
                      \cup UNION {InReader(reader[s])' : s \in Readers}
        BY DEF Seen, Items
      <3> QED BY <2>1, <2>2, <3>1
    <2> QED BY <2>3 DEF Sound, OneEventEach
  <1>4. ReadersOK'
    <2>1. reader' = [s \in Readers |-> reader'[s]]
      BY <1>1 DEF Sound, ReadersOK
    <2>2. ASSUME NEW s \in Readers PROVE ReaderOK(reader[s])'
      <3> DEFINE j == reader'[s]
      <3>1. ReaderOK(j)
        BY <1>1 DEF Sound, ReadersOK
      <3>2. PICK x : x = j
        OBVIOUS
      <3>3. ReaderOK(x)'
        BY <3>1, <3>2, SameForReader
      <3> QED BY <3>2, <3>3
    <2>3. \A s \in Local : reader'[s].batch = <<>>
      BY <1>1 DEF Sound, ReadersOK, Readers
    <2> QED BY <2>1, <2>2, <2>3 DEF ReadersOK
  <1> QED BY <1>2, <1>3, <1>4 DEF Sound

(* An event that follows all that came is written to the stream.            *)
LEMMA Sent ==
  ASSUME NEW k \in Reader, NoGap(k), NEW e \in Events,
         \A n \in 1..e.seq - 1 : Coming(k, n),
         NEW j \in Reader, j.pipe = Append(k.pipe, e), j.got = k.got, j.after = k.after
  PROVE  /\ NoGap(j)
         /\ \A n : Coming(k, n) => Coming(j, n)
         /\ Coming(j, e.seq)
         /\ InReader(j) \subseteq InReader(k) \cup {e} \cup Items(j.batch)
  <1>1. k.pipe \in Seq(Events)
    BY DEF Reader
  <1>2. \A n : Had(k, n) <=> Had(j, n)
    BY DEF Had
  <1>3. \A n : Coming(k, n) => Coming(j, n)
    BY <1>1, <1>2, AppendItem DEF Coming
  <1>4. Coming(j, e.seq)
    BY <1>1, AppendItem DEF Coming
  <1>5. NoGap(j)
    <2>1. \A n \in 1..j.after : Had(j, n)
      BY <1>2 DEF NoGap
    <2>2. ASSUME NEW i \in 1..Len(j.pipe), NEW n \in 1..j.pipe[i].seq - 1
          PROVE  Had(j, n) \/ \E m \in 1..i - 1 : j.pipe[m].seq = n
      <3>1. CASE i \in 1..Len(k.pipe)
        <4>1. j.pipe[i] = k.pipe[i] /\ Len(k.pipe) \in Nat
          BY <1>1, <3>1, AppendItem
        <4>2. Had(k, n) \/ \E m \in 1..i - 1 : k.pipe[m].seq = n
          BY <2>2, <3>1, <4>1 DEF NoGap
        <4>3. \A m \in 1..i - 1 : j.pipe[m] = k.pipe[m]
          BY <1>1, <3>1, <4>1, AppendItem
        <4> QED BY <4>2, <4>3, <1>2
      <3>2. CASE i \notin 1..Len(k.pipe)
        <4>1. i = Len(k.pipe) + 1 /\ j.pipe[i] = e /\ Len(k.pipe) \in Nat
          BY <1>1, <2>2, <3>2, AppendItem
        <4>2. Coming(k, n)
          BY <2>2, <4>1
        <4>3. CASE HasNumber(k.pipe, n)
          <5>1. PICK m \in 1..Len(k.pipe) : k.pipe[m].seq = n
            BY <4>3 DEF HasNumber
          <5>2. m \in 1..i - 1 /\ j.pipe[m] = k.pipe[m]
            BY <5>1, <4>1, <1>1, AppendItem
          <5> QED BY <5>1, <5>2
        <4> QED BY <4>2, <4>3, <1>2 DEF Coming
      <3> QED BY <3>1, <3>2
    <2> QED BY <2>1, <2>2 DEF NoGap
  <1>6. InReader(j) \subseteq InReader(k) \cup {e} \cup Items(j.batch)
    <2>1. Items(j.pipe) = Items(k.pipe) \cup {e}
      BY <1>1, AppendItem
    <2> QED BY <2>1 DEF InReader
  <1> QED BY <1>3, <1>4, <1>5, <1>6

LEMMA Offset ==
  ASSUME NEW p \in Nat, NEW q \in Nat, NEW i \in 1..p + q, i > p
  PROVE  i - p \in 1..q /\ i = p + (i - p)
  OBVIOUS

(* The same for all that a poll has brought.                                *)
LEMMA Polls ==
  ASSUME NEW k \in Reader, NoGap(k), Follows(k),
         NEW j \in Reader, Joined(j.pipe, k.pipe, k.batch), j.got = k.got, j.after = k.after
  PROVE  /\ NoGap(j)
         /\ Reached(k) \in Nat
         /\ \A n \in 1..Reached(k) : Coming(j, n)
         /\ InReader(j) \subseteq InReader(k) \cup Items(j.batch)
  <1>1. k.pipe \in Seq(Events) /\ k.batch \in Seq(Events) /\ k.cursor \in Nat
    BY DEF Reader
  <1>2. \A n : Had(k, n) <=> Had(j, n)
    BY DEF Had
  <1>3. \A n : Coming(k, n) \/ HasNumber(k.batch, n) => Coming(j, n)
    BY <1>2 DEF Coming, Joined
  <1>a. Len(k.pipe) \in Nat /\ Len(k.batch) \in Nat
    BY <1>1, LenProperties
  <1>b. Len(j.pipe) = Len(k.pipe) + Len(k.batch)
    BY DEF Joined
  <1>c. \A i \in 1..Len(k.pipe) : j.pipe[i] = k.pipe[i]
    BY DEF Joined
  <1>d. \A i \in 1..Len(k.batch) : j.pipe[Len(k.pipe) + i] = k.batch[i]
    BY DEF Joined
  <1>4. NoGap(j)
    <2>1. \A n \in 1..j.after : Had(j, n)
      BY <1>2 DEF NoGap
    <2>2. ASSUME NEW i \in 1..Len(j.pipe), NEW n \in 1..j.pipe[i].seq - 1
          PROVE  Had(j, n) \/ \E m \in 1..i - 1 : j.pipe[m].seq = n
      <3>1. CASE i \in 1..Len(k.pipe)
        <4>1. j.pipe[i] = k.pipe[i]
          BY <1>c, <3>1
        <4>2. Had(k, n) \/ \E m \in 1..i - 1 : k.pipe[m].seq = n
          BY <2>2, <3>1, <4>1 DEF NoGap
        <4>3. \A m \in 1..i - 1 : j.pipe[m] = k.pipe[m]
          <5>1. \A m \in 1..i - 1 : m \in 1..Len(k.pipe)
            BY <1>a, <3>1
          <5> QED BY <5>1, <1>c
        <4> QED BY <4>2, <4>3, <1>2
      <3>2. CASE i \notin 1..Len(k.pipe)
        <4> DEFINE b == i - Len(k.pipe)
        <4>1. b \in 1..Len(k.batch) /\ i = Len(k.pipe) + b
          <5>1. i \in 1..Len(k.pipe) + Len(k.batch)
            BY <1>b
          <5>2. i > Len(k.pipe)
            BY <1>a, <3>2, <5>1
          <5> QED BY <1>a, <5>1, <5>2, Offset
        <4> HIDE DEF b
        <4>2. j.pipe[i] = k.batch[b]
          BY <4>1, <1>d
        <4>3. Coming(k, n) \/ \E m \in 1..b - 1 : k.batch[m].seq = n
          BY <2>2, <4>1, <4>2 DEF Follows
        <4>4. CASE HasNumber(k.pipe, n)
          <5>1. PICK m \in 1..Len(k.pipe) : k.pipe[m].seq = n
            BY <4>4 DEF HasNumber
          <5>2. m \in 1..i - 1
            BY <5>1, <4>1, <1>a
          <5>3. j.pipe[m] = k.pipe[m]
            BY <5>1, <1>c
          <5> QED BY <5>1, <5>2, <5>3
        <4>5. CASE \E m \in 1..b - 1 : k.batch[m].seq = n
          <5>1. PICK m \in 1..b - 1 : k.batch[m].seq = n
            BY <4>5
          <5>2. Len(k.pipe) + m \in 1..i - 1 /\ m \in 1..Len(k.batch)
            BY <5>1, <4>1, <1>a
          <5>3. j.pipe[Len(k.pipe) + m] = k.batch[m]
            BY <5>2, <1>d
          <5> QED BY <5>1, <5>2, <5>3
        <4> QED BY <4>3, <4>4, <4>5, <1>2 DEF Coming
      <3> QED BY <3>1, <3>2
    <2> QED BY <2>1, <2>2 DEF NoGap
  <1>5. Reached(k) \in Nat /\ \A n \in 1..Reached(k) : Coming(j, n)
    <2>1. CASE k.batch = <<>>
      <3>1. Reached(k) = k.cursor
        BY <2>1 DEF Reached
      <3> QED BY <3>1, <1>1, <1>3 DEF Follows
    <2>2. CASE k.batch # <<>>
      <3> DEFINE b == Len(k.batch)
      <3>1. b \in 1..Len(k.batch) /\ k.batch[b] \in Events
        BY <1>1, <1>a, <2>2, EmptySeq, ElementOfSeq
      <3>2. Reached(k) = k.batch[b].seq /\ Reached(k) \in Nat
        BY <2>2, <3>1 DEF Reached, Events, Number
      <3> HIDE DEF b
      <3>3. HasNumber(k.batch, Reached(k))
        BY <3>1, <3>2 DEF HasNumber
      <3>4. ASSUME NEW n \in 1..Reached(k) - 1
            PROVE  Coming(k, n) \/ HasNumber(k.batch, n)
        <4>1. Coming(k, n) \/ \E m \in 1..b - 1 : k.batch[m].seq = n
          BY <3>1, <3>2, <3>4 DEF Follows
        <4>2. \A m \in 1..b - 1 : m \in 1..Len(k.batch)
          BY <3>1, <1>a
        <4> QED BY <4>1, <4>2 DEF HasNumber
      <3>5. \A n \in 1..Reached(k) : n = Reached(k) \/ n \in 1..Reached(k) - 1
        BY <3>2
      <3> QED BY <1>3, <3>2, <3>3, <3>4, <3>5
    <2> QED BY <2>1, <2>2
  <1>6. InReader(j) \subseteq InReader(k) \cup Items(j.batch)
    <2>1. Items(j.pipe) = Items(k.pipe) \cup Items(k.batch)
      BY DEF Joined
    <2> QED BY <2>1 DEF InReader
  <1> QED BY <1>4, <1>5, <1>6

(* What a reader's state says, by name.                                     *)
LEMMA ReaderFacts ==
  ASSUME Sound, NEW r \in Readers
  PROVE  /\ reader[r] \in Reader /\ NoGap(reader[r])
         /\ reader[r].stage = "open" => Follows(reader[r])
         /\ InReader(reader[r]) \subseteq Seen
         /\ r \in Local => reader[r].batch = <<>>
  <1>1. ReaderOK(reader[r]) /\ (r \in Local => reader[r].batch = <<>>)
    BY DEF Sound, ReadersOK
  <1>2. InReader(reader[r]) \subseteq Seen
    BY DEF Seen
  <1> QED BY <1>1, <1>2 DEF ReaderOK

(* NoGap says nothing of the stage, nor of what a device does for a reader. *)
LEMMA SameGap ==
  ASSUME NEW k, NoGap(k), NEW j, j.pipe = k.pipe, j.got = k.got, j.after = k.after
  PROVE  NoGap(j) /\ \A n : Coming(k, n) <=> Coming(j, n)
  <1>1. \A n : Had(k, n) <=> Had(j, n)
    BY DEF Had
  <1> QED BY <1>1 DEF NoGap, Coming

LEMMA EmptyBatch == Items(<<>>) = {} /\ \A n : ~HasNumber(<<>>, n)
  BY DEF Items, HasNumber

(* A stream that is opened goes on where its reader is.                     *)
LEMMA Starts ==
  ASSUME Sound, NEW k \in Reader, NoGap(k), NEW after \in Nat,
         \A n \in 1..after : Coming(k, n), Known
  PROVE  /\ ReaderOK(StartAt(k, after))
         /\ StartAt(k, after).batch = <<>>
         /\ StartAt(k, after).pipe = k.pipe /\ StartAt(k, after).got = k.got
  <1> DEFINE j == StartAt(k, after)
  <1>1. run.first \in Number /\ run.last \in Nat /\ journal.last \in Nat /\ run.finished \in BOOLEAN
    BY DEF Sound, RunShape, JournalShape
  <1>a. (IF after + 1 > run.first THEN after + 1 ELSE run.first) \in Number
    BY <1>1 DEF Number
  <1>b. [finished |-> IF held THEN run.finished ELSE TRUE,
         last |-> IF held THEN run.last ELSE journal.last] \in [finished : BOOLEAN, last : Nat]
    BY <1>1
  <1>c. <<>> \in Seq(Events)
    OBVIOUS
  <1>2. j \in Reader
    BY <1>a, <1>b, <1>c DEF StartAt, Reader
  <1>3. /\ j.pipe = k.pipe /\ j.got = k.got /\ j.after = k.after /\ j.batch = <<>>
        /\ j.cursor = after /\ j.stage = "open"
        /\ j.from = IF held THEN "run" ELSE "archive"
        /\ j.next = IF after + 1 > run.first THEN after + 1 ELSE run.first
    BY DEF StartAt, Reader
  <1> HIDE DEF j
  <1>4. NoGap(j) /\ \A n : Coming(k, n) <=> Coming(j, n)
    BY <1>3, SameGap
  <1>5. ASSUME NEW n \in 1..j.next - 1 PROVE AtHand(j, n)
    <2>1. n \in 1..after \/ n \in 1..run.first - 1
      BY <1>1, <1>3 DEF Number
    <2>2. n \in 1..run.first - 1 => n \in lost
      BY DEF Sound, BufferWhole
    <2> QED BY <2>1, <2>2, <1>4 DEF AtHand, Coming, Had
  <1>6. Len(j.batch) = 0
    BY <1>3
  <1>7. j.from = "archive" => ~held /\ journal.finished
    BY <1>3 DEF Known, Archived
  <1>8. Follows(j)
    BY <1>3, <1>4, <1>5, <1>6, <1>7 DEF Follows
  <1>9. ReaderOK(j)
    BY <1>2, <1>4, <1>8 DEF ReaderOK
  <1> QED BY <1>3, <1>9 DEF j

(* What the generator yields: the event after all that is at hand, or       *)
(* nothing because that one is gone.                                        *)
LEMMA SlotFacts ==
  ASSUME Sound, NEW r \in Readers, NEW k, k = reader[r], k.stage = "open", HasMore(k)
  PROVE  /\ Slot(k) = Nothing => k.from = "run" /\ k.next \in lost
         /\ Slot(k) # Nothing =>
              /\ Slot(k) \in Events /\ Slot(k) \in Seen
              /\ \A n \in 1..Slot(k).seq - 1 : AtHand(k, n)
              /\ k.from = "run" => Slot(k).seq = k.next
  <1>1. k \in Reader /\ Follows(k)
    BY ReaderFacts
  <1>2. RunShape /\ JournalShape /\ BufferWhole /\ Forgotten /\ JournalEnd
    BY DEF Sound
  <1>n. k.next \in Nat \ {0} /\ run.first \in Nat \ {0} /\ run.last \in Nat /\ run.buffer \in Seq(Events)
    BY <1>1, <1>2 DEF Reader, RunShape, Number
  <1>3. CASE k.from = "archive"
    <2>1. ~held /\ journal.finished
      BY <1>1, <1>3 DEF Follows
    <2>2. journal.last = run.last /\ \E e \in journal.events : e.seq = journal.last
      BY <1>2, <2>1 DEF JournalEnd
    <2>3. Slot(k) \in journal.events /\ Slot(k).seq = journal.last
      BY <1>3, <2>2 DEF Slot
    <2>4. Slot(k) \in Events /\ Slot(k) \in Seen
      BY <2>3, <1>2 DEF JournalShape, Seen
    <2>5. \A n \in 1..Slot(k).seq - 1 : n \in lost
      BY <2>1, <2>2, <2>3, <1>2, <1>n DEF Forgotten
    <2>6. Slot(k) # Nothing
      BY <2>4 DEF Events, Nothing, Number
    <2> QED BY <1>3, <2>4, <2>5, <2>6 DEF AtHand, Coming, Had
  <1>4. CASE k.from = "run"
    <2> DEFINE i == k.next - run.first + 1
    <2>1. k.next <= run.last
      BY <1>4 DEF HasMore
    <2>a. DOMAIN run.buffer = 1..Len(run.buffer)
      BY <1>n, LenProperties
    <2>2. CASE i \in 1..Len(run.buffer)
      <3>1. Slot(k) = run.buffer[i]
        BY <1>4, <2>2, <2>a DEF Slot
      <3>2. Slot(k) \in Events /\ Slot(k) \in Seen
        <4>1. run.buffer[i] \in Events
          BY <2>2, <1>n, ElementOfSeq
        <4>2. run.buffer[i] \in Items(run.buffer)
          BY <2>2 DEF Items
        <4> QED BY <3>1, <4>1, <4>2 DEF Seen
      <3>3. run.buffer[i].seq = run.first + i - 1
        BY <2>2, <1>2 DEF BufferWhole
      <3>4. Slot(k).seq = k.next
        BY <3>1, <3>3, <1>n
      <3>5. Slot(k) # Nothing
        BY <3>2 DEF Events, Nothing, Number
      <3>6. \A n \in 1..k.next - 1 : AtHand(k, n)
        BY <1>1, <1>4 DEF Follows
      <3> QED BY <3>2, <3>4, <3>5, <3>6
    <2>3. CASE i \notin 1..Len(run.buffer)
      <3>1. Slot(k) = Nothing
        <4>1. k.from # "archive"
          BY <1>4
        <4> QED BY <4>1, <2>3, <2>a DEF Slot
      <3>2. Len(run.buffer) = run.last - run.first + 1
        BY <1>2 DEF BufferWhole
      <3>3. k.next \in 1..run.first - 1
        BY <2>1, <2>3, <3>2, <1>n
      <3>4. k.next \in lost
        BY <3>3, <1>2 DEF BufferWhole
      <3> QED BY <1>4, <3>1, <3>4
    <2> QED BY <2>2, <2>3
  <1> QED BY <1>1, <1>3, <1>4 DEF Reader

(* The archive yields once; the buffer, number after number.                *)
LEMMA YieldFacts ==
  ASSUME NEW k \in Reader, journal.last \in Nat
  PROVE  /\ AfterYield(k) \in Reader
         /\ AfterYield(k) = [k EXCEPT !.next = AfterYield(k).next]
         /\ k.from = "run" => AfterYield(k).next = k.next + 1
  <1>1. k.from \in {"run", "archive"} /\ k.next \in Number
    BY DEF Reader
  <1>a. journal.last + 1 \in Number /\ k.next + 1 \in Number
    BY <1>1 DEF Number
  <1>2. AfterYield(k) \in Reader
    BY <1>a DEF AfterYield, Reader
  <1>3. k.from = "run" => AfterYield(k).next = k.next + 1
    BY DEF AfterYield, Reader
  <1>4. AfterYield(k) = [k EXCEPT !.next = AfterYield(k).next]
    BY DEF AfterYield, Reader
  <1> QED BY <1>2, <1>3, <1>4

LEMMA YieldSound ==
  ASSUME Sound, NEW r \in Readers, Yield(r)
  PROVE  Sound'
  <1> DEFINE k == reader[r]
             e == Slot(k)
  <1>1. k \in Reader /\ NoGap(k) /\ Follows(k) /\ InReader(k) \subseteq Seen /\ k.batch = <<>>
    BY ReaderFacts DEF Yield
  <1>2. journal.last \in Nat
    BY DEF Sound, JournalShape
  <1>3. /\ e = Nothing => k.from = "run" /\ k.next \in lost
        /\ e # Nothing =>
             /\ e \in Events /\ e \in Seen
             /\ \A n \in 1..e.seq - 1 : AtHand(k, n)
             /\ k.from = "run" => e.seq = k.next
    BY SlotFacts DEF Yield
  <1>4. CASE e = Nothing
    <2> DEFINE j == [k EXCEPT !.stage = "closed"]
    <2>1. reader' = [reader EXCEPT ![r] = j] /\ UNCHANGED <<run, held, journal, faults, lost>>
      BY <1>4 DEF Yield
    <2>2. /\ j \in Reader /\ j.stage = "closed" /\ j.batch = <<>>
          /\ j.pipe = k.pipe /\ j.got = k.got /\ j.after = k.after
      BY <1>1 DEF Reader
    <2> HIDE DEF j, k
    <2>3. NoGap(j)
      BY <1>1, <2>2, SameGap
    <2>4. ReaderOK(j) /\ InReader(j) \subseteq Seen
      BY <1>1, <2>2, <2>3 DEF ReaderOK, InReader
    <2> QED BY <2>1, <2>2, <2>4, ReaderStep
  <1>5. CASE e # Nothing
    <2> DEFINE j == [AfterYield(k) EXCEPT !.pipe = Append(k.pipe, e)]
    <2>1. reader' = [reader EXCEPT ![r] = j] /\ UNCHANGED <<run, held, journal, faults, lost>>
      BY <1>5 DEF Yield
    <2>a. /\ AfterYield(k) \in Reader
          /\ AfterYield(k) = [k EXCEPT !.next = AfterYield(k).next]
          /\ k.from = "run" => AfterYield(k).next = k.next + 1
      BY <1>1, <1>2, YieldFacts
    <2>b. k.pipe \in Seq(Events) /\ Append(k.pipe, e) \in Seq(Events)
      BY <1>1, <1>3, <1>5, AppendItem DEF Reader
    <2> HIDE DEF k, e
    <2>2. /\ j \in Reader /\ j.batch = <<>> /\ j.stage = k.stage
          /\ j.pipe = Append(k.pipe, e) /\ j.got = k.got /\ j.after = k.after
          /\ j.from = k.from /\ j.cursor = k.cursor /\ j.next = AfterYield(k).next
      BY <1>1, <2>a, <2>b DEF Reader
    <2> HIDE DEF j
    <2>3. \A n : AtHand(k, n) => Coming(k, n)
      BY <1>1, EmptyBatch DEF AtHand
    <2>4. /\ NoGap(j)
          /\ \A n : Coming(k, n) => Coming(j, n)
          /\ Coming(j, e.seq)
          /\ InReader(j) \subseteq InReader(k) \cup {e} \cup Items(j.batch)
      BY <1>1, <1>3, <1>5, <2>2, <2>3, Sent
    <2>5. Follows(j)
      <3>1. k.from = "run" => \A n \in 1..j.next - 1 : AtHand(j, n)
        <4> SUFFICES ASSUME k.from = "run", NEW n \in 1..j.next - 1 PROVE Coming(j, n)
          BY DEF AtHand
        <4>1. n \in 1..k.next - 1 \/ n = k.next
          BY <2>a, <2>2, <1>1 DEF Reader, Number
        <4>2. n \in 1..k.next - 1 => AtHand(k, n)
          BY <1>1 DEF Follows
        <4>3. n = k.next => n = e.seq
          BY <1>3, <1>5
        <4> QED BY <4>1, <4>2, <4>3, <2>3, <2>4
      <3>2. Len(j.batch) = 0
        BY <2>2
      <3> QED BY <1>1, <2>2, <2>4, <3>1, <3>2 DEF Follows
    <2>6. InReader(j) \subseteq Seen
      BY <1>1, <1>3, <1>5, <2>2, <2>4, EmptyBatch
    <2>7. ReaderOK(j)
      BY <2>2, <2>4, <2>5 DEF ReaderOK
    <2> QED BY <2>1, <2>2, <2>6, <2>7, ReaderStep
  <1> QED BY <1>4, <1>5

LEMMA StreamEndsSound ==
  ASSUME Sound, NEW r \in Readers, StreamEnds(r)
  PROVE  Sound'
  <1> DEFINE k == reader[r]
             j == [k EXCEPT !.stage = "closed"]
  <1>1. k \in Reader /\ NoGap(k) /\ InReader(k) \subseteq Seen /\ (r \in Local => k.batch = <<>>)
    BY ReaderFacts
  <1>2. reader' = [reader EXCEPT ![r] = j] /\ UNCHANGED <<run, held, journal, faults, lost>>
    BY DEF StreamEnds
  <1> HIDE DEF k
  <1>3. /\ j \in Reader /\ j.stage = "closed" /\ j.batch = k.batch
        /\ j.pipe = k.pipe /\ j.got = k.got /\ j.after = k.after
    BY <1>1 DEF Reader
  <1> HIDE DEF j
  <1>4. NoGap(j)
    BY <1>1, <1>3, SameGap
  <1>5. ReaderOK(j) /\ InReader(j) \subseteq Seen
    BY <1>1, <1>3, <1>4 DEF ReaderOK, InReader
  <1> QED BY <1>1, <1>2, <1>3, <1>5, ReaderStep

LEMMA CollectSound ==
  ASSUME Sound, NEW r \in Readers, Collect(r)
  PROVE  Sound'
  <1> DEFINE k == reader[r]
             e == Slot(k)
             y == AfterYield(k)
  <1>1. /\ k \in Reader /\ NoGap(k) /\ Follows(k) /\ InReader(k) \subseteq Seen
        /\ r \in Remote /\ k.stage = "open"
    BY ReaderFacts DEF Collect
  <1>2. journal.last \in Nat
    BY DEF Sound, JournalShape
  <1>3. /\ e = Nothing => k.from = "run" /\ k.next \in lost
        /\ e # Nothing =>
             /\ e \in Events /\ e \in Seen
             /\ \A n \in 1..e.seq - 1 : AtHand(k, n)
             /\ k.from = "run" => e.seq = k.next
    BY SlotFacts DEF Collect
  <1>4. r \notin Local
    BY <1>1, EventConstants
  <1>5. y \in Reader /\ y = [k EXCEPT !.next = y.next] /\ (k.from = "run" => y.next = k.next + 1)
    BY <1>1, <1>2, YieldFacts
  <1>6. ASSUME NEW j \in Reader,
               j.pipe = k.pipe, j.got = k.got, j.after = k.after, j.from = k.from,
               j.cursor = k.cursor, j.next = y.next,
               Items(j.batch) \subseteq Items(k.batch) \cup (IF e = Nothing THEN {} ELSE {e}),
               \A n : HasNumber(k.batch, n) => HasNumber(j.batch, n),
               k.from = "run" => AtHand(j, k.next),
               \A i \in 1..Len(j.batch) : \A n \in 1..j.batch[i].seq - 1 :
                 Coming(k, n) \/ \E m \in 1..i - 1 : j.batch[m].seq = n,
               reader' = [reader EXCEPT ![r] = j], UNCHANGED <<run, held, journal, faults, lost>>
        PROVE  Sound'
    <2> HIDE DEF k, e, y
    <2>1. NoGap(j) /\ \A n : Coming(k, n) <=> Coming(j, n)
      BY <1>1, <1>6, SameGap
    <2>2. k.from = "run" => \A n \in 1..j.next - 1 : AtHand(j, n)
      <3> SUFFICES ASSUME k.from = "run", NEW n \in 1..j.next - 1 PROVE AtHand(j, n)
        OBVIOUS
      <3>1. n \in 1..k.next - 1 \/ n = k.next
        BY <1>1, <1>5, <1>6 DEF Reader, Number
      <3>2. n \in 1..k.next - 1 => AtHand(k, n)
        BY <1>1 DEF Follows
      <3> QED BY <1>6, <2>1, <3>1, <3>2 DEF AtHand
    <2>3. Follows(j)
      BY <1>1, <1>6, <2>1, <2>2 DEF Follows
    <2>4. InReader(j) \subseteq Seen
      BY <1>1, <1>3, <1>6 DEF InReader
    <2> QED BY <1>4, <1>6, <2>1, <2>3, <2>4, ReaderStep DEF ReaderOK
  <1>b. k.batch \in Seq(Events) /\ Len(k.batch) \in Nat
    BY <1>1, LenProperties DEF Reader
  <1>o. \A i \in 1..Len(k.batch) : \A n \in 1..k.batch[i].seq - 1 :
          Coming(k, n) \/ \E m \in 1..i - 1 : k.batch[m].seq = n
    BY <1>1 DEF Follows
  <1>7. CASE e = Nothing
    <2> DEFINE j == [y EXCEPT !.holed = TRUE]
    <2>1. reader' = [reader EXCEPT ![r] = j] /\ UNCHANGED <<run, held, journal, faults, lost>>
      BY <1>7 DEF Collect
    <2>a. k.next \in lost
      BY <1>3, <1>7
    <2> HIDE DEF k, e, y
    <2>2. /\ j \in Reader /\ j.batch = k.batch
          /\ j.pipe = k.pipe /\ j.got = k.got /\ j.after = k.after /\ j.from = k.from
          /\ j.cursor = k.cursor /\ j.next = y.next
      BY <1>1, <1>5 DEF Reader
    <2> HIDE DEF j
    <2>3. AtHand(j, k.next)
      BY <2>a DEF AtHand, Coming, Had
    <2>4. /\ Items(j.batch) \subseteq Items(k.batch) \cup (IF e = Nothing THEN {} ELSE {e})
          /\ \A n : HasNumber(k.batch, n) => HasNumber(j.batch, n)
      BY <2>2
    <2>5. \A i \in 1..Len(j.batch) : \A n \in 1..j.batch[i].seq - 1 :
            Coming(k, n) \/ \E m \in 1..i - 1 : j.batch[m].seq = n
      BY <1>o, <2>2
    <2>6. reader' = [reader EXCEPT ![r] = j] /\ UNCHANGED <<run, held, journal, faults, lost>>
      BY <2>1, <2>2
    <2> QED BY <1>6, <2>2, <2>3, <2>4, <2>5, <2>6
  <1>8. CASE e # Nothing /\ ~(e.seq > k.cursor)
    <2> DEFINE j == y
    <2>1. reader' = [reader EXCEPT ![r] = [y EXCEPT !.batch = y.batch]]
            /\ UNCHANGED <<run, held, journal, faults, lost>>
      BY <1>8 DEF Collect
    <2>f. Follows(k) /\ e \in Events /\ (k.from = "run" => e.seq = k.next) /\ ~(e.seq > k.cursor)
      BY <1>1, <1>3, <1>8
    <2> HIDE DEF k, e, y
    <2>2. /\ j \in Reader /\ j.batch = k.batch /\ [y EXCEPT !.batch = y.batch] = j
          /\ j.pipe = k.pipe /\ j.got = k.got /\ j.after = k.after /\ j.from = k.from
          /\ j.cursor = k.cursor /\ j.next = y.next
      BY <1>1, <1>5 DEF Reader
    <2> HIDE DEF j
    <2>3. k.from = "run" => AtHand(j, k.next)
      <3>1. k.from = "run" => k.next \in 1..k.cursor
        BY <1>1, <2>f DEF Reader, Number
      <3>2. k.from = "run" => Coming(k, k.next)
        BY <3>1, <2>f DEF Follows
      <3>3. \A n : Coming(k, n) <=> Coming(j, n)
        BY <1>1, <2>2, SameGap
      <3> QED BY <3>2, <3>3 DEF AtHand
    <2>4. /\ Items(j.batch) \subseteq Items(k.batch) \cup (IF e = Nothing THEN {} ELSE {e})
          /\ \A n : HasNumber(k.batch, n) => HasNumber(j.batch, n)
      BY <2>2
    <2>5. \A i \in 1..Len(j.batch) : \A n \in 1..j.batch[i].seq - 1 :
            Coming(k, n) \/ \E m \in 1..i - 1 : j.batch[m].seq = n
      BY <1>o, <2>2
    <2>6. reader' = [reader EXCEPT ![r] = j] /\ UNCHANGED <<run, held, journal, faults, lost>>
      BY <2>1, <2>2
    <2> QED BY <1>6, <2>2, <2>3, <2>4, <2>5, <2>6
  <1>9. CASE e # Nothing /\ e.seq > k.cursor
    <2> DEFINE j == [y EXCEPT !.batch = Append(y.batch, e)]
    <2>1. reader' = [reader EXCEPT ![r] = j] /\ UNCHANGED <<run, held, journal, faults, lost>>
      BY <1>9 DEF Collect
    <2>e. /\ e \in Events /\ e # Nothing /\ (k.from = "run" => e.seq = k.next)
          /\ \A n \in 1..e.seq - 1 : AtHand(k, n)
      BY <1>3, <1>9
    <2> HIDE DEF k, e, y
    <2>a. y.batch = k.batch /\ Append(k.batch, e) \in Seq(Events)
      BY <1>1, <1>5, <1>b, <2>e, AppendItem DEF Reader
    <2>2. /\ j \in Reader /\ j.batch = Append(k.batch, e)
          /\ j.pipe = k.pipe /\ j.got = k.got /\ j.after = k.after /\ j.from = k.from
          /\ j.cursor = k.cursor /\ j.next = y.next
      BY <1>1, <1>5, <2>a DEF Reader
    <2> HIDE DEF j
    <2>3. /\ Items(j.batch) = Items(k.batch) \cup {e}
          /\ \A n : HasNumber(k.batch, n) => HasNumber(j.batch, n)
          /\ HasNumber(j.batch, e.seq)
      BY <1>b, <2>e, <2>2, AppendItem
    <2>b. /\ Len(j.batch) = Len(k.batch) + 1
          /\ \A i \in 1..Len(k.batch) : j.batch[i] = k.batch[i]
          /\ j.batch[Len(k.batch) + 1] = e
      BY <1>b, <2>e, <2>2, AppendItem
    <2>4. ASSUME NEW i \in 1..Len(j.batch), NEW n \in 1..j.batch[i].seq - 1
          PROVE  Coming(k, n) \/ \E m \in 1..i - 1 : j.batch[m].seq = n
      <3>1. CASE i \in 1..Len(k.batch)
        <4>1. Coming(k, n) \/ \E m \in 1..i - 1 : k.batch[m].seq = n
          BY <1>o, <2>b, <2>4, <3>1
        <4>2. \A m \in 1..i - 1 : m \in 1..Len(k.batch)
          BY <1>b, <3>1
        <4> QED BY <4>1, <4>2, <2>b
      <3>2. CASE i \notin 1..Len(k.batch)
        <4>1. i = Len(k.batch) + 1
          BY <1>b, <2>b, <3>2
        <4>2. AtHand(k, n)
          BY <2>b, <2>e, <2>4, <4>1
        <4>3. HasNumber(k.batch, n) => \E m \in 1..i - 1 : j.batch[m].seq = n
          <5> SUFFICES ASSUME NEW m \in 1..Len(k.batch), k.batch[m].seq = n
                       PROVE  \E l \in 1..i - 1 : j.batch[l].seq = n
            BY DEF HasNumber
          <5>1. m \in 1..i - 1 /\ j.batch[m] = k.batch[m]
            BY <1>b, <2>b, <4>1
          <5> QED BY <5>1
        <4> QED BY <4>2, <4>3 DEF AtHand
      <3> QED BY <3>1, <3>2
    <2>5. k.from = "run" => AtHand(j, k.next)
      BY <2>e, <2>3 DEF AtHand
    <2> QED BY <1>6, <2>1, <2>2, <2>3, <2>4, <2>5, <2>e
  <1> QED BY <1>7, <1>8, <1>9

LEMMA PolledSound ==
  ASSUME Sound, NEW r \in Readers, Polled(r)
  PROVE  Sound'
  <1> DEFINE k == reader[r]
             w == Written(k)
             c == [w EXCEPT !.stage = "closed"]
             o == StartAt(w, Reached(k))
  <1>1. /\ k \in Reader /\ NoGap(k) /\ Follows(k) /\ InReader(k) \subseteq Seen
        /\ r \in Remote /\ k.stage = "open"
    BY ReaderFacts DEF Polled
  <1>2. r \notin Local
    BY <1>1, EventConstants
  <1>3. /\ UNCHANGED <<run, held, journal, faults, lost>>
        /\ \/ reader' = [reader EXCEPT ![r] = c]
           \/ Known /\ reader' = [reader EXCEPT ![r] = o]
    BY DEF Polled
  <1> HIDE DEF k
  <1>4. k.pipe \in Seq(Events) /\ k.batch \in Seq(Events)
    BY <1>1 DEF Reader
  <1>5. Joined(k.pipe \o k.batch, k.pipe, k.batch)
    BY <1>4, ConcatItem
  <1>6. k.pipe \o k.batch \in Seq(Events)
    BY <1>5 DEF Joined
  <1>7. /\ w \in Reader /\ w.pipe = k.pipe \o k.batch /\ w.got = k.got /\ w.after = k.after
        /\ w.batch = k.batch
    BY <1>1, <1>6 DEF Written, Reader
  <1>8. Joined(w.pipe, k.pipe, k.batch)
    BY <1>5, <1>7
  <1> HIDE DEF w
  <1>9. /\ NoGap(w) /\ Reached(k) \in Nat /\ \A n \in 1..Reached(k) : Coming(w, n)
        /\ InReader(w) \subseteq Seen
    <2>1. InReader(w) \subseteq InReader(k) \cup Items(w.batch)
      BY <1>1, <1>7, <1>8, Polls
    <2>2. Items(w.batch) \subseteq InReader(k)
      BY <1>7 DEF InReader
    <2> QED BY <1>1, <1>7, <1>8, <2>1, <2>2, Polls
  <1>10. CASE reader' = [reader EXCEPT ![r] = c]
    <2>1. /\ c \in Reader /\ c.stage = "closed" /\ c.batch = w.batch
          /\ c.pipe = w.pipe /\ c.got = w.got /\ c.after = w.after
      BY <1>7 DEF Reader
    <2> HIDE DEF c
    <2>2. NoGap(c)
      BY <1>9, <2>1, SameGap
    <2>3. ReaderOK(c) /\ InReader(c) \subseteq Seen
      BY <1>9, <2>1, <2>2 DEF ReaderOK, InReader
    <2> QED BY <1>2, <1>3, <1>10, <2>3, ReaderStep
  <1>11. CASE Known /\ reader' = [reader EXCEPT ![r] = o]
    <2>1. ReaderOK(o) /\ o.batch = <<>> /\ o.pipe = w.pipe /\ o.got = w.got
      BY <1>7, <1>9, <1>11, Starts
    <2>2. InReader(o) \subseteq Seen
      BY <1>9, <2>1, EmptyBatch DEF InReader
    <2> HIDE DEF o
    <2> QED BY <1>2, <1>3, <1>11, <2>1, <2>2, ReaderStep
  <1> QED BY <1>3, <1>10, <1>11

LEMMA ConnectSound ==
  ASSUME Sound, NEW r \in Readers, Connect(r)
  PROVE  Sound'
  <1> DEFINE k == reader[r]
             g == [k EXCEPT !.stage = "gone"]
             o == StartAt(k, k.after)
  <1>1. /\ k \in Reader /\ NoGap(k) /\ InReader(k) \subseteq Seen /\ (r \in Local => k.batch = <<>>)
    BY ReaderFacts
  <1>2. /\ UNCHANGED <<run, held, journal, faults, lost>>
        /\ \/ reader' = [reader EXCEPT ![r] = g]
           \/ Known /\ reader' = [reader EXCEPT ![r] = o]
    BY DEF Connect, Sound, ReadersOK
  <1> HIDE DEF k
  <1>3. CASE reader' = [reader EXCEPT ![r] = g]
    <2>1. /\ g \in Reader /\ g.stage = "gone" /\ g.batch = k.batch
          /\ g.pipe = k.pipe /\ g.got = k.got /\ g.after = k.after
      BY <1>1 DEF Reader
    <2> HIDE DEF g
    <2>2. NoGap(g)
      BY <1>1, <2>1, SameGap
    <2>3. ReaderOK(g) /\ InReader(g) \subseteq Seen
      BY <1>1, <2>1, <2>2 DEF ReaderOK, InReader
    <2> QED BY <1>1, <1>2, <1>3, <2>1, <2>3, ReaderStep
  <1>4. CASE Known /\ reader' = [reader EXCEPT ![r] = o]
    <2>1. k.after \in Nat /\ \A n \in 1..k.after : Coming(k, n)
      BY <1>1 DEF Reader, NoGap, Coming
    <2>2. ReaderOK(o) /\ o.batch = <<>> /\ o.pipe = k.pipe /\ o.got = k.got
      BY <1>1, <1>4, <2>1, Starts
    <2>3. InReader(o) \subseteq Seen
      BY <1>1, <2>2, EmptyBatch DEF InReader
    <2> HIDE DEF o
    <2> QED BY <1>2, <1>4, <2>2, <2>3, ReaderStep
  <1> QED BY <1>2, <1>3, <1>4

LEMMA NoGapOf ==
  ASSUME NEW j, NEW t, j.pipe = t, \A n \in 1..j.after : Had(j, n),
         \A i \in 1..Len(t) : \A n \in 1..t[i].seq - 1 :
           Had(j, n) \/ \E m \in 1..i - 1 : t[m].seq = n
  PROVE  NoGap(j)
  BY DEF NoGap

(* The reader takes the first event of its stream.                          *)
LEMMA Takes ==
  ASSUME NEW k \in Reader, NoGap(k), k.pipe # <<>>,
         NEW j \in Reader, j.pipe = Tail(k.pipe), k.got \subseteq j.got,
         Had(j, Head(k.pipe).seq), \A n \in 1..j.after : Had(j, n)
  PROVE  NoGap(j) /\ \A n : Coming(k, n) => Coming(j, n)
  <1>1. k.pipe \in Seq(Events)
    BY DEF Reader
  <1>2. \A n : Had(k, n) => Had(j, n)
    BY DEF Had
  <1> DEFINE t == Tail(k.pipe)
  <1>3. /\ Len(k.pipe) \in Nat \ {0} /\ Len(t) = Len(k.pipe) - 1 /\ Head(k.pipe) = k.pipe[1]
        /\ \A i \in 1..Len(t) : t[i] = k.pipe[i + 1]
        /\ \A n : HasNumber(k.pipe, n) => n = Head(k.pipe).seq \/ HasNumber(t, n)
    BY <1>1, TailItem
  <1>p. j.pipe = t
    OBVIOUS
  <1> HIDE DEF t
  <1>4. ASSUME NEW i \in 1..Len(t), NEW n \in 1..t[i].seq - 1
        PROVE  Had(j, n) \/ \E m \in 1..i - 1 : t[m].seq = n
    <2>1. i + 1 \in 1..Len(k.pipe) /\ t[i] = k.pipe[i + 1]
      BY <1>3
    <2>2. Had(k, n) \/ \E m \in 1..(i + 1) - 1 : k.pipe[m].seq = n
      BY <2>1, <1>4 DEF NoGap
    <2>3. ASSUME NEW m \in 1..(i + 1) - 1, k.pipe[m].seq = n
          PROVE  Had(j, n) \/ \E l \in 1..i - 1 : t[l].seq = n
      <3>1. CASE m = 1
        BY <3>1, <2>3, <1>3
      <3>2. CASE m # 1
        <4>1. m - 1 \in 1..i - 1 /\ m - 1 \in 1..Len(t) /\ (m - 1) + 1 = m
          BY <3>2, <1>3
        <4>2. t[m - 1] = k.pipe[m]
          BY <4>1, <1>3
        <4> QED BY <4>1, <4>2, <2>3
      <3> QED BY <3>1, <3>2
    <2> QED BY <2>2, <2>3, <1>2
  <1>5. NoGap(j)
    BY <1>4, <1>p, NoGapOf
  <1>6. \A n : Coming(k, n) => Coming(j, n)
    BY <1>2, <1>3, <1>p DEF Coming
  <1> QED BY <1>5, <1>6

LEMMA ReceiveSound ==
  ASSUME Sound, NEW r \in Readers, Receive(r)
  PROVE  Sound'
  <1> DEFINE k == reader[r]
             e == Head(k.pipe)
             d == [k EXCEPT !.pipe = Tail(@)]
             j == [k EXCEPT !.pipe = IF IsEnd(e) THEN <<>> ELSE Tail(@), !.after = e.seq,
                     !.got = @ \cup {e}, !.stage = IF IsEnd(e) THEN "ended" ELSE @]
  <1>1. /\ k \in Reader /\ NoGap(k) /\ InReader(k) \subseteq Seen /\ (r \in Local => k.batch = <<>>)
        /\ k.stage = "open" => Follows(k)
    BY ReaderFacts
  <1>2. k.pipe # <<>> /\ UNCHANGED <<run, held, journal, faults, lost>>
    BY DEF Receive
  <1>3. /\ e.seq <= k.after => reader' = [reader EXCEPT ![r] = d]
        /\ ~(e.seq <= k.after) => reader' = [reader EXCEPT ![r] = j]
    BY DEF Receive
  <1> HIDE DEF k
  <1>4. k.pipe \in Seq(Events) /\ k.after \in Nat
    BY <1>1 DEF Reader
  <1>5. /\ Tail(k.pipe) \in Seq(Events) /\ e \in Events /\ Len(k.pipe) \in Nat \ {0}
        /\ e = k.pipe[1] /\ Items(Tail(k.pipe)) \subseteq Items(k.pipe)
    BY <1>2, <1>4, TailItem
  <1>6. e.seq \in Nat \ {0} /\ e \in Items(k.pipe)
    BY <1>5 DEF Events, Number, Items
  <1>7. \A n \in 1..e.seq - 1 : Had(k, n)
    <2>1. 1 \in 1..Len(k.pipe) /\ 1..1 - 1 = {}
      BY <1>5
    <2> QED BY <2>1, <1>1, <1>5 DEF NoGap
  <1> HIDE DEF e
  <1>8. ASSUME NEW f \in Reader, f.batch = k.batch, f.from = k.from, f.next = k.next, f.cursor = k.cursor,
               \A n : Coming(k, n) => Coming(f, n), Follows(k)
        PROVE  Follows(f)
    BY <1>8 DEF Follows, AtHand
  <1>9. CASE e.seq <= k.after
    <2>1. /\ d \in Reader /\ d.pipe = Tail(k.pipe) /\ d.got = k.got /\ d.after = k.after
          /\ d.batch = k.batch /\ d.from = k.from /\ d.next = k.next /\ d.cursor = k.cursor
          /\ d.stage = k.stage
      BY <1>1, <1>5 DEF Reader
    <2> HIDE DEF d
    <2>2. (\A n : Had(k, n) => Had(d, n)) /\ \A n \in 1..k.after : Had(k, n)
      BY <1>1, <2>1 DEF Had, NoGap
    <2>3. Had(d, Head(k.pipe).seq) /\ \A n \in 1..d.after : Had(d, n)
      <3>1. e.seq \in 1..k.after
        BY <1>4, <1>6, <1>9
      <3> QED BY <2>1, <2>2, <3>1 DEF e
    <2>4. NoGap(d) /\ \A n : Coming(k, n) => Coming(d, n)
      BY <1>1, <1>2, <2>1, <2>3, Takes
    <2>5. d.stage = "open" => Follows(d)
      BY <1>1, <1>8, <2>1, <2>4
    <2>6. InReader(d) \subseteq Seen
      BY <1>1, <1>5, <2>1 DEF InReader
    <2> QED BY <1>1, <1>2, <1>3, <1>9, <2>1, <2>4, <2>5, <2>6, ReaderStep DEF ReaderOK
  <1>10. CASE ~(e.seq <= k.after)
    <2>1. /\ j \in Reader /\ j.pipe = (IF IsEnd(e) THEN <<>> ELSE Tail(k.pipe))
          /\ j.got = k.got \cup {e} /\ j.after = e.seq
          /\ j.batch = k.batch /\ j.from = k.from /\ j.next = k.next /\ j.cursor = k.cursor
          /\ j.stage = IF IsEnd(e) THEN "ended" ELSE k.stage
      <3>1. (IF IsEnd(e) THEN <<>> ELSE Tail(k.pipe)) \in Seq(Events)
        BY <1>5
      <3>2. k.got \cup {e} \in SUBSET Events /\ e.seq \in Nat
        BY <1>1, <1>5, <1>6 DEF Reader
      <3>3. (IF IsEnd(e) THEN "ended" ELSE k.stage) \in {"away", "open", "closed", "ended", "gone"}
        BY <1>1 DEF Reader
      <3> HIDE DEF IsEnd
      <3> QED BY <1>1, <3>1, <3>2, <3>3 DEF Reader
    <2> HIDE DEF j
    <2>2. \A n : Had(k, n) => Had(j, n)
      BY <2>1 DEF Had
    <2>3. Had(j, e.seq)
      BY <2>1 DEF Had
    <2>4. \A n \in 1..j.after : Had(j, n)
      BY <1>6, <1>7, <2>1, <2>2, <2>3
    <2>5. NoGap(j) /\ (~IsEnd(e) => \A n : Coming(k, n) => Coming(j, n))
      <3>1. CASE IsEnd(e)
        <4>1. Len(j.pipe) = 0
          BY <2>1, <3>1
        <4> QED BY <2>4, <3>1, <4>1 DEF NoGap
      <3>2. CASE ~IsEnd(e)
        <4>1. j.pipe = Tail(k.pipe) /\ k.got \subseteq j.got /\ Had(j, Head(k.pipe).seq)
          BY <2>1, <2>3, <3>2 DEF e
        <4> QED BY <1>1, <1>2, <2>1, <2>4, <4>1, Takes
      <3> QED BY <3>1, <3>2
    <2>6. j.stage = "open" => Follows(j)
      <3>1. j.stage = "open" => ~IsEnd(e) /\ k.stage = "open"
        BY <2>1
      <3> QED BY <1>1, <1>8, <2>1, <2>5, <3>1
    <2>7. InReader(j) \subseteq Seen
      BY <1>1, <1>5, <1>6, <2>1, EmptyBatch DEF InReader
    <2> QED BY <1>1, <1>2, <1>3, <1>10, <2>1, <2>5, <2>6, <2>7, ReaderStep DEF ReaderOK
  <1> QED BY <1>9, <1>10

LEMMA PauseSound ==
  ASSUME Sound, NEW r \in Readers, Pause(r)
  PROVE  Sound'
  <1> DEFINE k == reader[r]
             j == [k EXCEPT !.stage = "away"]
  <1>1. k \in Reader /\ NoGap(k) /\ InReader(k) \subseteq Seen /\ (r \in Local => k.batch = <<>>)
    BY ReaderFacts
  <1>2. reader' = [reader EXCEPT ![r] = j] /\ UNCHANGED <<run, held, journal, faults, lost>>
    BY DEF Pause
  <1> HIDE DEF k
  <1>3. /\ j \in Reader /\ j.stage = "away" /\ j.batch = k.batch
        /\ j.pipe = k.pipe /\ j.got = k.got /\ j.after = k.after
    BY <1>1 DEF Reader
  <1> HIDE DEF j
  <1>4. NoGap(j)
    BY <1>1, <1>3, SameGap
  <1>5. ReaderOK(j) /\ InReader(j) \subseteq Seen
    BY <1>1, <1>3, <1>4 DEF ReaderOK, InReader
  <1> QED BY <1>1, <1>2, <1>3, <1>5, ReaderStep

LEMMA CutSound ==
  ASSUME Sound, FaultShape, NEW r \in Readers, Cut(r)
  PROVE  Sound'
  <1> DEFINE k == reader[r]
             j == [k EXCEPT !.stage = "away", !.pipe = <<>>]
  <1>1. k \in Reader /\ NoGap(k) /\ InReader(k) \subseteq Seen /\ (r \in Local => k.batch = <<>>)
    BY ReaderFacts
  <1>2. /\ UNCHANGED <<run, held, journal, lost>> /\ faults'.failures = faults.failures
        /\ reader' = [reader EXCEPT ![r].stage = "away", ![r].pipe = <<>>]
    BY DEF Cut, FaultShape
  <1>3. reader' = [reader EXCEPT ![r] = j]
    BY <1>2 DEF Sound, ReadersOK
  <1> HIDE DEF k
  <1>a. <<>> \in Seq(Events)
    OBVIOUS
  <1>4. /\ j \in Reader /\ j.stage = "away" /\ j.batch = k.batch
        /\ j.pipe = <<>> /\ j.got = k.got /\ j.after = k.after
    BY <1>1, <1>a DEF Reader
  <1> HIDE DEF j
  <1>5. NoGap(j)
    <2>1. Len(j.pipe) = 0
      BY <1>4
    <2> QED BY <1>1, <1>4, <2>1 DEF NoGap, Had
  <1>6. ReaderOK(j) /\ InReader(j) \subseteq Seen
    BY <1>1, <1>4, <1>5, EmptyBatch DEF ReaderOK, InReader
  <1> QED BY <1>1, <1>2, <1>3, <1>4, <1>6, ReaderStep

---------------------------------------------------------------------------
(* The service goes on.                                                     *)

(* What is lost meanwhile takes no promise to a reader away.                *)
LEMMA KeptForReader ==
  ASSUME NEW k, ReaderOK(k), lost \subseteq lost',
         \/ k.stage # "open"
         \/ ~held /\ journal.finished => ~held' /\ journal'.finished
  PROVE  ReaderOK(k)'
  <1>1. \A n : Had(k, n) => Had(k, n)'
    BY DEF Had
  <1>2. \A n : Coming(k, n) => Coming(k, n)'
    BY <1>1 DEF Coming, HasNumber
  <1>3. \A n : AtHand(k, n) => AtHand(k, n)'
    BY <1>2 DEF AtHand, HasNumber
  <1>4. NoGap(k)'
    BY <1>1, Zenon DEF ReaderOK, NoGap
  <1>5. k.stage = "open" => Follows(k)'
    <2> SUFFICES ASSUME k.stage = "open" PROVE Follows(k)'
      OBVIOUS
    <2>1. Follows(k) /\ (~held /\ journal.finished => ~held' /\ journal'.finished)
      BY DEF ReaderOK
    <2> QED BY <2>1, <1>2, <1>3, Zenon DEF Follows
  <1> QED BY <1>4, <1>5 DEF ReaderOK

LEMMA ReadersKept ==
  ASSUME Sound, reader' = reader, lost \subseteq lost',
         ~held /\ journal.finished => ~held' /\ journal'.finished
  PROVE  ReadersOK'
  <1>1. ASSUME NEW r \in Readers PROVE ReaderOK(reader[r])'
    <2>1. PICK x : x = reader'[r]
      OBVIOUS
    <2>2. ReaderOK(x)
      BY <2>1 DEF Sound, ReadersOK
    <2>3. ReaderOK(x)'
      BY <2>2, KeptForReader
    <2> QED BY <2>1, <2>3
  <1> QED BY <1>1 DEF Sound, ReadersOK

(* A new event has a new number.                                            *)
LEMMA NewNumber ==
  ASSUME Sound, NEW e, e.seq = run.last + 1, run'.last = e.seq, Seen' \subseteq Seen \cup {e}
  PROVE  OneEventEach'
  <1>1. run.last \in Nat
    BY DEF Sound, RunShape
  <1>2. \A f \in Seen : f.seq <= run.last /\ f.seq \in Nat
    <2>1. Seen \subseteq Events
      <3>1. journal.events \subseteq Events /\ run.buffer \in Seq(Events)
        BY DEF Sound, RunShape, JournalShape
      <3>2. \A s \in Seq(Events) : Items(s) \subseteq Events
        BY ElementOfSeq DEF Items
      <3>3. \A r \in Readers : InReader(reader[r]) \subseteq Events
        BY ReaderFacts, <3>2 DEF InReader, Reader
      <3> QED BY <3>1, <3>2, <3>3 DEF Seen
    <2> QED BY <2>1 DEF Sound, OneEventEach, Events, Number
  <1>3. \A f, g \in Seen : f.seq = g.seq => f = g
    BY DEF Sound, OneEventEach
  <1>4. \A f \in Seen' : f \in Seen \/ f = e
    OBVIOUS
  <1> HIDE DEF Seen
  <1>5. \A f \in Seen' : f.seq <= run'.last
    BY <1>1, <1>2, <1>4
  <1>6. \A f, g \in Seen' : f.seq = g.seq => f = g
    BY <1>1, <1>2, <1>3, <1>4
  <1> QED BY <1>5, <1>6 DEF OneEventEach

(* journal.save leaves the newest events in the journal.                    *)
LEMMA SavedKeeps ==
  ASSUME RunShape, JournalShape, JournalEnd, JournalWhole, FaultShape,
         NEW e \in Events, e.seq = run.last + 1, Saved(e),
         run'.last = e.seq, run'.finished = IsEnd(e), faults'.failures = faults.failures
  PROVE  /\ JournalShape' /\ JournalEnd' /\ JournalWhole'
         /\ journal'.events \subseteq journal.events \cup {e}
  <1>1. run.last \in Nat /\ journal.events \subseteq Events /\ Window \in Nat \ {0}
    BY EventConstants DEF RunShape, JournalShape
  <1>2. /\ journal'.events = Newest(e.seq, journal.events \cup {e})
        /\ journal'.last = e.seq /\ journal'.finished = IsEnd(e)
        /\ journal' = [events |-> Newest(e.seq, journal.events \cup {e}), last |-> e.seq, finished |-> IsEnd(e)]
    BY DEF Saved
  <1>3. \A f : f \in journal'.events <=> (f \in journal.events \/ f = e) /\ f.seq > e.seq - Window
    BY <1>2 DEF Newest
  <1>4. e.seq \in Nat /\ e \in journal'.events
    BY <1>1, <1>3
  <1>5. JournalShape'
    <2>1. Newest(e.seq, journal.events \cup {e}) \subseteq Events
      BY <1>1 DEF Newest
    <2>2. IsEnd(e) \in BOOLEAN
      BY DEF IsEnd
    <2> HIDE DEF Newest, IsEnd
    <2> QED BY <1>2, <1>4, <2>1, <2>2 DEF JournalShape
  <1>6. JournalEnd'
    BY <1>2, <1>4 DEF JournalEnd
  <1>7. JournalWhole'
    <2> SUFFICES ASSUME faults.failures = 0
                 PROVE  /\ journal'.last = run'.last /\ journal'.finished = run'.finished
                        /\ \A n \in 1..run'.last :
                             n > run'.last - Window <=> \E f \in journal'.events : f.seq = n
      BY DEF JournalWhole
    <2>1. \A n \in 1..run.last : n > run.last - Window <=> \E f \in journal.events : f.seq = n
      BY DEF JournalWhole
    <2>2. ASSUME NEW n \in 1..run'.last
          PROVE  n > run'.last - Window <=> \E f \in journal'.events : f.seq = n
      <3>1. ASSUME n > run'.last - Window PROVE \E f \in journal'.events : f.seq = n
        <4>1. CASE n = e.seq
          BY <4>1, <1>4
        <4>2. CASE n # e.seq
          <5>1. n \in 1..run.last /\ n > run.last - Window
            BY <4>2, <3>1, <1>1
          <5>2. PICK f \in journal.events : f.seq = n
            BY <5>1, <2>1
          <5> QED BY <5>2, <3>1, <1>3
        <4> QED BY <4>1, <4>2
      <3>2. (\E f \in journal'.events : f.seq = n) => n > run'.last - Window
        BY <1>3
      <3> QED BY <3>1, <3>2
    <2> QED BY <1>2, <2>2
  <1> QED BY <1>3, <1>5, <1>6, <1>7

Kept(all) == IF Len(all) > Window THEN Tail(all) ELSE all

(* append, with the journal written or not.                                 *)
LEMMA AppendSound ==
  ASSUME Sound, FaultShape, ~run.finished,
         NEW e \in Events, e.seq = run.last + 1,
         NEW p \in Pumps, IsEnd(e) <=> p = "ended",
         NEW all, all = Append(run.buffer, e),
         run' = [buffer |-> Kept(all), first |-> e.seq - Len(Kept(all)) + 1, last |-> e.seq,
                 finished |-> IsEnd(e), pump |-> p],
         lost' = (IF Len(all) > Window THEN lost \cup {Head(all).seq} ELSE lost),
         \/ Saved(e) /\ faults'.failures = faults.failures
         \/ UNCHANGED journal /\ faults'.failures > 0,
         UNCHANGED <<held, reader>>
  PROVE  Sound'
  <1>1. /\ RunShape /\ JournalShape /\ BufferWhole /\ Forgotten /\ JournalEnd /\ JournalWhole
        /\ held /\ held' /\ ~journal.finished
    BY DEF Sound, Forgotten, JournalEnd
  <1>2. run.buffer \in Seq(Events) /\ run.last \in Nat /\ run.first \in Nat \ {0} /\ Window \in Nat \ {0}
    BY <1>1, EventConstants DEF RunShape, Number
  <1>3. /\ all \in Seq(Events) /\ Len(run.buffer) \in Nat /\ Len(all) = Len(run.buffer) + 1
        /\ Items(all) = Items(run.buffer) \cup {e}
        /\ \A i \in 1..Len(run.buffer) : all[i] = run.buffer[i]
        /\ all[Len(run.buffer) + 1] = e
    BY <1>2, AppendItem
  <1>4. Len(all) = run.last - run.first + 2
    BY <1>1, <1>2, <1>3 DEF BufferWhole
  <1>5. \A i \in 1..Len(all) : all[i].seq = run.first + i - 1
    <2> SUFFICES ASSUME NEW i \in 1..Len(all) PROVE all[i].seq = run.first + i - 1
      OBVIOUS
    <2>1. CASE i \in 1..Len(run.buffer)
      <3>1. all[i] = run.buffer[i] /\ run.buffer[i].seq = run.first + i - 1
        BY <1>1, <1>3, <2>1 DEF BufferWhole
      <3> QED BY <3>1
    <2>2. CASE i = Len(run.buffer) + 1
      <3>1. all[i] = e
        BY <1>3, <2>2
      <3>2. i = run.last - run.first + 2
        BY <1>3, <1>4, <2>2
      <3> QED BY <3>1, <3>2, <1>2
    <2> QED BY <2>1, <2>2, <1>3
  <1>6. \A n \in 1..run.first - 1 : n \in lost
    BY <1>1 DEF BufferWhole
  <1>7. run'.buffer = Kept(all) /\ run'.first = e.seq - Len(Kept(all)) + 1 /\ run'.last = e.seq /\ run'.finished = IsEnd(e)
    OBVIOUS
  <1>8. /\ Kept(all) \in Seq(Events) /\ run'.first \in Number
        /\ BufferWhole' /\ lost \subseteq lost' /\ Items(Kept(all)) \subseteq Items(all)
    <2> USE <1>7
    <2>1. CASE Len(all) > Window
      <3>1. all # <<>>
        BY <2>1, <1>2
      <3>2. /\ Tail(all) \in Seq(Events) /\ Head(all) = all[1] /\ Len(Tail(all)) = Len(all) - 1
            /\ \A i \in 1..Len(Tail(all)) : Tail(all)[i] = all[i + 1]
            /\ Items(Tail(all)) \subseteq Items(all)
        BY <1>3, <3>1, TailItem
      <3> DEFINE t == Tail(all)
      <3>3. Kept(all) = t /\ lost' = lost \cup {Head(all).seq}
        BY <2>1 DEF Kept
      <3>4. 1 \in 1..Len(all) /\ Len(all) \in Nat
        BY <1>2, <1>3
      <3>5. Head(all).seq = run.first
        BY <1>2, <1>5, <3>2, <3>4
      <3>6. Len(t) = Len(all) - 1 /\ \A i \in 1..Len(t) : t[i].seq = run.first + i
        <4> SUFFICES ASSUME NEW i \in 1..Len(t) PROVE t[i].seq = run.first + i
          BY <3>2
        <4>1. t[i] = all[i + 1] /\ i + 1 \in 1..Len(all)
          BY <3>2, <3>4
        <4>2. all[i + 1].seq = run.first + (i + 1) - 1
          BY <4>1, <1>5
        <4> QED BY <4>1, <4>2, <1>2
      <3> HIDE DEF t
      <3>7. run'.first = run.first + 1
        BY <3>3, <3>6, <1>2, <1>4
      <3>8. Len(run'.buffer) = run'.last - run'.first + 1
        <4>1. Len(t) = run.last - run.first + 1
          BY <3>6, <1>2, <1>4
        <4> QED BY <3>3, <3>7, <4>1, <1>2
      <3>9. \A i \in 1..Len(run'.buffer) : run'.buffer[i].seq = run'.first + i - 1
        BY <3>3, <3>6, <3>7, <1>2
      <3>10. \A n \in 1..run'.first - 1 : n \in lost'
        BY <3>3, <3>5, <3>7, <1>2, <1>6
      <3>11. BufferWhole'
        BY <3>8, <3>9, <3>10 DEF BufferWhole
      <3> QED BY <3>2, <3>3, <3>7, <3>11, <1>2 DEF t, Number
    <2>2. CASE ~(Len(all) > Window)
      <3>3. Kept(all) = all /\ lost' = lost
        BY <2>2 DEF Kept
      <3>7. run'.first = run.first
        BY <3>3, <1>2, <1>4
      <3>8. Len(run'.buffer) = run'.last - run'.first + 1
        BY <3>3, <3>7, <1>2, <1>4
      <3>9. \A i \in 1..Len(run'.buffer) : run'.buffer[i].seq = run'.first + i - 1
        BY <3>3, <3>7, <1>5
      <3>10. \A n \in 1..run'.first - 1 : n \in lost'
        BY <3>3, <3>7, <1>6
      <3>11. BufferWhole'
        BY <3>8, <3>9, <3>10 DEF BufferWhole
      <3> QED BY <3>3, <3>7, <3>11, <1>2, <1>3 DEF Number
    <2> QED BY <2>1, <2>2
  <1>9. RunShape'
    <2>1. e.seq \in Nat /\ IsEnd(e) \in BOOLEAN
      BY <1>2 DEF IsEnd
    <2> HIDE DEF Kept, IsEnd
    <2>2. run' \in [buffer : Seq(Events), first : Number, last : Nat, finished : BOOLEAN, pump : Pumps]
      BY <1>7, <1>8, <2>1
    <2> QED BY <2>2 DEF RunShape
  <1>10. JournalShape' /\ JournalEnd' /\ JournalWhole' /\ journal'.events \subseteq journal.events \cup {e}
    <2>1. CASE Saved(e) /\ faults'.failures = faults.failures
      BY <1>1, <1>7, <2>1, SavedKeeps
    <2>2. CASE UNCHANGED journal /\ faults'.failures > 0
      <3>1. JournalShape' /\ JournalWhole'
        BY <1>1, <2>2 DEF JournalShape, JournalWhole
      <3>2. journal'.last <= run'.last
        BY <1>1, <1>2, <1>7, <2>2 DEF JournalEnd, JournalShape
      <3> QED BY <1>1, <2>2, <3>1, <3>2 DEF JournalEnd
    <2> QED BY <2>1, <2>2
  <1>11. OneEventEach'
    <2>1. Items(run.buffer)' \subseteq Items(run.buffer) \cup {e}
      <3>1. Items(run.buffer)' = Items(Kept(all))
        BY <1>7 DEF Items
      <3> QED BY <3>1, <1>3, <1>8
    <2>2. UNION {InReader(reader[r]) : r \in Readers}' = UNION {InReader(reader[r]) : r \in Readers}
      BY DEF InReader, Items
    <2>3. Seen' \subseteq Seen \cup {e}
      BY <1>10, <2>1, <2>2 DEF Seen
    <2> QED BY <1>7, <2>3, NewNumber
  <1>12. ReadersOK'
    BY <1>1, <1>8, ReadersKept
  <1>13. Forgotten'
    BY <1>1 DEF Forgotten
  <1> QED BY <1>8, <1>9, <1>10, <1>11, <1>12, <1>13 DEF Sound

(* Buffered and JournalFails buffer an event alike.                         *)
LEMMA BufferedSound ==
  ASSUME Sound, FaultShape, ~run.finished, NEW e \in Events, e.seq = run.last + 1,
         Buffered(e), Saved(e), UNCHANGED <<held, reader, faults>>
  PROVE  Sound'
  <1> DEFINE all == Append(run.buffer, e)
             p == IF IsEnd(e) THEN "ended" ELSE IF run.pump = "runs" THEN "runs" ELSE "closing"
  <1>1. p \in Pumps /\ (IsEnd(e) <=> p = "ended")
    BY DEF Pumps
  <1>2. run' = [buffer |-> Kept(all), first |-> e.seq - Len(Kept(all)) + 1, last |-> e.seq,
                finished |-> IsEnd(e), pump |-> p]
    <2>1. run' = [run EXCEPT !.buffer = Kept(all), !.first = e.seq - Len(Kept(all)) + 1,
                    !.last = e.seq, !.finished = IsEnd(e), !.pump = p]
      BY DEF Buffered, Kept
    <2>2. run = [buffer |-> run.buffer, first |-> run.first, last |-> run.last,
                 finished |-> run.finished, pump |-> run.pump]
      BY DEF Sound, RunShape
    <2> HIDE DEF all, p, Kept, IsEnd
    <2> QED BY <2>1, <2>2
  <1>3. lost' = (IF Len(all) > Window THEN lost \cup {Head(all).seq} ELSE lost)
    BY DEF Buffered
  <1>4. faults'.failures = faults.failures
    OBVIOUS
  <1>5. PICK a : a = all
    OBVIOUS
  <1> HIDE DEF all, p
  <1>6. /\ a = Append(run.buffer, e)
        /\ run' = [buffer |-> Kept(a), first |-> e.seq - Len(Kept(a)) + 1, last |-> e.seq,
                   finished |-> IsEnd(e), pump |-> p]
        /\ lost' = (IF Len(a) > Window THEN lost \cup {Head(a).seq} ELSE lost)
    BY <1>2, <1>3, <1>5 DEF all
  <1> QED BY <1>1, <1>4, <1>6, AppendSound

LEMMA EventFacts ==
  ASSUME NEW n \in Nat
  PROVE  /\ Event(n + 1) \in Events /\ Done(n + 1) \in Events /\ Interrupted(n + 1) \in Events
         /\ Event(n + 1).seq = n + 1 /\ Done(n + 1).seq = n + 1 /\ Interrupted(n + 1).seq = n + 1
         /\ ~IsEnd(Event(n + 1)) /\ IsEnd(Done(n + 1)) /\ IsEnd(Interrupted(n + 1))
  BY DEF Event, Done, Interrupted, Events, Number, IsEnd

LEMMA AppendEventSound ==
  ASSUME Sound, FaultShape, AppendEvent
  PROVE  Sound'
  <1>1. run.last \in Nat /\ ~run.finished
    BY DEF Sound, RunShape, AppendEvent
  <1>2. UNCHANGED <<held, reader, faults>>
    BY DEF AppendEvent
  <1>3. \/ Buffered(Event(run.last + 1)) /\ Saved(Event(run.last + 1))
        \/ Buffered(Done(run.last + 1)) /\ Saved(Done(run.last + 1))
    BY DEF AppendEvent
  <1>4. CASE Buffered(Event(run.last + 1)) /\ Saved(Event(run.last + 1))
    BY <1>1, <1>2, <1>4, EventFacts, BufferedSound
  <1>5. CASE Buffered(Done(run.last + 1)) /\ Saved(Done(run.last + 1))
    BY <1>1, <1>2, <1>5, EventFacts, BufferedSound
  <1> QED BY <1>3, <1>4, <1>5

LEMMA PumpFailsSound ==
  ASSUME Sound, FaultShape, PumpFails
  PROVE  Sound'
  <1>1. run.last \in Nat /\ ~run.finished
    BY DEF Sound, RunShape, PumpFails
  <1>2. /\ UNCHANGED <<held, reader, faults>>
        /\ Buffered(Event(run.last + 1)) /\ Saved(Event(run.last + 1))
    BY DEF PumpFails
  <1> QED BY <1>1, <1>2, EventFacts, BufferedSound

LEMMA JournalFailsSound ==
  ASSUME Sound, FaultShape, JournalFails
  PROVE  Sound'
  <1>0. Unwritten \subseteq {Event(run.last + 1), Done(run.last + 1)}
    BY DEF Unwritten
  <1>1. run.last \in Nat /\ ~run.finished
    BY DEF Sound, RunShape, JournalFails
  <1>2. faults'.failures > 0 /\ UNCHANGED <<held, journal, reader>>
    BY DEF JournalFails, FaultShape
  <1>3. PICK e \in Unwritten :
          LET all == Append(run.buffer, e)
              kept == IF Len(all) > Window THEN Tail(all) ELSE all
          IN /\ run' = [buffer |-> kept, first |-> e.seq - Len(kept) + 1, last |-> e.seq,
                        finished |-> IsEnd(e),
                        pump |-> IF IsEnd(e) THEN "ended"
                                 ELSE IF run.pump = "runs" THEN "failing" ELSE "dead"]
             /\ lost' = IF Len(all) > Window THEN lost \cup {Head(all).seq} ELSE lost
    BY Zenon DEF JournalFails
  <1> DEFINE p == IF IsEnd(e) THEN "ended" ELSE IF run.pump = "runs" THEN "failing" ELSE "dead"
  <1>4. p \in Pumps /\ (IsEnd(e) <=> p = "ended")
    BY DEF Pumps
  <1>5. PICK a : a = Append(run.buffer, e)
    OBVIOUS
  <1>6. /\ run' = [buffer |-> Kept(a), first |-> e.seq - Len(Kept(a)) + 1, last |-> e.seq,
                   finished |-> IsEnd(e), pump |-> p]
        /\ lost' = (IF Len(a) > Window THEN lost \cup {Head(a).seq} ELSE lost)
    BY <1>3, <1>5, Zenon DEF Kept
  <1>7. e \in Events /\ e.seq = run.last + 1
    BY <1>0, <1>1, EventFacts
  <1> HIDE DEF p
  <1> QED BY <1>1, <1>2, <1>4, <1>5, <1>6, <1>7, AppendSound

LEMMA EvictSound ==
  ASSUME Sound, FaultShape, Evict
  PROVE  Sound'
  <1>1. /\ held /\ run.finished /\ held' = FALSE /\ lost' = lost \cup 1..run.last
        /\ UNCHANGED <<run, journal, reader, faults>>
    BY DEF Evict
  <1>2. RunShape' /\ JournalShape' /\ JournalEnd' /\ JournalWhole'
    BY <1>1 DEF Sound, RunShape, JournalShape, JournalEnd, JournalWhole
  <1>3. OneEventEach'
    <2>1. Seen' = Seen
      BY <1>1 DEF Seen, InReader, Items
    <2> QED BY <1>1, <2>1 DEF Sound, OneEventEach
  <1>4. BufferWhole' /\ Forgotten'
    BY <1>1 DEF Sound, BufferWhole, Forgotten
  <1>5. ReadersOK'
    BY <1>1, ReadersKept
  <1> QED BY <1>2, <1>3, <1>4, <1>5 DEF Sound

(* A restart loads a journal that lacks only what was trimmed.              *)
LEMMA RestartSound ==
  ASSUME Sound, FaultShape, faults.failures = 0, Restart
  PROVE  Sound'
  <1> DEFINE E == journal.events
             low == IF run.last < Window THEN 1 ELSE run.last - Window + 1
             s == InOrder(E)
             end == run.last + 1
             i == Interrupted(end)
  <1>1. /\ RunShape /\ JournalShape /\ OneEventEach /\ JournalEnd /\ JournalWhole
        /\ journal.last = run.last /\ journal.finished = run.finished
        /\ \A n \in 1..run.last : n > run.last - Window <=> \E e \in E : e.seq = n
    BY DEF Sound, JournalWhole
  <1>2. /\ run.last \in Nat /\ E \in SUBSET Events /\ Window \in Nat \ {0}
        /\ low \in Nat \ {0} /\ low <= run.last + 1
    BY <1>1, EventConstants DEF RunShape, JournalShape
  <1>3. \A e \in E : e.seq \in low..run.last
    <2> SUFFICES ASSUME NEW e \in E PROVE e.seq \in low..run.last
      OBVIOUS
    <2>1. e.seq \in Nat \ {0} /\ e.seq <= run.last
      BY <1>1, <1>2 DEF OneEventEach, Seen, Events, Number
    <2>2. e.seq > run.last - Window
      BY <1>1, <1>2, <2>1
    <2> QED BY <1>2, <2>1, <2>2
  <1>4. \A n \in low..run.last : \E e \in E : e.seq = n
    BY <1>1, <1>2
  <1>5. \A e, f \in E : e.seq = f.seq => e = f
    BY <1>1 DEF OneEventEach, Seen
  <1>6. /\ s \in Seq(Events) /\ Len(s) = run.last - low + 1
        /\ \A k \in 1..Len(s) : s[k] \in E /\ s[k].seq = low + k - 1
    <2>1. low \in Number
      BY <1>2 DEF Number
    <2> HIDE DEF E, low
    <2>2. /\ InOrder(E) \in Seq(Events) /\ Len(InOrder(E)) = run.last - low + 1
          /\ \A k \in 1..Len(InOrder(E)) : InOrder(E)[k] \in E /\ InOrder(E)[k].seq = low + k - 1
      <3>1. PICK F, l, m : F = E /\ l = low /\ m = run.last
        OBVIOUS
      <3>2. F \in SUBSET Events /\ l \in Number /\ m \in Nat /\ l <= m + 1
        BY <1>2, <2>1, <3>1
      <3>3. \A n \in l..m : \E e \in F : e.seq = n
        BY <1>4, <3>1
      <3>4. \A e \in F : e.seq \in l..m
        BY <1>3, <3>1
      <3>5. \A e, f \in F : e.seq = f.seq => e = f
        BY <1>5, <3>1
      <3>6. /\ InOrder(F) \in Seq(Events) /\ Len(InOrder(F)) = m - l + 1
            /\ \A k \in 1..Len(InOrder(F)) : InOrder(F)[k] \in F /\ InOrder(F)[k].seq = l + k - 1
        BY <3>2, <3>3, <3>4, <3>5, Ordered
      <3> QED BY <3>1, <3>6
    <2> QED BY <2>2
  <1>7. (IF s = <<>> THEN journal.last + 1 ELSE s[1].seq) = low
    <2>1. CASE s = <<>>
      BY <1>1, <1>2, <1>6, <2>1
    <2>2. CASE s # <<>>
      <3>1. Len(s) # 0 /\ Len(s) \in Nat
        BY <1>6, <2>2, EmptySeq, LenProperties
      <3>2. 1 \in 1..Len(s)
        BY <3>1
      <3>3. s[1].seq = low + 1 - 1
        BY <1>6, <3>2
      <3> QED BY <1>2, <2>2, <3>3
    <2> QED BY <2>1, <2>2
  <1>8. /\ run' = [buffer |-> IF run.finished THEN s ELSE Append(s, i), first |-> low,
                   last |-> IF run.finished THEN run.last ELSE end, finished |-> TRUE, pump |-> "ended"]
        /\ IF run.finished THEN UNCHANGED journal ELSE Saved(i)
        /\ lost' = lost \cup (1..run.last \ {e.seq : e \in E})
        /\ held' = TRUE
        /\ reader' = [r \in Readers |->
             IF reader[r].stage = "open" THEN [reader[r] EXCEPT !.stage = "closed"] ELSE reader[r]]
    BY <1>1, <1>7 DEF Restart
  <1>9. faults'.failures = faults.failures
    BY DEF Restart, FaultShape
  <1> HIDE DEF s, low
  <1>10. i \in Events /\ i.seq = run.last + 1 /\ IsEnd(i)
    BY <1>2, EventFacts
  <1> HIDE DEF i
  <1>11. \A n \in 1..low - 1 : n \in lost'
    <2> SUFFICES ASSUME NEW n \in 1..low - 1 PROVE n \in lost'
      OBVIOUS
    <2>1. n \in 1..run.last
      BY <1>2
    <2>2. n \notin {e.seq : e \in E}
      BY <1>2, <1>3
    <2> QED BY <1>8, <2>1, <2>2
  <1>12. Items(s) \subseteq E
    BY <1>6 DEF Items
  <1>13. /\ ReadersOK'
         /\ UNION {InReader(reader[r]) : r \in Readers}' \subseteq UNION {InReader(reader[r]) : r \in Readers}
    <2>1. ASSUME NEW r \in Readers
          PROVE  /\ ReaderOK(reader[r])' /\ InReader(reader[r])' = InReader(reader[r])
                 /\ reader'[r].batch = reader[r].batch
      <3> DEFINE k == reader[r]
      <3>1. PICK j : j = reader'[r]
        OBVIOUS
      <3>2. k \in Reader /\ NoGap(k)
        BY ReaderFacts
      <3>3. j = IF k.stage = "open" THEN [k EXCEPT !.stage = "closed"] ELSE k
        BY <1>8, <3>1
      <3> HIDE DEF k
      <3>4. /\ j \in Reader /\ j.stage # "open" /\ j.batch = k.batch
            /\ j.pipe = k.pipe /\ j.got = k.got /\ j.after = k.after
        BY <3>2, <3>3 DEF Reader
      <3>5. NoGap(j)
        BY <3>2, <3>4, SameGap
      <3>6. ReaderOK(j)'
        BY <1>8, <3>4, <3>5, KeptForReader DEF ReaderOK
      <3>7. InReader(j) = InReader(k)
        BY <3>4 DEF InReader
      <3>8. InReader(reader[r])' = InReader(j)
        BY <3>1 DEF InReader, Items
      <3> QED BY <3>1, <3>4, <3>6, <3>7, <3>8 DEF k
    <2>2. reader' = [r \in Readers |-> reader'[r]]
      BY <1>8
    <2>3. \A r \in Local : reader'[r].batch = <<>>
      BY <2>1 DEF Sound, ReadersOK, Readers
    <2> QED BY <2>1, <2>2, <2>3 DEF ReadersOK
  <1>14. Forgotten'
    BY <1>8 DEF Forgotten
  <1>15. CASE run.finished
    <2>1. /\ run'.buffer = s /\ run'.first = low /\ run'.last = run.last /\ run'.finished
          /\ run' = [buffer |-> s, first |-> low, last |-> run.last, finished |-> TRUE, pump |-> "ended"]
          /\ UNCHANGED journal
      BY <1>8, <1>15
    <2>2. RunShape'
      BY <1>2, <1>6, <2>1 DEF RunShape, Pumps, Number
    <2>3. BufferWhole'
      BY <1>6, <1>11, <2>1 DEF BufferWhole
    <2>4. JournalShape' /\ JournalEnd' /\ JournalWhole'
      BY <1>1, <1>9, <1>15, <2>1 DEF JournalShape, JournalEnd, JournalWhole
    <2>5. OneEventEach'
      <3>1. Items(run.buffer)' \subseteq E
        BY <1>12, <2>1 DEF Items
      <3>2. Seen' \subseteq Seen
        BY <1>13, <2>1, <3>1 DEF Seen
      <3> QED BY <1>1, <2>1, <3>2 DEF OneEventEach
    <2> QED BY <1>13, <1>14, <2>2, <2>3, <2>4, <2>5 DEF Sound
  <1>16. CASE ~run.finished
    <2> DEFINE a == Append(s, i)
    <2>1. /\ run'.buffer = a /\ run'.first = low /\ run'.last = run.last + 1 /\ run'.finished
          /\ run' = [buffer |-> a, first |-> low, last |-> run.last + 1, finished |-> TRUE, pump |-> "ended"]
          /\ Saved(i)
      BY <1>8, <1>16
    <2>2. /\ a \in Seq(Events) /\ Len(s) \in Nat /\ Len(a) = Len(s) + 1
          /\ \A k \in 1..Len(s) : a[k] = s[k]
          /\ a[Len(s) + 1] = i /\ Items(a) = Items(s) \cup {i}
      BY <1>6, <1>10, AppendItem
    <2> HIDE DEF a
    <2>3. RunShape'
      BY <1>2, <2>1, <2>2 DEF RunShape, Pumps, Number
    <2>4. BufferWhole'
      <3>1. Len(run'.buffer) = run'.last - run'.first + 1
        BY <1>2, <1>6, <2>1, <2>2
      <3>2. ASSUME NEW k \in 1..Len(a) PROVE a[k].seq = low + k - 1
        <4>1. CASE k \in 1..Len(s)
          BY <1>6, <2>2, <4>1
        <4>2. CASE k = Len(s) + 1
          <5>1. a[k] = i
            BY <2>2, <4>2
          <5>2. k = run.last - low + 2
            BY <1>2, <1>6, <4>2
          <5> QED BY <5>1, <5>2, <1>2, <1>10
        <4> QED BY <2>2, <4>1, <4>2
      <3> QED BY <1>11, <2>1, <3>1, <3>2 DEF BufferWhole
    <2>5. /\ JournalShape' /\ JournalEnd' /\ JournalWhole'
          /\ journal'.events \subseteq journal.events \cup {i}
      <3>1. run'.last = i.seq /\ run'.finished = IsEnd(i)
        BY <1>10, <2>1
      <3> QED BY <1>1, <1>9, <1>10, <2>1, <3>1, SavedKeeps
    <2>6. OneEventEach'
      <3>1. Items(run.buffer)' \subseteq E \cup {i}
        BY <1>12, <2>1, <2>2 DEF Items
      <3>2. Seen' \subseteq Seen \cup {i}
        BY <1>13, <2>5, <3>1 DEF Seen
      <3> QED BY <1>10, <2>1, <3>2, NewNumber
    <2> QED BY <1>13, <1>14, <2>3, <2>4, <2>5, <2>6 DEF Sound
  <1> QED BY <1>15, <1>16

---------------------------------------------------------------------------
(* The theorems.                                                            *)

LEMMA InitSound == Init => IInv
  <1> SUFFICES ASSUME Init PROVE FaultShape /\ Sound
    BY DEF IInv
  <1>1. FaultShape
    BY DEF Init, FaultShape
  <1>2. RunShape /\ JournalShape
    BY DEF Init, RunShape, JournalShape, Pumps, Number
  <1>3. Len(run.buffer) = 0 /\ run.first = 1 /\ run.last = 0 /\ held /\ ~run.finished
    BY DEF Init
  <1>4. journal.events = {} /\ journal.last = 0 /\ ~journal.finished
    BY DEF Init
  <1>5. BufferWhole /\ Forgotten /\ JournalEnd /\ JournalWhole
    BY <1>3, <1>4 DEF Init, BufferWhole, Forgotten, JournalEnd, JournalWhole
  <1>6. \A r \in Readers : /\ reader[r] \in Reader /\ reader[r].stage = "away" /\ reader[r].after = 0
                           /\ reader[r].pipe = <<>> /\ reader[r].batch = <<>> /\ reader[r].got = {}
    <2>1. [stage |-> "away", after |-> 0, from |-> "run", next |-> 1,
           record |-> [finished |-> FALSE, last |-> 0],
           batch |-> <<>>, holed |-> FALSE, cursor |-> 0, pipe |-> <<>>, got |-> {}] \in Reader
      BY DEF Reader, Number
    <2> QED BY <2>1 DEF Init
  <1>7. ReadersOK
    <2>1. \A r \in Readers : NoGap(reader[r])
      BY <1>6 DEF NoGap
    <2>2. reader = [r \in Readers |-> reader[r]]
      BY DEF Init
    <2> QED BY <1>6, <2>1, <2>2 DEF ReadersOK, ReaderOK, Readers
  <1>8. OneEventEach
    <2>1. Seen = {}
      <3>1. \A r \in Readers : InReader(reader[r]) = {}
        BY <1>6, EmptyBatch DEF InReader
      <3>2. Items(run.buffer) = {}
        BY EmptyBatch DEF Init
      <3> QED BY <1>4, <3>1, <3>2 DEF Seen
    <2> QED BY <2>1 DEF OneEventEach
  <1> QED BY <1>1, <1>2, <1>5, <1>7, <1>8 DEF Sound

LEMMA FollowSound ==
  ASSUME Sound, NEW r \in Readers, Follow(r)
  PROVE  Sound'
  BY ConnectSound, YieldSound, StreamEndsSound, CollectSound, PolledSound, PauseSound DEF Follow

LEMMA FaultsGrow ==
  ASSUME FaultShape, [Next]_vars
  PROVE  FaultShape' /\ (Undamaged' => Undamaged)
  <1>1. CASE UNCHANGED faults
    BY <1>1 DEF FaultShape, Undamaged
  <1>2. CASE \/ faults' = [faults EXCEPT !.cuts = @ + 1]
            \/ faults' = [faults EXCEPT !.crashes = @ + 1]
            \/ faults' = [faults EXCEPT !.failures = @ + 1]
    BY <1>2 DEF FaultShape, Undamaged
  <1>3. \/ UNCHANGED faults
        \/ faults' = [faults EXCEPT !.cuts = @ + 1]
        \/ faults' = [faults EXCEPT !.crashes = @ + 1]
        \/ faults' = [faults EXCEPT !.failures = @ + 1]
    BY DEF Next, vars, AppendEvent, JournalFails, PumpFails, Evict, Restart,
           Follow, Connect, Yield, StreamEnds, Collect, Polled, Pause, Receive, Cut
  <1> QED BY <1>1, <1>2, <1>3

LEMMA NextSound ==
  ASSUME IInv, [Next]_vars
  PROVE  IInv'
  <1>1. FaultShape /\ FaultShape' /\ (Undamaged' => Undamaged)
    BY FaultsGrow DEF IInv
  <1> SUFFICES ASSUME Undamaged' PROVE Sound'
    BY <1>1 DEF IInv
  <1>2. Sound
    BY <1>1 DEF IInv
  <1>3. CASE AppendEvent
    BY <1>1, <1>2, <1>3, AppendEventSound
  <1>4. CASE JournalFails
    BY <1>1, <1>2, <1>4, JournalFailsSound
  <1>5. CASE PumpFails
    BY <1>1, <1>2, <1>5, PumpFailsSound
  <1>6. CASE Evict
    BY <1>1, <1>2, <1>6, EvictSound
  <1>7. CASE Restart
    <2>1. faults.failures = 0
      BY <1>1, <1>7 DEF Restart, FaultShape, Undamaged
    <2> QED BY <1>1, <1>2, <1>7, <2>1, RestartSound
  <1>8. ASSUME NEW r \in Readers, Follow(r) PROVE Sound'
    BY <1>2, <1>8, FollowSound
  <1>9. ASSUME NEW r \in Readers, Receive(r) PROVE Sound'
    BY <1>2, <1>9, ReceiveSound
  <1>10. ASSUME NEW r \in Readers, Cut(r) PROVE Sound'
    BY <1>1, <1>2, <1>10, CutSound
  <1>11. CASE UNCHANGED vars
    <2>1. UNCHANGED <<run, held, journal, reader, faults, lost>>
      BY <1>11 DEF vars
    <2>2. Seen' = Seen
      BY <2>1 DEF Seen, InReader, Items
    <2>3. ReadersOK'
      BY <1>2, <2>1, ReadersKept
    <2>4. OneEventEach'
      BY <1>2, <2>1, <2>2 DEF Sound, OneEventEach
    <2>5. RunShape' /\ JournalShape' /\ BufferWhole' /\ Forgotten' /\ JournalEnd' /\ JournalWhole'
      BY <1>2, <2>1 DEF Sound, RunShape, JournalShape, BufferWhole, Forgotten, JournalEnd, JournalWhole
    <2> QED BY <2>3, <2>4, <2>5 DEF Sound
  <1> QED BY <1>3, <1>4, <1>5, <1>6, <1>7, <1>8, <1>9, <1>10, <1>11 DEF Next

THEOREM Invariance == Spec => []IInv
  <1>1. Init => IInv
    BY InitSound
  <1>2. IInv /\ [Next]_vars => IInv'
    BY NextSound
  <1> QED BY <1>1, <1>2, PTL DEF Spec

(* Whoever follows a run, from wherever and however often interrupted,      *)
(* misses only events that were trimmed or evicted.                         *)
THEOREM NoGaps == Spec => []NoSilentGap
  <1>1. IInv => NoSilentGap
    <2> SUFFICES ASSUME IInv, Undamaged, NEW r \in Readers, NEW n \in 1..reader[r].after
                 PROVE  n \in lost \/ \E e \in reader[r].got : e.seq = n
      BY DEF NoSilentGap
    <2>1. NoGap(reader[r])
      BY ReaderFacts DEF IInv
    <2> QED BY <2>1 DEF NoGap, Had
  <1> QED BY <1>1, Invariance, PTL

(* What two readers know by one number is one event.                        *)
THEOREM OneMeaning == Spec => []NumberMeansOneEvent
  <1>1. IInv => NumberMeansOneEvent
    <2> SUFFICES ASSUME IInv, Undamaged,
                        NEW e \in UNION {reader[r].got : r \in Readers},
                        NEW f \in UNION {reader[r].got : r \in Readers}, e.seq = f.seq
                 PROVE  e = f
      BY DEF NumberMeansOneEvent
    <2>1. e \in Seen /\ f \in Seen
      BY DEF Seen, InReader
    <2> QED BY <2>1 DEF IInv, Sound, OneEventEach
  <1> QED BY <1>1, Invariance, PTL

=============================================================================
