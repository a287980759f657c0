-------------------------- MODULE PromptQueueProof --------------------------
(***************************************************************************)
(* The prompt queue of the web app, for any number of sessions, runs,      *)
(* prompts and requests under way: the cards of the page show what the     *)
(* runs have read (CardsTrue), a prompt leaves the queue for a reason      *)
(* (Reasons), and none is read or sent again (Once).                       *)
(*                                                                         *)
(* InStep ties the page to the service: the cards fit the logs of their    *)
(* runs, and a loop is not ahead of the card it writes.  Tokens follows    *)
(* one prompt: from the composer through the steering request, the queue   *)
(* and a message on one side, through the notes of a run and its log on    *)
(* the other, and says at which places it cannot be at once.  The second   *)
(* needs the first: settling gives a prompt up to the next message only    *)
(* when its card says the run has ended, and it has.                       *)
(***************************************************************************)
EXTENDS PromptQueue, TLAPS, SequenceTheorems, WellFoundedInduction

---------------------------------------------------------------------------
(* Settling the queue.  Settle is a recursive function over the items; that *)
(* it is defined, and what it returns, follows by the least counterexample. *)

Texts == {Text[p] : p \in Prompts}
Items == [prompt : Prompts, run : Runs \cup {NoRun}, baseline : Nat]
Cards == [shown : BOOLEAN, seq : Nat, steering : Seq(Texts), running : BOOLEAN]

(* Least elements.                                                          *)
Smaller == {ss \in Nat \X Nat : ss[1] < ss[2]}

LEMMA SmallerWellFounded == IsWellFoundedOn(Smaller, Nat)
  BY NatLessThanWellFounded, Zenon DEF OpToRel, Smaller

LEMMA Least ==
  ASSUME NEW S \in SUBSET Nat, S # {}
  PROVE  \E n \in S : \A m \in S : n <= m
<1>1. PICK n \in S : \A m \in S : <<m, n>> \notin Smaller
  BY SmallerWellFounded, WFMin
<1>2. \A m \in S : ~(m < n)
  BY <1>1 DEF Smaller
<1> QED BY <1>2

NothingSettled == [kept |-> <<>>, cursor |-> [r \in Runs |-> 0]]

LEMMA SettlingDefined ==
  ASSUME NEW items \in Seq(Items), NEW cards
  PROVE  /\ Settling(items, cards)[0] = NothingSettled
         /\ \A n \in 1..Len(items) :
              Settling(items, cards)[n] =
                SettleItem(Settling(items, cards)[n-1], items[n], cards)
<1> DEFINE Upto(f, m) == f = [n \in 0..m |-> IF n = 0 THEN NothingSettled
                                             ELSE SettleItem(f[n-1], items[n], cards)]
           Bad == {m \in 0..Len(items) : ~ \E f : Upto(f, m)}
<1>0. Len(items) \in Nat
  BY LenProperties
<1>1. Bad = {}
  <2> SUFFICES ASSUME Bad # {} PROVE FALSE
    OBVIOUS
  <2>1. PICK m \in Bad : \A k \in Bad : m <= k
    <3> Bad \in SUBSET Nat
      BY <1>0
    <3> QED BY Least
  <2>2. CASE m = 0
    <3> DEFINE f == [n \in 0..0 |-> NothingSettled]
    <3>1. f = [n \in 0..0 |-> IF n = 0 THEN NothingSettled ELSE SettleItem(f[n-1], items[n], cards)]
      BY SMT
    <3>2. Upto(f, m)
      BY <3>1, <2>2
    <3> QED BY <3>2, <2>1
  <2>3. CASE m # 0
    <3>1. m-1 \in 0..Len(items) /\ m-1 \notin Bad /\ m \in Nat
      <4>1. m \in 0..Len(items)
        BY <2>1
      <4>2. m-1 \in 0..Len(items) /\ m \in Nat /\ ~(m <= m-1)
        BY <4>1, <1>0, <2>3
      <4> HIDE DEF Bad
      <4> QED BY <4>2, <2>1
    <3>2. PICK g : Upto(g, m-1)
      BY <3>1
    <3> DEFINE f == [n \in 0..m |-> IF n = m THEN SettleItem(g[m-1], items[m], cards) ELSE g[n]]
               e(n) == IF n = 0 THEN NothingSettled ELSE SettleItem(f[n-1], items[n], cards)
    <3>3. ASSUME NEW n \in 0..m PROVE f[n] = e(n)
      <4>1. CASE n = m
        <5>1. f[n-1] = g[m-1]
          BY <4>1, <3>1, <2>3
        <5> QED BY <5>1, <4>1, <2>3
      <4>2. CASE n # m
        <5>1. n \in 0..(m-1)
          BY <4>2, <3>1
        <5>2. f[n] = g[n]
          BY <4>2
        <5>3. CASE n = 0
          BY <5>1, <5>2, <5>3, <3>2
        <5>4. CASE n # 0
          <6>1. n-1 \in 0..m /\ n-1 # m
            BY <5>1, <5>4, <3>1
          <6>2. f[n-1] = g[n-1]
            BY <6>1
          <6>3. g[n] = SettleItem(g[n-1], items[n], cards)
            BY <5>1, <5>4, <3>2
          <6> QED BY <5>2, <5>4, <6>2, <6>3
        <5> QED BY <5>3, <5>4
      <4> QED BY <4>1, <4>2
    <3>4. f = [n \in 0..m |-> e(n)]
      <4> HIDE DEF e
      <4> QED BY <3>3
    <3>5. Upto(f, m)
      BY <3>4
    <3> QED BY <3>5, <2>1
  <2> QED BY <2>2, <2>3
<1>2. \E f : Upto(f, Len(items))
  BY <1>0, <1>1
<1>3. Upto(Settling(items, cards), Len(items))
  BY <1>2 DEF Settling, NothingSettled
<1> QED BY <1>0, <1>3

(* One item.                                                                *)
Accs == [kept : Seq(Items), cursor : [Runs -> Nat]]

Waiting(item, cards) == item.run # NoRun /\ cards[item.run].shown
Reads(item, cards, k) ==
  /\ k \in DOMAIN cards[item.run].steering
  /\ k > item.baseline
  /\ cards[item.run].steering[k] = Text[item.prompt]
Released(item, cards) == IF cards[item.run].running THEN item ELSE [item EXCEPT !.run = NoRun]

LEMMA ItemSettled ==
  ASSUME NEW acc \in Accs, NEW item \in Items, NEW cards \in [Runs -> Cards]
  PROVE  \/ /\ Waiting(item, cards)
            /\ \E k \in Nat : /\ Reads(item, cards, k) /\ k > acc.cursor[item.run]
                              /\ SettleItem(acc, item, cards) = [acc EXCEPT !.cursor[item.run] = k]
         \/ \E new \in Items :
              /\ SettleItem(acc, item, cards) = [acc EXCEPT !.kept = Append(@, new)]
              /\ \/ ~Waiting(item, cards) /\ new = item
                 \/ /\ Waiting(item, cards) /\ new = Released(item, cards)
                    /\ \A k : Reads(item, cards, k) => ~(k > acc.cursor[item.run])
<1> DEFINE card == cards[item.run]
           reads == ReadsOf(item, acc.cursor, card)
           first == CHOOSE i \in reads : \A j \in reads : i <= j
<1>1. CASE ~Waiting(item, cards)
  <2>1. SettleItem(acc, item, cards) = [acc EXCEPT !.kept = Append(@, item)]
    BY <1>1 DEF SettleItem, Waiting
  <2> QED BY <1>1, <2>1
<1>2. CASE Waiting(item, cards) /\ reads # {}
  <2>1. item.run \in Runs /\ card \in Cards
    BY <1>2 DEF Items, Waiting
  <2>2. SettleItem(acc, item, cards) = [acc EXCEPT !.cursor[item.run] = first]
    BY <1>2 DEF SettleItem, Waiting
  <2>3. reads \in SUBSET Nat
    BY <2>1, LenProperties DEF ReadsOf, Cards
  <2>4. first \in reads
    <3>1. \E i \in reads : \A j \in reads : i <= j
      BY <2>3, <1>2, Least
    <3> QED BY <3>1
  <2>5. first \in Nat /\ Reads(item, cards, first) /\ first > acc.cursor[item.run]
    BY <2>3, <2>4 DEF ReadsOf, Reads
  <2> QED BY <1>2, <2>2, <2>5
<1>3. CASE Waiting(item, cards) /\ reads = {}
  <2>1. SettleItem(acc, item, cards) = [acc EXCEPT !.kept = Append(@, Released(item, cards))]
    BY <1>3 DEF SettleItem, Waiting, Released
  <2>2. Released(item, cards) \in Items
    BY DEF Items, Released
  <2>3. \A k : Reads(item, cards, k) => ~(k > acc.cursor[item.run])
    BY <1>3 DEF ReadsOf, Reads
  <2> QED BY <1>3, <2>1, <2>2, <2>3
<1> QED BY <1>1, <1>2, <1>3

(* Of the first n items out is kept, from[i] the place of what is now at i; *)
(* at[k] is the entry of its card that takes item k out, 0 if it stays.     *)
KeptAs(new, items, cards, at, k) ==
  IF ~Waiting(items[k], cards) THEN new = items[k]
  ELSE /\ new = Released(items[k], cards)
       /\ \A x : Reads(items[k], cards, x) =>
            \E j \in 1..(k-1) : items[j].run = items[k].run /\ x <= at[j]
Settles(out, items, cards, n, from, at) ==
  /\ from \in [DOMAIN out -> 1..n]
  /\ at \in [1..n -> Nat]
  /\ \A i, j \in DOMAIN out : i < j => from[i] < from[j]
  /\ \A k \in 1..n : at[k] = 0 <=> \E i \in DOMAIN out : from[i] = k
  /\ \A k \in 1..n : at[k] # 0 => Waiting(items[k], cards) /\ Reads(items[k], cards, at[k])
  /\ \A j, k \in 1..n : j < k /\ items[j].run = items[k].run /\ at[k] # 0 => at[j] < at[k]
  /\ \A i \in DOMAIN out : KeptAs(out[i], items, cards, at, from[i])

(* The cursor of a run is the last of its entries that took an item out.    *)
LastRead(cursor, items, n, at) ==
  \A r \in Runs : /\ \A k \in 1..n : items[k].run = r => at[k] <= cursor[r]
                  /\ cursor[r] = 0 \/ \E k \in 1..n : items[k].run = r /\ at[k] = cursor[r]
SettledUpto(acc, items, cards, n) ==
  /\ acc \in Accs
  /\ \E from, at : Settles(acc.kept, items, cards, n, from, at) /\ LastRead(acc.cursor, items, n, at)

LEMMA ReadStep ==
  ASSUME NEW items \in Seq(Items), NEW cards \in [Runs -> Cards],
         NEW n \in 1..Len(items), NEW acc \in Accs, NEW from, NEW at,
         Settles(acc.kept, items, cards, n-1, from, at), LastRead(acc.cursor, items, n-1, at),
         Waiting(items[n], cards), NEW k \in Nat, Reads(items[n], cards, k),
         k > acc.cursor[items[n].run]
  PROVE  SettledUpto([acc EXCEPT !.cursor[items[n].run] = k], items, cards, n)
<1> DEFINE r == items[n].run
           acc2 == [acc EXCEPT !.cursor[r] = k]
           at2 == [j \in 1..n |-> IF j = n THEN k ELSE at[j]]
<1>1. items[n] \in Items /\ n \in Nat \ {0} /\ r \in Runs
  <2>1. items[n] \in Items /\ n \in Nat \ {0}
    BY ElementOfSeq, LenProperties
  <2> QED BY <2>1 DEF Items, Waiting
<1>2. /\ acc2 \in Accs /\ acc2.kept = acc.kept /\ acc.cursor \in [Runs -> Nat]
      /\ acc2.cursor = [acc.cursor EXCEPT ![r] = k]
  BY <1>1 DEF Accs
<1>3. \A j \in 1..n : j = n \/ j \in 1..(n-1)
  BY <1>1
<1>4. \A j \in 1..(n-1) : j \in 1..n /\ j # n /\ j \in Nat
  BY <1>1
<1>5. /\ at2 \in [1..n -> Nat] /\ at2[n] = k /\ n \in 1..n /\ k # 0
      /\ \A j \in 1..(n-1) : at2[j] = at[j] /\ at[j] \in Nat
  BY <1>1, <1>2, <1>4 DEF Settles
<1> HIDE DEF at2, acc2
<1>6. from \in [DOMAIN acc.kept -> 1..(n-1)] /\ from \in [DOMAIN acc.kept -> 1..n]
  BY <1>4 DEF Settles
<1>7. \A j \in 1..n : at2[j] = 0 <=> \E i \in DOMAIN acc.kept : from[i] = j
  BY <1>3, <1>4, <1>5, <1>6 DEF Settles
<1>8. \A j \in 1..n : at2[j] # 0 => Waiting(items[j], cards) /\ Reads(items[j], cards, at2[j])
  BY <1>3, <1>5 DEF Settles
<1>9. ASSUME NEW i \in 1..n, NEW j \in 1..n, i < j, items[i].run = items[j].run, at2[j] # 0
      PROVE  at2[i] < at2[j]
  <2>1. i \in 1..(n-1)
    BY <1>9, <1>3
  <2>2. CASE j = n
    <3>1. at[i] <= acc.cursor[r] /\ acc.cursor[r] \in Nat
      BY <2>1, <2>2, <1>1, <1>2, <1>9 DEF LastRead
    <3> QED BY <3>1, <2>1, <2>2, <1>5
  <2>3. CASE j # n
    BY <2>1, <2>3, <1>3, <1>5, <1>9 DEF Settles
  <2> QED BY <2>2, <2>3
<1>10. \A i \in DOMAIN acc.kept : KeptAs(acc.kept[i], items, cards, at2, from[i])
  <2> TAKE i \in DOMAIN acc.kept
  <2>1. from[i] \in 1..(n-1) /\ KeptAs(acc.kept[i], items, cards, at, from[i])
    BY <1>6 DEF Settles
  <2>2. \A j \in 1..(from[i]-1) : at2[j] = at[j]
    BY <2>1, <1>1, <1>5
  <2> QED BY <2>1, <2>2 DEF KeptAs
<1>11. Settles(acc2.kept, items, cards, n, from, at2)
  <2>1. \A i, j \in DOMAIN acc.kept : i < j => from[i] < from[j]
    BY DEF Settles
  <2> QED BY <2>1, <1>2, <1>5, <1>6, <1>7, <1>8, <1>9, <1>10 DEF Settles
<1>12. LastRead(acc2.cursor, items, n, at2)
  <2> SUFFICES ASSUME NEW x \in Runs
      PROVE  /\ \A j \in 1..n : items[j].run = x => at2[j] <= acc2.cursor[x]
             /\ acc2.cursor[x] = 0 \/ \E j \in 1..n : items[j].run = x /\ at2[j] = acc2.cursor[x]
    BY DEF LastRead
  <2>1. CASE x = r
    <3>1. acc2.cursor[x] = k
      BY <2>1, <1>1, <1>2
    <3>2. \A j \in 1..(n-1) : items[j].run = x => at[j] <= acc.cursor[x] /\ acc.cursor[x] \in Nat
      BY <1>2 DEF LastRead
    <3> QED BY <3>1, <3>2, <2>1, <1>3, <1>5
  <2>2. CASE x # r
    <3>1. acc2.cursor[x] = acc.cursor[x]
      BY <2>2, <1>1, <1>2
    <3> QED BY <3>1, <2>2, <1>3, <1>4, <1>5 DEF LastRead
  <2> QED BY <2>1, <2>2
<1>13. SettledUpto(acc2, items, cards, n)
  BY <1>2, <1>11, <1>12 DEF SettledUpto
<1> QED BY <1>13 DEF acc2

LEMMA KeepStep ==
  ASSUME NEW items \in Seq(Items), NEW cards \in [Runs -> Cards],
         NEW n \in 1..Len(items), NEW acc \in Accs, NEW from, NEW at,
         Settles(acc.kept, items, cards, n-1, from, at), LastRead(acc.cursor, items, n-1, at),
         NEW new \in Items,
         \/ ~Waiting(items[n], cards) /\ new = items[n]
         \/ /\ Waiting(items[n], cards) /\ new = Released(items[n], cards)
            /\ \A k : Reads(items[n], cards, k) => ~(k > acc.cursor[items[n].run])
  PROVE  SettledUpto([acc EXCEPT !.kept = Append(@, new)], items, cards, n)
<1> DEFINE acc2 == [acc EXCEPT !.kept = Append(@, new)]
           m == Len(acc.kept) + 1
           from2 == [i \in 1..m |-> IF i = m THEN n ELSE from[i]]
           at2 == [j \in 1..n |-> IF j = n THEN 0 ELSE at[j]]
<1>1. items[n] \in Items /\ n \in Nat \ {0}
  BY ElementOfSeq, LenProperties
<1>2. /\ acc2 \in Accs /\ acc2.kept = Append(acc.kept, new)
      /\ acc2.cursor = acc.cursor /\ acc.cursor \in [Runs -> Nat] /\ acc.kept \in Seq(Items)
  BY AppendProperties DEF Accs
<1>3. \A j \in 1..n : j = n \/ j \in 1..(n-1)
  BY <1>1
<1>4. \A j \in 1..(n-1) : j \in 1..n /\ j # n /\ j < n /\ j \in Nat
  BY <1>1
<1>5. /\ at2 \in [1..n -> Nat] /\ at2[n] = 0 /\ n \in 1..n
      /\ \A j \in 1..(n-1) : at2[j] = at[j] /\ at[j] \in Nat
  BY <1>1, <1>4 DEF Settles
<1>6. /\ m \in Nat /\ DOMAIN acc.kept = 1..(m-1) /\ DOMAIN acc2.kept = 1..m /\ m \in 1..m
      /\ acc2.kept[m] = new
      /\ \A i \in 1..(m-1) : acc2.kept[i] = acc.kept[i] /\ i \in 1..m /\ i < m
  BY <1>2, LenProperties, AppendProperties
<1>7. \A i \in 1..m : i = m \/ i \in 1..(m-1)
  BY <1>6
<1>8. /\ from2 \in [1..m -> 1..n] /\ from2[m] = n
      /\ \A i \in 1..(m-1) : from2[i] = from[i] /\ from[i] \in 1..(n-1)
  BY <1>4, <1>5, <1>6, <1>7 DEF Settles
<1> HIDE DEF m, from2, at2, acc2
<1>9. ASSUME NEW i \in 1..m, NEW j \in 1..m, i < j PROVE from2[i] < from2[j]
  <2>1. i \in 1..(m-1)
    BY <1>6, <1>7, <1>9
  <2>2. CASE j = m
    BY <2>1, <2>2, <1>4, <1>8
  <2>3. CASE j # m
    BY <2>1, <2>3, <1>6, <1>7, <1>8, <1>9 DEF Settles
  <2> QED BY <2>2, <2>3
<1>10. \A j \in 1..n : at2[j] = 0 <=> \E i \in 1..m : from2[i] = j
  <2> TAKE j \in 1..n
  <2>1. CASE j = n
    BY <2>1, <1>5, <1>6, <1>8
  <2>2. CASE j # n
    <3>1. j \in 1..(n-1) /\ at2[j] = at[j]
      BY <2>2, <1>3, <1>5
    <3>2. at[j] = 0 <=> \E i \in 1..(m-1) : from[i] = j
      BY <3>1, <1>6 DEF Settles
    <3>3. (\E i \in 1..(m-1) : from[i] = j) <=> \E i \in 1..m : from2[i] = j
      BY <2>2, <1>6, <1>7, <1>8
    <3> QED BY <3>1, <3>2, <3>3
  <2> QED BY <2>1, <2>2
<1>11. \A j \in 1..n : at2[j] # 0 => Waiting(items[j], cards) /\ Reads(items[j], cards, at2[j])
  BY <1>3, <1>5 DEF Settles
<1>12. ASSUME NEW i \in 1..n, NEW j \in 1..n, i < j, items[i].run = items[j].run, at2[j] # 0
       PROVE  at2[i] < at2[j]
  <2>1. i \in 1..(n-1) /\ j \in 1..(n-1)
    BY <1>3, <1>5, <1>12
  <2> QED BY <2>1, <1>5, <1>12 DEF Settles
<1>13. \A i \in 1..(m-1) : KeptAs(acc2.kept[i], items, cards, at2, from2[i])
  <2> TAKE i \in 1..(m-1)
  <2>1. /\ from2[i] = from[i] /\ from[i] \in 1..(n-1)
        /\ KeptAs(acc2.kept[i], items, cards, at, from[i])
    BY <1>6, <1>8 DEF Settles
  <2>2. \A j \in 1..(from[i]-1) : at2[j] = at[j]
    BY <2>1, <1>1, <1>5
  <2> QED BY <2>1, <2>2 DEF KeptAs
<1>14. KeptAs(acc2.kept[m], items, cards, at2, from2[m])
  <2>1. CASE ~Waiting(items[n], cards)
    BY <2>1, <1>6, <1>8 DEF KeptAs
  <2>2. CASE Waiting(items[n], cards)
    <3> DEFINE r == items[n].run
    <3>1. r \in Runs /\ cards[r] \in Cards /\ items[n].baseline \in Nat
      BY <2>2, <1>1 DEF Items, Waiting
    <3>2. ASSUME NEW x, Reads(items[n], cards, x)
          PROVE  \E j \in 1..(n-1) : items[j].run = r /\ x <= at2[j]
      <4>1. x \in Nat /\ x # 0 /\ acc.cursor[r] \in Nat
        BY <3>1, <3>2, <1>2, LenProperties DEF Reads, Cards
      <4>2. x <= acc.cursor[r]
        BY <4>1, <3>2, <2>2
      <4>3. PICK j \in 1..(n-1) : items[j].run = r /\ at[j] = acc.cursor[r]
        BY <4>1, <4>2, <3>1 DEF LastRead
      <4> QED BY <4>2, <4>3, <1>5
    <3> QED BY <2>2, <3>2, <1>6, <1>8 DEF KeptAs
  <2> QED BY <2>1, <2>2
<1>15. Settles(acc2.kept, items, cards, n, from2, at2)
  <2>1. \A i \in 1..m : KeptAs(acc2.kept[i], items, cards, at2, from2[i])
    BY <1>7, <1>13, <1>14
  <2>2. \A i, j \in 1..m : i < j => from2[i] < from2[j]
    BY <1>9
  <2>3. \A i, j \in 1..n : i < j /\ items[i].run = items[j].run /\ at2[j] # 0 => at2[i] < at2[j]
    BY <1>12
  <2>4. DOMAIN acc2.kept = 1..m /\ from2 \in [1..m -> 1..n] /\ at2 \in [1..n -> Nat]
    BY <1>5, <1>6, <1>8
  <2> QED BY <2>1, <2>2, <2>3, <2>4, <1>10, <1>11, Zenon DEF Settles
<1>16. LastRead(acc2.cursor, items, n, at2)
  <2> SUFFICES ASSUME NEW x \in Runs
      PROVE  /\ \A j \in 1..n : items[j].run = x => at2[j] <= acc.cursor[x]
             /\ acc.cursor[x] = 0 \/ \E j \in 1..n : items[j].run = x /\ at2[j] = acc.cursor[x]
    BY <1>2 DEF LastRead
  <2>1. acc.cursor[x] \in Nat
    BY <1>2
  <2>2. \A j \in 1..(n-1) : items[j].run = x => at2[j] <= acc.cursor[x]
    BY <1>5 DEF LastRead
  <2>3. acc.cursor[x] = 0 \/ \E j \in 1..(n-1) : items[j].run = x /\ at2[j] = acc.cursor[x]
    BY <1>5 DEF LastRead
  <2> QED BY <2>1, <2>2, <2>3, <1>3, <1>4, <1>5
<1>17. SettledUpto(acc2, items, cards, n)
  BY <1>2, <1>15, <1>16 DEF SettledUpto
<1> QED BY <1>17 DEF acc2

LEMMA SettledStep ==
  ASSUME NEW items \in Seq(Items), NEW cards \in [Runs -> Cards],
         NEW n \in 1..Len(items), NEW acc,
         SettledUpto(acc, items, cards, n-1)
  PROVE  SettledUpto(SettleItem(acc, items[n], cards), items, cards, n)
<1>1. items[n] \in Items /\ acc \in Accs
  BY ElementOfSeq DEF SettledUpto
<1>2. PICK from, at : /\ Settles(acc.kept, items, cards, n-1, from, at)
                      /\ LastRead(acc.cursor, items, n-1, at)
  BY DEF SettledUpto
<1> DEFINE item == items[n]
           next == SettleItem(acc, item, cards)
           Takes(k) == /\ Reads(item, cards, k) /\ k > acc.cursor[item.run]
                       /\ next = [acc EXCEPT !.cursor[item.run] = k]
           Keeps(new) ==
             /\ next = [acc EXCEPT !.kept = Append(@, new)]
             /\ \/ ~Waiting(item, cards) /\ new = item
                \/ /\ Waiting(item, cards) /\ new = Released(item, cards)
                   /\ \A k : Reads(item, cards, k) => ~(k > acc.cursor[item.run])
<1>3. ASSUME Waiting(item, cards), NEW k \in Nat, Takes(k)
      PROVE  SettledUpto(next, items, cards, n)
  <2>1. SettledUpto([acc EXCEPT !.cursor[item.run] = k], items, cards, n)
    BY <1>1, <1>2, <1>3, ReadStep
  <2> QED BY <1>3, <2>1
<1>4. ASSUME NEW new \in Items, Keeps(new) PROVE SettledUpto(next, items, cards, n)
  <2>1. SettledUpto([acc EXCEPT !.kept = Append(@, new)], items, cards, n)
    BY <1>1, <1>2, <1>4, KeepStep
  <2> QED BY <1>4, <2>1
<1>5. (Waiting(item, cards) /\ \E k \in Nat : Takes(k)) \/ \E new \in Items : Keeps(new)
  BY <1>1, ItemSettled
<1> HIDE DEF item, next, Takes, Keeps
<1>6. SettledUpto(next, items, cards, n)
  BY <1>3, <1>4, <1>5
<1> QED BY <1>6 DEF next, item

(* What settleQueue makes of any queue and any cards (promptQueue.ts):      *)
(* what it keeps are items that were there, none twice, in their order.  An *)
(* item it takes out stands beyond its baseline in the card of its run, and *)
(* each such item at an entry of its own, later items at later ones.  One   *)
(* it keeps waits on no run, or on a run without a card; or the card has no *)
(* entry for it but those of the items before it, and then it waits on that *)
(* run as long as the run goes on.                                          *)
THEOREM Settled ==
  ASSUME NEW items \in Seq(Items), NEW cards \in [Runs -> Cards]
  PROVE  /\ Settle(items, cards) \in Seq(Items)
         /\ \E from, at : Settles(Settle(items, cards), items, cards, Len(items), from, at)
<1> DEFINE acc(n) == Settling(items, cards)[n]
           size == Len(items)
           Bad == {n \in 0..size : ~SettledUpto(acc(n), items, cards, n)}
<1>0. size \in Nat
  BY LenProperties
<1>1. acc(0) = NothingSettled /\ \A n \in 1..size : acc(n) = SettleItem(acc(n-1), items[n], cards)
  BY SettlingDefined
<1> HIDE DEF acc
<1>2. SettledUpto(acc(0), items, cards, 0)
  <2>1. NothingSettled \in Accs /\ DOMAIN NothingSettled.kept = {} /\ 1..0 = {}
    BY EmptySeq DEF NothingSettled, Accs
  <2> DEFINE none == [i \in {} |-> 0]
  <2>2. none \in [DOMAIN NothingSettled.kept -> 1..0] /\ none \in [1..0 -> Nat]
    BY <2>1
  <2> HIDE DEF none
  <2>3. Settles(NothingSettled.kept, items, cards, 0, none, none)
    BY <2>1, <2>2 DEF Settles
  <2>4. LastRead(NothingSettled.cursor, items, 0, none)
    BY <2>1 DEF LastRead, NothingSettled
  <2> QED BY <1>1, <2>1, <2>3, <2>4 DEF SettledUpto
<1>3. Bad = {}
  <2> SUFFICES ASSUME Bad # {} PROVE FALSE
    OBVIOUS
  <2>1. PICK n \in Bad : \A k \in Bad : n <= k
    <3> Bad \in SUBSET Nat
      BY <1>0
    <3> QED BY Least
  <2>2. n \in 1..size /\ n-1 \in 0..size /\ ~(n <= n-1)
    BY <2>1, <1>0, <1>2
  <2>3. n-1 \notin Bad
    <3> HIDE DEF Bad
    <3> QED BY <2>1, <2>2
  <2>4. SettledUpto(acc(n-1), items, cards, n-1)
    BY <2>2, <2>3
  <2>5. SettledUpto(acc(n), items, cards, n)
    BY <2>2, <2>4, <1>1, SettledStep
  <2> QED BY <2>1, <2>5
<1>4. SettledUpto(acc(size), items, cards, size)
  BY <1>0, <1>3
<1>5. Settle(items, cards) = acc(size).kept
  BY DEF Settle, acc
<1> QED BY <1>4, <1>5 DEF SettledUpto, Accs

ReadIn(item, cards) ==
  /\ item.run \in Runs
  /\ cards[item.run].shown
  /\ \E k \in DOMAIN cards[item.run].steering : cards[item.run].steering[k] = Text[item.prompt]
SameItem(new, old, cards) ==
  \/ new = old
  \/ /\ old.run \in Runs /\ ~cards[old.run].running
     /\ new = [old EXCEPT !.run = NoRun]

(* What the invariants need of it.                                          *)
LEMMA KeptOrRead ==
  ASSUME NEW items \in Seq(Items), NEW cards \in [Runs -> Cards]
  PROVE  /\ Settle(items, cards) \in Seq(Items)
         /\ \E from \in [DOMAIN Settle(items, cards) -> DOMAIN items] :
              /\ \A i, j \in DOMAIN Settle(items, cards) : from[i] = from[j] => i = j
              /\ \A i \in DOMAIN Settle(items, cards) :
                   SameItem(Settle(items, cards)[i], items[from[i]], cards)
         /\ \A i \in DOMAIN items :
              InQueue(Settle(items, cards), items[i].prompt) \/ ReadIn(items[i], cards)
<1> DEFINE out == Settle(items, cards)
           size == Len(items)
<1>0. /\ size \in Nat /\ DOMAIN items = 1..size
      /\ \A k \in 1..size : items[k] \in Items
  BY LenProperties, ElementOfSeq
<1>1. out \in Seq(Items) /\ \E from, at : Settles(out, items, cards, size, from, at)
  BY Settled
<1> HIDE DEF out
<1>2. PICK from, at : Settles(out, items, cards, size, from, at)
  BY <1>1
<1>3. from \in [DOMAIN out -> DOMAIN items] /\ DOMAIN out = 1..Len(out) /\ Len(out) \in Nat
  BY <1>0, <1>1, <1>2, LenProperties DEF Settles
<1>4. ASSUME NEW i \in DOMAIN out, NEW j \in DOMAIN out, from[i] = from[j] PROVE i = j
  <2>1. from[i] \in Nat /\ from[j] \in Nat /\ i \in Nat /\ j \in Nat
    BY <1>0, <1>3
  <2>2. ~(i < j) /\ ~(j < i)
    BY <1>2, <1>4, <2>1 DEF Settles
  <2> QED BY <2>1, <2>2
<1>5. \A i \in DOMAIN out : SameItem(out[i], items[from[i]], cards)
  <2> TAKE i \in DOMAIN out
  <2>1. KeptAs(out[i], items, cards, at, from[i]) /\ items[from[i]] \in Items
    BY <1>0, <1>2, <1>3 DEF Settles
  <2> QED BY <2>1 DEF KeptAs, SameItem, Waiting, Released, Items
<1>6. ASSUME NEW k \in DOMAIN items PROVE InQueue(out, items[k].prompt) \/ ReadIn(items[k], cards)
  <2>1. CASE at[k] # 0
    <3>1. Waiting(items[k], cards) /\ Reads(items[k], cards, at[k]) /\ items[k] \in Items
      BY <2>1, <1>0, <1>2 DEF Settles
    <3> QED BY <3>1 DEF Waiting, Reads, ReadIn, Items
  <2>2. CASE at[k] = 0
    <3>1. PICK i \in DOMAIN out : from[i] = k
      BY <2>2, <1>0, <1>2 DEF Settles
    <3>2. out[i].prompt = items[k].prompt
      BY <3>1, <1>0, <1>5 DEF SameItem, Items
    <3> QED BY <3>2 DEF InQueue
  <2> QED BY <2>1, <2>2
<1> QED BY <1>1, <1>3, <1>4, <1>5, <1>6 DEF out

---------------------------------------------------------------------------
(* The values the variables take.                                           *)

Events ==
  [kind : {"steering"}, note : Prompts, next : {NoRun}]
    \cup [kind : {"handoff"}, note : {<<>>}, next : Runs]
    \cup [kind : {"done"}, note : {<<>>}, next : {NoRun}]
RunStates ==
  [session : Sessions, status : {"none", "running", "ended"},
   asked : Seq(Prompts), notes : Seq(Prompts), log : Seq(Events)]
Singles == {<<p>> : p \in Prompts}
Starts ==
  [kind : {"start"}, prompts : Seq(Prompts), session : Sessions, replaces : BOOLEAN,
   flush : BOOLEAN, answer : {"none", "started", "failed"}, run : Runs \cup {NoRun}]
Steers ==
  [kind : {"steer"}, prompts : Singles, run : Runs, baseline : Nat,
   answer : {"none", "taken", "refused"}]
Withdrawals ==
  [kind : {"withdraw"}, prompts : Singles, run : Runs, answer : {"none", "withdrawn", "kept"}]

TypedService == run \in [Runs -> RunStates]
TypedThread == thread \in [session : Sessions, card : [Runs -> Cards]]
TypedLoops == followed \in SUBSET Runs /\ position \in [Runs -> Nat]
TypedQueue == queue \in Seq(Items)
TypedRequests ==
  /\ requests \in SUBSET (Starts \cup Steers \cup Withdrawals)
  /\ \A q \in requests : q.kind = "start" /\ q.answer = "started" => q.run \in Runs
TypedRest ==
  /\ open \in Sessions
  /\ load \in [session : Sessions, step : {"turns", "runs", "done"}, switches : Nat]
  /\ edits \in [runs : SUBSET Runs, sent : Nat]
  /\ DOMAIN typed \subseteq Prompts
Typed ==
  TypedService /\ TypedThread /\ TypedLoops /\ TypedQueue /\ TypedRequests /\ TypedRest

LEMMA RequestKinds ==
  ASSUME TypedRequests, NEW q \in requests
  PROVE  /\ q.kind = "start" => q \in Starts
         /\ q.kind = "steer" => q \in Steers
         /\ q.kind = "withdraw" => q \in Withdrawals
BY DEF TypedRequests, Starts, Steers, Withdrawals

LEMMA RequestAdded ==
  ASSUME TypedRequests, NEW q \in Starts \cup Steers \cup Withdrawals, q.answer = "none",
         requests' = requests \cup {q}
  PROVE  TypedRequests'
BY DEF TypedRequests

LEMMA RequestDone ==
  ASSUME TypedRequests, NEW q, requests' = requests \ {q}
  PROVE  TypedRequests'
BY DEF TypedRequests

LEMMA TypedInit == Init => Typed
<1> SUFFICES ASSUME Init PROVE Typed
  OBVIOUS
<1> USE QueueConstants
<1>1. TypedService
  BY EmptySeq DEF Init, TypedService, RunStates, NotRun
<1>2. TypedThread
  BY EmptySeq DEF Init, TypedThread, Blank, NoCard, Cards
<1> QED BY <1>1, <1>2, EmptySeq DEF Init, Typed, TypedLoops, TypedQueue, TypedRequests, TypedRest

LEMMA BlankTyped == ASSUME NEW s \in Sessions PROVE Blank(s) \in [session : Sessions, card : [Runs -> Cards]]
BY EmptySeq DEF Blank, NoCard, Cards

LEMMA LoadTyped ==
  ASSUME Typed, NEW s \in Sessions, Load(s)
  PROVE  /\ TypedThread' /\ TypedLoops'
         /\ load' \in [session : Sessions, step : {"turns", "runs", "done"}, switches : Nat]
BY BlankTyped DEF Typed, Load, TypedThread, TypedLoops, TypedRest

LEMMA ShowTyped ==
  ASSUME NEW cards \in [Runs -> Cards], NEW rs
  PROVE  Show(cards, rs) \in [Runs -> Cards]
BY EmptySeq DEF Show, NewCard, NoCard, Cards

LEMMA AttachTyped ==
  ASSUME Typed, NEW rs \in SUBSET Runs, Attach(rs)
  PROVE  TypedLoops'
BY DEF Typed, Attach, TypedLoops

LEMMA TypeTyped == ASSUME Typed, NEW p \in Prompts, Type(p) PROVE Typed'
<1> USE DEF Type, Typed
<1>1. <<p>> \in Singles /\ <<p>> \in Seq(Prompts)
  BY DEF Singles
<1>2. TypedRequests'
  <2>1. CASE ActiveRuns = {}
    <3> DEFINE q == [kind |-> "start", prompts |-> <<p>>, session |-> open, replaces |-> FALSE,
                     flush |-> FALSE, answer |-> "none", run |-> NoRun]
    <3>1. q \in Starts
      BY <1>1 DEF Starts, TypedRest
    <3>2. requests' = requests \cup {q}
      BY <2>1
    <3> QED BY <3>1, <3>2, RequestAdded
  <2>2. CASE ActiveRuns # {}
    <3>1. PICK r \in ActiveRuns :
            requests' = requests \cup
              {[kind |-> "steer", prompts |-> <<p>>, run |-> r,
                baseline |-> Len(thread.card[r].steering), answer |-> "none"]}
      BY <2>2
    <3> DEFINE q == [kind |-> "steer", prompts |-> <<p>>, run |-> r,
                     baseline |-> Len(thread.card[r].steering), answer |-> "none"]
    <3>2. r \in Runs /\ Len(thread.card[r].steering) \in Nat
      BY LenProperties DEF ActiveRuns, TypedThread, Cards
    <3>3. q \in Steers
      BY <1>1, <3>2 DEF Steers
    <3> QED BY <3>1, <3>3, RequestAdded
  <2> QED BY <2>1, <2>2
<1>3. TypedRest'
  BY DEF TypedRest
<1> QED BY <1>2, <1>3 DEF TypedService, TypedThread, TypedLoops, TypedQueue

LEMMA EditTyped == ASSUME Typed, NEW p \in Prompts, Edit(p) PROVE Typed'
<1> USE DEF Edit, Typed
<1> DEFINE q == [kind |-> "start", prompts |-> <<p>>, session |-> open, replaces |-> TRUE,
                 flush |-> FALSE, answer |-> "none", run |-> NoRun]
<1>1. q \in Starts
  BY DEF Starts, TypedRest
<1>2. TypedRequests'
  BY <1>1, RequestAdded
<1>3. TypedRest'
  BY DEF TypedRest
<1> QED BY <1>2, <1>3 DEF TypedService, TypedThread, TypedLoops, TypedQueue

(* RemoveAt of SequencesExt.                                                *)
LEMMA Removed ==
  ASSUME NEW S, NEW s \in Seq(S), NEW i \in DOMAIN s
  PROVE  /\ RemoveAt(s, i) \in Seq(S)
         /\ DOMAIN RemoveAt(s, i) = 1..(Len(s) - 1)
         /\ \A j \in DOMAIN RemoveAt(s, i) : RemoveAt(s, i)[j] = s[IF j < i THEN j ELSE j + 1]
<1> DEFINE n == Len(s)
<1>1. n \in Nat /\ i \in 1..n /\ DOMAIN s = 1..n
  BY LenProperties
<1> DEFINE a == SubSeq(s, 1, i-1)
           b == SubSeq(s, i+1, n)
<1>2. a \in Seq(S) /\ Len(a) = i-1 /\ \A j \in 1..(i-1) : a[j] = s[j]
  BY <1>1
<1>3. b \in Seq(S) /\ Len(b) = n-i /\ \A j \in 1..(n-i) : b[j] = s[i+j]
  BY <1>1
<1>4. RemoveAt(s, i) = a \o b
  BY DEF RemoveAt
<1> HIDE DEF a, b
<1>5. /\ a \o b \in Seq(S) /\ Len(a \o b) = n-1
      /\ \A j \in 1..(n-1) : (a \o b)[j] = IF j <= i-1 THEN a[j] ELSE b[j-(i-1)]
  <2>1. Len(a) + Len(b) = n-1
    BY <1>1, <1>2, <1>3
  <2>2. /\ a \o b \in Seq(S) /\ Len(a \o b) = Len(a) + Len(b)
        /\ \A j \in 1..(Len(a) + Len(b)) :
             (a \o b)[j] = IF j <= Len(a) THEN a[j] ELSE b[j - Len(a)]
    BY <1>2, <1>3, ConcatProperties
  <2> QED BY <2>1, <2>2, <1>2
<1>6. ASSUME NEW j \in 1..(n-1) PROVE (a \o b)[j] = s[IF j < i THEN j ELSE j + 1]
  <2>1. CASE j < i
    <3>1. j \in 1..(i-1) /\ j <= i-1
      BY <2>1, <1>1
    <3> QED BY <2>1, <3>1, <1>2, <1>5
  <2>2. CASE ~(j < i)
    <3>1. j-(i-1) \in 1..(n-i) /\ i + (j-(i-1)) = j + 1 /\ ~(j <= i-1)
      BY <2>2, <1>1
    <3> QED BY <2>2, <3>1, <1>3, <1>5
  <2> QED BY <2>1, <2>2
<1>7. DOMAIN (a \o b) = 1..(n-1)
  BY <1>5, LenProperties
<1> QED BY <1>4, <1>5, <1>6, <1>7

LEMMA WithdrawTyped == ASSUME Typed, NEW i \in DOMAIN queue, Withdraw(i) PROVE Typed'
<1> USE DEF Withdraw, Typed
<1>1. TypedQueue'
  BY Removed DEF TypedQueue
<1>2. TypedRequests'
  <2>1. CASE queue[i].run = NoRun
    BY <2>1 DEF TypedRequests
  <2>2. CASE queue[i].run # NoRun
    <3> DEFINE q == [kind |-> "withdraw", prompts |-> <<queue[i].prompt>>,
                     run |-> queue[i].run, answer |-> "none"]
    <3>1. queue[i] \in Items
      BY ElementOfSeq, LenProperties DEF TypedQueue
    <3>2. q \in Withdrawals
      BY <2>2, <3>1 DEF Withdrawals, Items, Singles
    <3> QED BY <2>2, <3>2, RequestAdded
  <2> QED BY <2>1, <2>2
<1> QED BY <1>1, <1>2 DEF TypedService, TypedThread, TypedLoops, TypedRest

LEMMA SelectTyped == ASSUME Typed, NEW s \in Sessions, Select(s) PROVE Typed'
<1>1. TypedThread' /\ TypedLoops'
      /\ load' \in [session : Sessions, step : {"turns", "runs", "done"}, switches : Nat]
  BY LoadTyped DEF Select
<1> QED BY <1>1 DEF Select, Typed, TypedService, TypedQueue, TypedRequests, TypedRest

LEMMA AnsweredTyped ==
  ASSUME TypedRequests, NEW q \in requests, NEW answer, answer # "started",
         [q EXCEPT !.answer = answer] \in Starts \cup Steers \cup Withdrawals,
         Answered(q, answer)
  PROVE  TypedRequests'
<1>1. [q EXCEPT !.answer = answer].answer = answer
  BY DEF TypedRequests, Starts, Steers, Withdrawals
<1> QED BY <1>1 DEF TypedRequests, Answered

LEMMA ServeSteerTyped == ASSUME Typed, NEW q \in requests, ServeSteer(q) PROVE Typed'
<1> USE DEF ServeSteer, Typed
<1>1. q \in Steers /\ q.prompts \in Seq(Prompts)
  <2>1. q \in Steers
    BY RequestKinds
  <2>2. PICK p \in Prompts : q.prompts = <<p>>
    BY <2>1 DEF Steers, Singles
  <2> QED BY <2>1, <2>2
<1>2. [q EXCEPT !.answer = "taken"] \in Steers /\ [q EXCEPT !.answer = "refused"] \in Steers
  BY <1>1 DEF Steers
<1>3. TypedRequests'
  BY <1>2, AnsweredTyped
<1>4. TypedService'
  <2>1. CASE UNCHANGED run
    BY <2>1 DEF TypedService
  <2>2. CASE ~UNCHANGED run
    <3>1. q.run \in Runs /\ run[q.run] \in RunStates /\ run[q.run].notes \in Seq(Prompts)
      BY <1>1 DEF TypedService, RunStates, Steers
    <3>2. run[q.run].notes \o q.prompts \in Seq(Prompts)
      BY <1>1, <3>1, ConcatProperties
    <3>3. [run[q.run] EXCEPT !.notes = run[q.run].notes \o q.prompts] \in RunStates
      BY <3>1, <3>2 DEF RunStates
    <3>4. run' = [run EXCEPT ![q.run] = [run[q.run] EXCEPT !.notes = run[q.run].notes \o q.prompts]]
      BY <2>2, <3>1 DEF TypedService
    <3> QED BY <3>1, <3>3, <3>4 DEF TypedService
  <2> QED BY <2>1, <2>2
<1> QED BY <1>3, <1>4 DEF TypedThread, TypedLoops, TypedQueue, TypedRest

LEMMA ServeWithdrawTyped == ASSUME Typed, NEW q \in requests, ServeWithdraw(q) PROVE Typed'
<1> USE DEF ServeWithdraw, Typed
<1>1. q \in Withdrawals
  BY RequestKinds
<1>2. [q EXCEPT !.answer = "withdrawn"] \in Withdrawals /\ [q EXCEPT !.answer = "kept"] \in Withdrawals
  BY <1>1 DEF Withdrawals
<1>3. TypedRequests'
  BY <1>2, AnsweredTyped
<1>4. TypedService'
  <2>1. CASE UNCHANGED run
    BY <2>1 DEF TypedService
  <2>2. CASE ~UNCHANGED run
    <3>1. q.run \in Runs /\ run[q.run].notes \in Seq(Prompts)
      BY <1>1 DEF TypedService, RunStates, Withdrawals
    <3>2. PICK i \in DOMAIN run[q.run].notes : run' = [run EXCEPT ![q.run].notes = RemoveAt(@, i)]
      BY <2>2
    <3>3. RemoveAt(run[q.run].notes, i) \in Seq(Prompts)
      BY <3>1, Removed
    <3> QED BY <3>1, <3>2, <3>3 DEF TypedService, RunStates
  <2> QED BY <2>1, <2>2
<1> QED BY <1>3, <1>4 DEF TypedThread, TypedLoops, TypedQueue, TypedRest

LEMMA ServeStartTyped == ASSUME Typed, NEW q \in requests, ServeStart(q) PROVE Typed'
<1> USE DEF ServeStart, Typed
<1>1. q \in Starts
  BY RequestKinds
<1>2. CASE UNCHANGED run
  <2>1. [q EXCEPT !.answer = "failed"] \in Starts
    BY <1>1 DEF Starts
  <2>2. TypedRequests'
    <3>1. CASE Answered(q, "failed")
      BY <3>1, <2>1, AnsweredTyped
    <3>2. CASE ~Answered(q, "failed")
      <4>1. PICK r \in Runs :
              requests' = (requests \ {q}) \cup {[q EXCEPT !.answer = "started", !.run = r]}
        BY <3>2
      <4>2. [q EXCEPT !.answer = "started", !.run = r] \in Starts
            /\ [q EXCEPT !.answer = "started", !.run = r].run = r
        BY <1>1 DEF Starts
      <4> QED BY <4>1, <4>2 DEF TypedRequests
    <3> QED BY <3>1, <3>2
  <2> QED BY <1>2, <2>2 DEF TypedService, TypedThread, TypedLoops, TypedQueue, TypedRest
<1>3. CASE ~UNCHANGED run
  <2>1. PICK r \in Runs :
          /\ run' = [run EXCEPT ![r] = [NotRun EXCEPT
               !.session = q.session, !.status = "running", !.asked = q.prompts]]
          /\ requests' = (requests \ {q}) \cup {[q EXCEPT !.answer = "started", !.run = r]}
    BY <1>3
  <2>2. [q EXCEPT !.answer = "started", !.run = r] \in Starts
        /\ [q EXCEPT !.answer = "started", !.run = r].run = r
    BY <1>1 DEF Starts
  <2>3. TypedRequests'
    BY <2>1, <2>2 DEF TypedRequests
  <2>4. [NotRun EXCEPT !.session = q.session, !.status = "running", !.asked = q.prompts] \in RunStates
    BY <1>1, EmptySeq DEF NotRun, RunStates, Starts
  <2>5. TypedService'
    BY <2>1, <2>4 DEF TypedService
  <2> QED BY <2>3, <2>5 DEF TypedThread, TypedLoops, TypedQueue, TypedRest
<1> QED BY <1>2, <1>3

(* What a run appends to its log.                                           *)
ReadingOf(notes) ==
  [i \in 1..Len(notes) |-> [kind |-> "steering", note |-> notes[i], next |-> NoRun]]
HandoffTo(n) == <<[kind |-> "handoff", note |-> <<>>, next |-> n], DoneEvent>>

LEMMA ReadingTyped ==
  ASSUME NEW notes \in Seq(Prompts)
  PROVE  ReadingOf(notes) \in Seq(Events) /\ Len(ReadingOf(notes)) = Len(notes)
<1>1. Len(notes) \in Nat /\ \A i \in 1..Len(notes) : notes[i] \in Prompts
  BY ElementOfSeq, LenProperties
<1>2. ReadingOf(notes) \in [1..Len(notes) -> Events]
  BY <1>1 DEF ReadingOf, Events
<1> QED BY <1>1, <1>2, IsASeq, LenProperties

LEMMA HandoffTyped ==
  ASSUME NEW n \in Runs
  PROVE  /\ HandoffTo(n) \in Seq(Events) /\ Len(HandoffTo(n)) = 2
         /\ HandoffTo(n)[1] = [kind |-> "handoff", note |-> <<>>, next |-> n]
         /\ HandoffTo(n)[2] = DoneEvent
<1>1. [kind |-> "handoff", note |-> <<>>, next |-> n] \in Events /\ DoneEvent \in Events
  BY DEF Events, DoneEvent
<1> QED BY <1>1 DEF HandoffTo

LEMMA RunRead ==
  ASSUME NEW x \in RunStates, NEW notes \in Seq(Prompts), NEW log \in Seq(Events)
  PROVE  [x EXCEPT !.notes = notes, !.log = log] \in RunStates
BY DEF RunStates

LEMMA ReadNotesTyped == ASSUME Typed, NEW r \in Runs, ReadNotes(r) PROVE Typed'
<1> USE DEF ReadNotes, Typed
<1>1. run[r] \in RunStates /\ run[r].notes \in Seq(Prompts) /\ run[r].log \in Seq(Events)
  BY DEF TypedService, RunStates
<1>2. run' = [run EXCEPT ![r].notes = <<>>, ![r].log = @ \o ReadingOf(run[r].notes)]
  BY DEF ReadingOf
<1>3. run[r].log \o ReadingOf(run[r].notes) \in Seq(Events)
  BY <1>1, ReadingTyped, ConcatProperties
<1>4. run'[r] = [run[r] EXCEPT !.notes = <<>>, !.log = run[r].log \o ReadingOf(run[r].notes)]
      /\ \A x \in Runs : x # r => run'[x] = run[x]
  BY <1>1, <1>2 DEF TypedService, RunStates
<1>5. run'[r] \in RunStates
  <2> DEFINE log == run[r].log \o ReadingOf(run[r].notes)
  <2> HIDE DEF log
  <2>1. <<>> \in Seq(Prompts)
    BY EmptySeq
  <2>2. log \in Seq(Events)
    BY <1>3 DEF log
  <2>3. run'[r] = [run[r] EXCEPT !.notes = <<>>, !.log = log]
    BY <1>4 DEF log
  <2>4. [run[r] EXCEPT !.notes = <<>>, !.log = log] \in RunStates
    BY <1>1, <2>1, <2>2, RunRead
  <2> QED BY <2>3, <2>4
<1>6. TypedService'
  BY <1>2, <1>4, <1>5 DEF TypedService
<1> QED BY <1>6 DEF TypedThread, TypedLoops, TypedQueue, TypedRequests, TypedRest

LEMMA EndRunCases ==
  ASSUME Typed, NEW r \in Runs, NEW n \in Runs \cup {NoRun}, EndRun(r, n)
  PROVE  /\ run[r].status = "running"
         /\ run' \in [Runs -> RunStates]
         /\ run'[r] = [run[r] EXCEPT !.status = "ended",
                         !.log = IF n = NoRun THEN Append(@, DoneEvent) ELSE @ \o HandoffTo(n)]
         /\ n # NoRun => /\ n \in Runs /\ n # r /\ run[n].status = "none"
                         /\ run'[n] = [NotRun EXCEPT !.session = run[r].session, !.status = "running"]
         /\ \A x \in Runs : x # r /\ x # n => run'[x] = run[x]
<1> USE DEF EndRun, Typed
<1>1. run[r] \in RunStates /\ run[r].log \in Seq(Events) /\ run[r].session \in Sessions
  BY DEF TypedService, RunStates
<1>2. CASE n = NoRun
  <2>1. Append(run[r].log, DoneEvent) \in Seq(Events)
    BY <1>1, AppendProperties DEF DoneEvent, Events
  <2>2. run' = [run EXCEPT ![r] = [run[r] EXCEPT !.status = "ended", !.log = Append(run[r].log, DoneEvent)]]
    BY <1>1, <1>2 DEF TypedService
  <2>3. [run[r] EXCEPT !.status = "ended", !.log = Append(run[r].log, DoneEvent)] \in RunStates
    BY <1>1, <2>1 DEF RunStates
  <2> QED BY <1>2, <2>2, <2>3 DEF TypedService
<1>3. CASE n # NoRun
  <2>1. n \in Runs /\ n # r
    BY <1>3
  <2>2. run[r].log \o HandoffTo(n) \in Seq(Events)
    BY <1>1, <2>1, HandoffTyped, ConcatProperties
  <2> DEFINE a == [run[r] EXCEPT !.status = "ended", !.log = run[r].log \o HandoffTo(n)]
             b == [NotRun EXCEPT !.session = run[r].session, !.status = "running"]
  <2>3. run' = [run EXCEPT ![r] = a, ![n] = b]
    BY <1>1, <1>3, <2>1 DEF TypedService, HandoffTo
  <2>4. a \in RunStates
    BY <1>1, <2>2 DEF RunStates
  <2>5. b \in RunStates
    BY <1>1, EmptySeq DEF RunStates, NotRun
  <2> QED BY <1>3, <2>1, <2>3, <2>4, <2>5 DEF TypedService
<1> QED BY <1>2, <1>3

LEMMA EndRunTyped ==
  ASSUME Typed, NEW r \in Runs, NEW n \in Runs \cup {NoRun}, EndRun(r, n) PROVE Typed'
<1>1. TypedService'
  BY EndRunCases DEF TypedService
<1> QED BY <1>1 DEF EndRun, Typed, TypedThread, TypedLoops, TypedQueue, TypedRequests, TypedRest

LEMMA SteerAnsweredTyped == ASSUME Typed, NEW q \in requests, SteerAnswered(q) PROVE Typed'
<1> USE DEF SteerAnswered, Typed
<1>1. q \in Steers
  BY RequestKinds
<1> DEFINE item == [prompt |-> q.prompts[1], run |-> IF q.answer = "taken" THEN q.run ELSE NoRun,
                    baseline |-> q.baseline]
<1>2. item \in Items
  <2>1. PICK p \in Prompts : q.prompts = <<p>>
    BY <1>1 DEF Steers, Singles
  <2> QED BY <1>1, <2>1 DEF Steers, Items
<1>3. queue' = Append(queue, item)
  OBVIOUS
<1>4. TypedQueue'
  BY <1>2, <1>3, AppendProperties DEF TypedQueue
<1> QED BY <1>4, RequestDone DEF TypedService, TypedThread, TypedLoops, TypedRest

LEMMA WithdrawAnsweredTyped == ASSUME Typed, NEW q \in requests, WithdrawAnswered(q) PROVE Typed'
<1> USE DEF WithdrawAnswered, Typed
<1>1. TypedQueue'
  BY Removed DEF TypedQueue
<1> QED BY <1>1, RequestDone DEF TypedService, TypedThread, TypedLoops, TypedRest

LEMMA StartAnsweredTyped == ASSUME Typed, NEW q \in requests, StartAnswered(q) PROVE Typed'
<1> USE DEF StartAnswered, Typed
<1>1. q \in Starts /\ (q.answer = "started" => q.run \in Runs)
  BY RequestKinds DEF TypedRequests
<1>2. TypedRequests'
  BY RequestDone
<1>3. CASE q.answer = "started"
  <2>1. TypedThread'
    BY <1>3, ShowTyped DEF TypedThread
  <2>2. TypedLoops'
    BY <1>1, <1>3, AttachTyped
  <2>3. TypedRest'
    BY <1>1, <1>3 DEF TypedRest
  <2> QED BY <1>2, <2>1, <2>2, <2>3 DEF TypedService, TypedQueue
<1>4. CASE q.answer # "started" /\ q.replaces
  <2>1. q.session \in Sessions
    BY <1>1 DEF Starts
  <2>2. TypedThread' /\ TypedLoops'
        /\ load' \in [session : Sessions, step : {"turns", "runs", "done"}, switches : Nat]
    BY <2>1, <1>4, LoadTyped
  <2> QED BY <1>2, <1>4, <2>2 DEF TypedService, TypedQueue, TypedRest
<1>5. CASE q.answer # "started" /\ ~q.replaces
  BY <1>2, <1>5 DEF TypedService, TypedThread, TypedLoops, TypedQueue, TypedRest
<1> QED BY <1>3, <1>4, <1>5

LEMMA TurnsLoadedTyped == ASSUME Typed, TurnsLoaded PROVE Typed'
<1> USE DEF TurnsLoaded, Typed
<1>1. NoCard \in Cards
  BY EmptySeq DEF NoCard, Cards
<1>2. TypedThread'
  BY <1>1 DEF TypedThread
<1> QED BY <1>2 DEF TypedService, TypedLoops, TypedQueue, TypedRequests, TypedRest

LEMMA RunsListedTyped == ASSUME Typed, RunsListed PROVE Typed'
<1> USE DEF RunsListed, Typed
<1> DEFINE live == {r \in Runs : run[r].session = load.session /\ run[r].status = "running"}
<1>1. TypedThread'
  BY ShowTyped DEF TypedThread
<1>2. TypedLoops'
  <2>1. Attach(live)
    OBVIOUS
  <2> QED BY <2>1, AttachTyped
<1> QED BY <1>1, <1>2 DEF TypedService, TypedQueue, TypedRequests, TypedRest

(* The event a loop takes next, and what it does to the cards.              *)
LEMMA EventCases ==
  ASSUME TypedService, NEW r \in Runs, NEW n \in 1..Len(run[r].log)
  PROVE  /\ run[r].log[n] \in Events /\ n \in DOMAIN run[r].log
         /\ run[r].log[n].kind \in {"steering", "handoff", "done"}
         /\ run[r].log[n].kind = "steering" => run[r].log[n].note \in Prompts
         /\ run[r].log[n].kind = "handoff" => run[r].log[n].next \in Runs
<1>1. run[r].log \in Seq(Events)
  BY DEF TypedService, RunStates
<1>2. run[r].log[n] \in Events /\ n \in DOMAIN run[r].log
  BY <1>1, LenProperties
<1> QED BY <1>2 DEF Events

LEMMA AppliedCases ==
  ASSUME TypedService, NEW cards \in [Runs -> Cards], NEW r \in Runs,
         NEW n \in 1..Len(run[r].log)
  PROVE  LET event == run[r].log[n]
             card == Show(cards, {r})
             out == Applied(cards, r, n)
         IN /\ out \in [Runs -> Cards]
            /\ n <= card[r].seq => out = cards
            /\ n > card[r].seq /\ event.kind = "steering" =>
                 out = [card EXCEPT ![r].seq = n, ![r].steering = Append(@, Text[event.note])]
            /\ n > card[r].seq /\ event.kind = "handoff" =>
                 out = Show([card EXCEPT ![r].seq = n], {event.next})
            /\ n > card[r].seq /\ event.kind = "done" =>
                 out = [card EXCEPT ![r].seq = n, ![r].running = FALSE]
<1> DEFINE event == run[r].log[n]
           card == Show(cards, {r})
           out == Applied(cards, r, n)
<1>1. card \in [Runs -> Cards] /\ card[r] \in Cards /\ card[r].seq \in Nat
  BY ShowTyped DEF Cards
<1>2. n \in Nat /\ event.kind \in {"steering", "handoff", "done"}
      /\ (event.kind = "steering" => event.note \in Prompts)
  <2>1. n \in Nat
    BY LenProperties DEF TypedService, RunStates
  <2> QED BY <2>1, EventCases
<1> HIDE DEF card
<1>3. CASE n <= card[r].seq
  <2>1. out = cards
    BY <1>3 DEF Applied, card
  <2> QED BY <2>1, <1>1, <1>2, <1>3 DEF card
<1>4. CASE n > card[r].seq /\ event.kind = "steering"
  <2>0. ~(n <= card[r].seq)
    BY <1>1, <1>2, <1>4
  <2>1. out = [card EXCEPT ![r].seq = n, ![r].steering = Append(@, Text[event.note])]
    BY <2>0, <1>4 DEF Applied, card
  <2>2. Append(card[r].steering, Text[event.note]) \in Seq(Texts)
    BY <1>1, <1>2, <1>4, AppendProperties DEF Texts, Cards
  <2>3. out \in [Runs -> Cards]
    BY <1>1, <1>2, <2>1, <2>2 DEF Cards
  <2> QED BY <2>0, <2>1, <2>3, <1>4 DEF card
<1>5. CASE n > card[r].seq /\ event.kind = "handoff"
  <2>0. ~(n <= card[r].seq)
    BY <1>1, <1>2, <1>5
  <2>1. out = Show([card EXCEPT ![r].seq = n], {event.next})
    BY <2>0, <1>5 DEF Applied, card
  <2>2. [card EXCEPT ![r].seq = n] \in [Runs -> Cards]
    BY <1>1, <1>2 DEF Cards
  <2>3. out \in [Runs -> Cards]
    BY <2>1, <2>2, ShowTyped
  <2> QED BY <2>0, <2>1, <2>3, <1>5 DEF card
<1>6. CASE n > card[r].seq /\ event.kind = "done"
  <2>0. ~(n <= card[r].seq)
    BY <1>1, <1>2, <1>6
  <2>1. out = [card EXCEPT ![r].seq = n, ![r].running = FALSE]
    BY <2>0, <1>6 DEF Applied, card
  <2>2. out \in [Runs -> Cards]
    BY <1>1, <1>2, <2>1 DEF Cards
  <2> QED BY <2>0, <2>1, <2>2, <1>6 DEF card
<1>7. n <= card[r].seq \/ n > card[r].seq
  BY <1>1, <1>2
<1> QED BY <1>2, <1>3, <1>4, <1>5, <1>6, <1>7 DEF card

LEMMA EventArrivesTyped == ASSUME Typed, NEW r \in Runs, EventArrives(r) PROVE Typed'
<1> USE DEF Typed
<1> DEFINE n == position[r] + 1
           event == run[r].log[n]
<1>1. n \in 1..Len(run[r].log)
  <2>1. position[r] \in Nat /\ Len(run[r].log) \in Nat
    BY LenProperties DEF TypedLoops, TypedService, RunStates
  <2> QED BY <2>1 DEF EventArrives
<1>2. event.kind \in {"steering", "handoff", "done"} /\ (event.kind = "handoff" => event.next \in Runs)
  BY <1>1, EventCases
<1>3. Applied(thread.card, r, n) \in [Runs -> Cards]
  BY <1>1, AppliedCases DEF TypedThread
<1>4. n \in Nat
  BY DEF TypedLoops
<1>5. UNCHANGED <<run, open, queue, requests, rendered, typed>>
  BY DEF EventArrives
<1>6. CASE event.kind = "done" /\ r \in edits.runs
  <2>1. Load(open) /\ edits' = [edits EXCEPT !.runs = @ \ {r}]
    BY <1>6 DEF EventArrives
  <2>2. TypedThread' /\ TypedLoops'
        /\ load' \in [session : Sessions, step : {"turns", "runs", "done"}, switches : Nat]
    BY <2>1, LoadTyped DEF TypedRest
  <2> QED BY <2>1, <2>2, <1>5 DEF TypedService, TypedQueue, TypedRequests, TypedRest
<1>7. CASE ~(event.kind = "done" /\ r \in edits.runs)
  <2>1. thread' = [thread EXCEPT !.card = Applied(thread.card, r, n)] /\ UNCHANGED load
    BY <1>2, <1>7 DEF EventArrives
  <2>2. TypedThread'
    BY <2>1, <1>3 DEF TypedThread
  <2>3. TypedLoops' /\ edits' \in [runs : SUBSET Runs, sent : Nat]
    <3>1. position \in [Runs -> Nat] /\ followed \in SUBSET Runs
          /\ edits \in [runs : SUBSET Runs, sent : Nat]
      BY DEF TypedLoops, TypedRest
    <3>2. CASE event.kind = "done"
      BY <3>1, <3>2, <1>4, <1>7 DEF EventArrives, TypedLoops
    <3>3. CASE event.kind = "handoff"
      <4>1. /\ edits' = [edits EXCEPT !.runs = IF r \in @ THEN (@ \ {r}) \cup {event.next} ELSE @]
            /\ followed' = followed \cup {event.next}
            /\ position' = [position EXCEPT ![r] = n,
                              ![event.next] = IF event.next \in followed THEN @ ELSE 0]
        BY <3>3 DEF EventArrives
      <4>2. event.next \in Runs
        BY <1>2, <3>3
      <4>3. position' \in [Runs -> Nat]
        BY <4>1, <4>2, <3>1, <1>4
      <4> QED BY <4>1, <4>2, <4>3, <3>1 DEF TypedLoops
    <3>4. CASE event.kind = "steering"
      BY <3>1, <3>4, <1>4 DEF EventArrives, TypedLoops
    <3> QED BY <3>2, <3>3, <3>4, <1>2
  <2> QED BY <1>5, <2>1, <2>2, <2>3 DEF TypedService, TypedQueue, TypedRequests, TypedRest
<1> QED BY <1>6, <1>7

LEMMA RenderTyped == ASSUME Typed, Render PROVE Typed'
<1> USE DEF Typed
<1>1. thread.card \in [Runs -> Cards]
  BY DEF TypedThread
<1>2. TypedQueue'
  <2>1. <<>> \in Seq(Items) /\ queue \in Seq(Items)
    BY EmptySeq DEF TypedQueue
  <2>2. Settle(<<>>, thread.card) \in Seq(Items) /\ Settle(queue, thread.card) \in Seq(Items)
    BY <1>1, <2>1, KeptOrRead
  <2> QED BY <2>1, <2>2 DEF Render, TypedQueue
<1>3. TypedRequests'
  <2>1. CASE ~Flushes
    BY <2>1 DEF Render, TypedRequests
  <2>2. CASE Flushes
    <3> DEFINE q == [kind |-> "start", prompts |-> [i \in DOMAIN queue |-> queue[i].prompt],
                session |-> open, replaces |-> FALSE, flush |-> TRUE, answer |-> "none", run |-> NoRun]
    <3>1. [i \in DOMAIN queue |-> queue[i].prompt] \in Seq(Prompts)
      <4>1. queue \in Seq(Items) /\ DOMAIN queue = 1..Len(queue) /\ Len(queue) \in Nat
        BY LenProperties DEF TypedQueue
      <4>2. \A i \in 1..Len(queue) : queue[i].prompt \in Prompts
        <5>1. \A i \in 1..Len(queue) : queue[i] \in Items
          BY <4>1, ElementOfSeq
        <5> QED BY <5>1 DEF Items
      <4>3. [i \in DOMAIN queue |-> queue[i].prompt] \in [1..Len(queue) -> Prompts]
        BY <4>1, <4>2
      <4> QED BY <4>1, <4>3, IsASeq
    <3>2. q \in Starts
      BY <3>1 DEF Starts, TypedRest
    <3>3. requests' = requests \cup {q}
      BY <2>2 DEF Render
    <3> QED BY <3>2, <3>3, RequestAdded
  <2> QED BY <2>1, <2>2
<1> QED BY <1>2, <1>3 DEF Render, TypedService, TypedThread, TypedLoops, TypedRest

LEMMA SendingTyped == ASSUME Typed, Sending PROVE Typed'
  BY DEF Sending, Typed, TypedService, TypedThread, TypedLoops, TypedQueue, TypedRequests, TypedRest

LEMMA TypedStep == ASSUME Typed, [Next]_vars PROVE Typed'
<1>1. CASE User
  BY <1>1, TypeTyped, EditTyped, WithdrawTyped, SelectTyped DEF User
<1>2. CASE Service
  BY <1>2, ServeSteerTyped, ServeWithdrawTyped, ServeStartTyped, ReadNotesTyped, EndRunTyped DEF Service
<1>3. CASE Page
  BY <1>3, SteerAnsweredTyped, WithdrawAnsweredTyped, StartAnsweredTyped, TurnsLoadedTyped,
     RunsListedTyped, EventArrivesTyped, RenderTyped, SendingTyped DEF Page
<1>4. CASE UNCHANGED vars
  BY <1>4 DEF vars, Typed, TypedService, TypedThread, TypedLoops, TypedQueue, TypedRequests, TypedRest
<1> QED BY <1>1, <1>2, <1>3, <1>4 DEF Next

---------------------------------------------------------------------------
(* A run begins once, its log only grows, and once it has ended it has      *)
(* ended: what the page has learnt of a run stays true.                     *)

(* A run that has not begun has nothing, one with a done event has ended.   *)
Phases ==
  \A r \in Runs :
    /\ run[r].status = "none" =>
         run[r].asked = <<>> /\ run[r].notes = <<>> /\ run[r].log = <<>>
    /\ \A i \in DOMAIN run[r].log : run[r].log[i].kind = "done" => run[r].status = "ended"

Longer(log, log2) ==
  Len(log) <= Len(log2) /\ \A i \in DOMAIN log : i \in DOMAIN log2 /\ log2[i] = log[i]

Grows(r) ==
  /\ run[r].status = "ended" => run'[r].status = "ended"
  /\ run[r].status = "running" => run'[r].status # "none"
  /\ Longer(run[r].log, run'[r].log)

LEMMA LongerSame == ASSUME NEW log \in Seq(Events) PROVE Longer(log, log)
BY LenProperties DEF Longer

LEMMA LongerConcat ==
  ASSUME NEW log \in Seq(Events), NEW more \in Seq(Events)
  PROVE  Longer(log, log \o more)
BY LenProperties, ConcatProperties DEF Longer

LEMMA LongerAppend ==
  ASSUME NEW log \in Seq(Events), NEW e \in Events
  PROVE  Longer(log, Append(log, e))
BY LenProperties, AppendProperties DEF Longer

LEMMA LongerEmpty == ASSUME NEW log \in Seq(Events) PROVE Longer(<<>>, log)
<1>1. Len(<<>>) = 0 /\ DOMAIN <<>> = {}
  OBVIOUS
<1>2. Len(log) \in Nat
  BY LenProperties
<1> QED BY <1>1, <1>2 DEF Longer

LEMMA RunTyped ==
  ASSUME Typed, NEW r \in Runs
  PROVE  /\ run[r] \in RunStates /\ run[r].log \in Seq(Events)
         /\ run[r].notes \in Seq(Prompts) /\ run[r].asked \in Seq(Prompts)
         /\ thread.card[r] \in Cards /\ thread.card[r].seq \in Nat
         /\ thread.card[r].steering \in Seq(Texts)
BY DEF Typed, TypedService, TypedThread, RunStates, Cards

(* How each step of the service changes a run.                              *)
LEMMA NotesChange ==
  ASSUME Typed, Phases, NEW r \in Runs, NEW notes, run[r].status = "running",
         run' = [run EXCEPT ![r].notes = notes]
  PROVE  Phases' /\ \A x \in Runs : Grows(x)
<1>1. \A x \in Runs : /\ run'[x].log = run[x].log /\ run'[x].asked = run[x].asked
                      /\ run'[x].status = run[x].status
                      /\ x # r => run'[x].notes = run[x].notes
  BY RunTyped DEF Typed, TypedService, RunStates
<1>2. Phases'
  BY <1>1 DEF Phases
<1>3. \A x \in Runs : Longer(run[x].log, run'[x].log)
  BY <1>1, RunTyped, LongerSame
<1> QED BY <1>1, <1>2, <1>3 DEF Grows

LEMMA ServeStartChange ==
  ASSUME Typed, Phases, NEW q \in requests, NEW r \in Runs, run[r].status = "none", q \in Starts,
         run' = [run EXCEPT ![r] = [NotRun EXCEPT
                  !.session = q.session, !.status = "running", !.asked = q.prompts]]
  PROVE  /\ Phases' /\ \A x \in Runs : Grows(x)
         /\ run'[r].status = "running" /\ run'[r].asked = q.prompts
         /\ run'[r].notes = <<>> /\ run'[r].log = <<>>
         /\ \A x \in Runs : x # r => run'[x] = run[x]
<1>1. /\ run'[r].status = "running" /\ run'[r].asked = q.prompts
      /\ run'[r].notes = <<>> /\ run'[r].log = <<>>
      /\ \A x \in Runs : x # r => run'[x] = run[x]
  BY DEF Typed, TypedService, NotRun
<1>2. Phases'
  BY <1>1 DEF Phases
<1>3. ASSUME NEW x \in Runs PROVE Grows(x)
  <2>1. CASE x = r
    <3>1. run[x].log = <<>>
      BY <2>1 DEF Phases
    <3>2. Longer(run[x].log, run'[x].log)
      BY <3>1, <1>1, <2>1, LongerEmpty, EmptySeq
    <3> QED BY <3>2, <2>1, <1>1 DEF Grows
  <2>2. CASE x # r
    BY <2>2, <1>1, RunTyped, LongerSame DEF Grows
  <2> QED BY <2>1, <2>2
<1> QED BY <1>1, <1>2, <1>3

LEMMA ReadNotesChange ==
  ASSUME Typed, Phases, NEW r \in Runs, ReadNotes(r)
  PROVE  /\ Phases' /\ \A x \in Runs : Grows(x)
         /\ run'[r].status = "running" /\ run'[r].asked = run[r].asked
         /\ run'[r].notes = <<>> /\ run'[r].log = run[r].log \o ReadingOf(run[r].notes)
         /\ \A x \in Runs : x # r => run'[x] = run[x]
<1> DEFINE more == ReadingOf(run[r].notes)
<1>0. run[r].status = "running"
  BY DEF ReadNotes
<1>1. /\ run'[r].status = "running" /\ run'[r].asked = run[r].asked
      /\ run'[r].notes = <<>> /\ run'[r].log = run[r].log \o more
      /\ \A x \in Runs : x # r => run'[x] = run[x]
  BY <1>0, RunTyped DEF ReadNotes, ReadingOf, Typed, TypedService, RunStates
<1>2. more \in Seq(Events) /\ \A i \in DOMAIN more : more[i].kind = "steering"
  BY RunTyped, ReadingTyped DEF ReadingOf
<1> HIDE DEF more
<1>3. \A i \in DOMAIN run'[r].log : run'[r].log[i].kind # "done"
  <2> SUFFICES ASSUME NEW i \in DOMAIN run'[r].log PROVE run'[r].log[i].kind # "done"
    OBVIOUS
  <2>1. \A j \in DOMAIN run[r].log : run[r].log[j].kind # "done"
    BY <1>0 DEF Phases
  <2>2. run[r].log \in Seq(Events)
    BY RunTyped
  <2> DEFINE log == run[r].log
             k == i - Len(log)
  <2>3. i \in 1..(Len(log) + Len(more))
        /\ (log \o more)[i] = IF i <= Len(log) THEN log[i] ELSE more[k]
    BY <1>1, <1>2, <2>2, ConcatProperties, LenProperties
  <2>4. Len(log) \in Nat /\ Len(more) \in Nat /\ DOMAIN log = 1..Len(log) /\ DOMAIN more = 1..Len(more)
    BY <2>2, <1>2, LenProperties
  <2> HIDE DEF log
  <2>5. CASE i <= Len(log)
    BY <2>1, <2>3, <2>4, <2>5, <1>1 DEF log
  <2>6. CASE ~(i <= Len(log))
    BY <1>2, <2>3, <2>4, <2>6, <1>1 DEF log
  <2> QED BY <2>5, <2>6
<1>4. Phases'
  BY <1>1, <1>3 DEF Phases
<1>5. ASSUME NEW x \in Runs PROVE Grows(x)
  BY <1>0, <1>1, <1>2, RunTyped, LongerSame, LongerConcat DEF Grows
<1> QED BY <1>1, <1>4, <1>5 DEF more

LEMMA EndRunChange ==
  ASSUME Typed, Phases, NEW r \in Runs, NEW n \in Runs \cup {NoRun}, EndRun(r, n)
  PROVE  Phases' /\ \A x \in Runs : Grows(x)
<1>1. /\ run[r].status = "running"
      /\ run'[r] = [run[r] EXCEPT !.status = "ended",
                      !.log = IF n = NoRun THEN Append(@, DoneEvent) ELSE @ \o HandoffTo(n)]
      /\ n # NoRun => /\ n \in Runs /\ n # r /\ run[n].status = "none"
                      /\ run'[n] = [NotRun EXCEPT !.session = run[r].session, !.status = "running"]
      /\ \A x \in Runs : x # r /\ x # n => run'[x] = run[x]
  BY EndRunCases
<1>2. /\ run'[r].status = "ended"
      /\ run'[r].log = IF n = NoRun THEN Append(run[r].log, DoneEvent) ELSE run[r].log \o HandoffTo(n)
  BY <1>1, RunTyped DEF RunStates
<1>3. n # NoRun => run'[n].status = "running" /\ run'[n].log = <<>>
                   /\ run'[n].asked = <<>> /\ run'[n].notes = <<>>
  BY <1>1 DEF NotRun
<1>4. Phases'
  <2>1. ASSUME NEW x \in Runs
        PROVE  /\ run'[x].status = "none" =>
                    run'[x].asked = <<>> /\ run'[x].notes = <<>> /\ run'[x].log = <<>>
               /\ \A i \in DOMAIN run'[x].log : run'[x].log[i].kind = "done" => run'[x].status = "ended"
    <3>1. CASE x = r
      BY <3>1, <1>2
    <3>2. CASE x # r /\ x = n
      <4>1. n # NoRun
        BY <3>2, QueueConstants
      <4>2. run'[x].status = "running" /\ DOMAIN run'[x].log = {}
        BY <4>1, <1>3, <3>2
      <4> QED BY <4>2
    <3>3. CASE x # r /\ x # n
      BY <3>3, <1>1 DEF Phases
    <3> QED BY <3>1, <3>2, <3>3
  <2> QED BY <2>1 DEF Phases
<1>5. Longer(run[r].log, run'[r].log)
  <2>0. run[r].log \in Seq(Events) /\ DoneEvent \in Events
    BY RunTyped DEF DoneEvent, Events
  <2>1. CASE n = NoRun
    BY <2>0, <2>1, <1>2, LongerAppend
  <2>2. CASE n # NoRun
    <3>1. HandoffTo(n) \in Seq(Events)
      BY <2>2, <1>1, HandoffTyped
    <3>2. run'[r].log = run[r].log \o HandoffTo(n)
      BY <2>2, <1>2
    <3> QED BY <2>0, <3>1, <3>2, LongerConcat
  <2> QED BY <2>1, <2>2
<1>6. ASSUME NEW x \in Runs PROVE Grows(x)
  <2>1. CASE x = r
    BY <2>1, <1>1, <1>2, <1>5 DEF Grows
  <2>2. CASE x # r /\ x = n
    <3>0. n # NoRun
      BY <2>2, QueueConstants
    <3>1. run[x].status = "none" /\ run'[x].log = <<>>
      BY <1>1, <1>3, <2>2, <3>0
    <3>2. run[x].log = <<>>
      BY <3>1 DEF Phases
    <3>3. <<>> \in Seq(Events)
      BY EmptySeq
    <3>4. Longer(run[x].log, run'[x].log)
      BY <3>1, <3>2, <3>3, LongerEmpty
    <3> QED BY <3>1, <3>4 DEF Grows
  <2>3. CASE x # r /\ x # n
    <3>1. run'[x] = run[x]
      BY <2>3, <1>1
    <3>2. Longer(run[x].log, run'[x].log)
      BY <3>1, RunTyped, LongerSame
    <3> QED BY <3>1, <3>2 DEF Grows
  <2> QED BY <2>1, <2>2, <2>3
<1> QED BY <1>4, <1>6

LEMMA SameRuns ==
  ASSUME Typed, Phases, UNCHANGED run PROVE Phases' /\ \A x \in Runs : Grows(x)
BY RunTyped, LongerSame DEF Grows, Phases

LEMMA ServiceStep ==
  ASSUME Typed, Phases, Service PROVE Phases' /\ \A x \in Runs : Grows(x)
<1>1. ASSUME NEW q \in requests, ServeSteer(q) PROVE Phases' /\ \A x \in Runs : Grows(x)
  <2>1. q \in Steers
    BY <1>1, RequestKinds DEF ServeSteer, Typed
  <2>2. CASE run[q.run].status = "running"
    <3>1. run' = [run EXCEPT ![q.run].notes = run[q.run].notes \o q.prompts] /\ q.run \in Runs
      BY <1>1, <2>1, <2>2 DEF ServeSteer, Steers
    <3> QED BY <2>2, <3>1, NotesChange
  <2>3. CASE run[q.run].status # "running"
    BY <1>1, <2>3, SameRuns DEF ServeSteer
  <2> QED BY <2>2, <2>3
<1>2. ASSUME NEW q \in requests, ServeWithdraw(q) PROVE Phases' /\ \A x \in Runs : Grows(x)
  <2>1. q \in Withdrawals
    BY <1>2, RequestKinds DEF ServeWithdraw, Typed
  <2>2. CASE run[q.run].status = "running" /\ Contains(run[q.run].notes, q.prompts[1])
    <3>1. PICK i \in DOMAIN run[q.run].notes : run' = [run EXCEPT ![q.run].notes = RemoveAt(@, i)]
      BY <1>2, <2>2 DEF ServeWithdraw
    <3>2. run' = [run EXCEPT ![q.run].notes = RemoveAt(run[q.run].notes, i)] /\ q.run \in Runs
      BY <3>1, <2>1 DEF Withdrawals
    <3> QED BY <2>2, <3>2, NotesChange
  <2>3. CASE ~(run[q.run].status = "running" /\ Contains(run[q.run].notes, q.prompts[1]))
    BY <1>2, <2>3, SameRuns DEF ServeWithdraw
  <2> QED BY <2>2, <2>3
<1>3. ASSUME NEW q \in requests, ServeStart(q) PROVE Phases' /\ \A x \in Runs : Grows(x)
  <2>1. q \in Starts
    BY <1>3, RequestKinds DEF ServeStart, Typed
  <2>2. CASE UNCHANGED run
    BY <2>2, SameRuns
  <2>3. CASE ~UNCHANGED run
    <3>1. PICK r \in Runs : /\ run[r].status = "none"
                            /\ run' = [run EXCEPT ![r] = [NotRun EXCEPT
                                 !.session = q.session, !.status = "running", !.asked = q.prompts]]
      BY <1>3, <2>3 DEF ServeStart
    <3> QED BY <2>1, <3>1, ServeStartChange
  <2> QED BY <2>2, <2>3
<1> QED BY <1>1, <1>2, <1>3, ReadNotesChange, EndRunChange DEF Service

LEMMA RunsStep ==
  ASSUME Typed, Phases, [Next]_vars PROVE Phases' /\ \A x \in Runs : Grows(x)
<1>1. CASE Service
  BY <1>1, ServiceStep
<1>2. CASE User
  BY <1>2, SameRuns DEF User, Type, Edit, Withdraw, Select
<1>3. CASE Page
  BY <1>3, SameRuns DEF Page, SteerAnswered, WithdrawAnswered, StartAnswered, TurnsLoaded, RunsListed,
     EventArrives, Render, Sending
<1>4. CASE UNCHANGED vars
  BY <1>4, SameRuns DEF vars
<1> QED BY <1>1, <1>2, <1>3, <1>4 DEF Next

---------------------------------------------------------------------------
(* A card and the log of its run.                                           *)

(* Where in the log the guidance of a card stands.                          *)
StandsAt(card, log, at) ==
  /\ \A i, j \in DOMAIN at : i < j => at[i] < at[j]
  /\ \A i \in DOMAIN at :
       log[at[i]].kind = "steering" /\ Text[log[at[i]].note] = card.steering[i]
  /\ \A i \in DOMAIN at : \A k \in at[i]..card.seq :
       log[k].kind = "steering" => \E j \in DOMAIN at : at[j] = k

LEMMA ShowsAt ==
  ASSUME NEW card, NEW log
  PROVE  Shows(card, log) <=>
           /\ card.seq <= Len(log)
           /\ \E at \in [DOMAIN card.steering -> 1..card.seq] : StandsAt(card, log, at)
BY DEF Shows, StandsAt

LEMMA ShowsNew == ASSUME NEW log \in Seq(Events) PROVE Shows(NewCard, log)
<1>1. NewCard.seq = 0 /\ NewCard.steering = <<>>
  BY DEF NewCard, NoCard
<1>2. DOMAIN <<>> = {} /\ Len(log) \in Nat
  BY LenProperties
<1> DEFINE at == [i \in {} |-> 1]
<1>3. at \in [DOMAIN NewCard.steering -> 1..NewCard.seq] /\ DOMAIN at = {}
  BY <1>1, <1>2
<1> HIDE DEF at
<1>4. StandsAt(NewCard, log, at)
  BY <1>3 DEF StandsAt
<1>5. NewCard.seq <= Len(log)
  BY <1>1, <1>2
<1>6. \E f \in [DOMAIN NewCard.steering -> 1..NewCard.seq] : StandsAt(NewCard, log, f)
  BY <1>3, <1>4
<1> QED BY <1>5, <1>6, ShowsAt

LEMMA ShowsLonger ==
  ASSUME NEW card \in Cards, NEW log \in Seq(Events), NEW log2 \in Seq(Events),
         Shows(card, log), Longer(log, log2)
  PROVE  Shows(card, log2)
<1>1. /\ card.seq \in Nat /\ card.seq <= Len(log) /\ Len(log) <= Len(log2)
      /\ Len(log) \in Nat /\ Len(log2) \in Nat /\ DOMAIN log = 1..Len(log)
      /\ \A i \in DOMAIN log : log2[i] = log[i]
  BY LenProperties DEF Shows, Longer, Cards
<1>2. \A k \in 1..card.seq : log2[k] = log[k]
  BY <1>1
<1>3. PICK at \in [DOMAIN card.steering -> 1..card.seq] :
       /\ \A i, j \in DOMAIN at : i < j => at[i] < at[j]
       /\ \A i \in DOMAIN at :
            log[at[i]].kind = "steering" /\ Text[log[at[i]].note] = card.steering[i]
       /\ \A i \in DOMAIN at : \A k \in at[i]..card.seq :
            log[k].kind = "steering" => \E j \in DOMAIN at : at[j] = k
  BY DEF Shows
<1>4. \A i \in DOMAIN at : at[i] \in 1..card.seq
  BY <1>3
<1>5. \A i \in DOMAIN at : \A k \in at[i]..card.seq : k \in 1..card.seq
  BY <1>1, <1>4
<1>6. card.seq <= Len(log2)
  BY <1>1
<1>7. StandsAt(card, log2, at)
  BY <1>2, <1>3, <1>4, <1>5 DEF StandsAt
<1> QED BY <1>3, <1>6, <1>7, ShowsAt

(* An event that is not guidance, put on a card that has had all before it. *)
LEMMA ShowsOther ==
  ASSUME NEW card \in Cards, NEW log \in Seq(Events), NEW n \in 1..Len(log), NEW new \in Cards,
         Shows(card, log), n = card.seq + 1 \/ card.seq = 0, log[n].kind # "steering",
         new.seq = n, new.steering = card.steering
  PROVE  Shows(new, log)
<1>1. card.seq \in Nat /\ Len(log) \in Nat /\ n \in Nat /\ n <= Len(log) /\ card.seq <= n
  BY LenProperties DEF Cards
<1>2. PICK at \in [DOMAIN card.steering -> 1..card.seq] :
       /\ \A i, j \in DOMAIN at : i < j => at[i] < at[j]
       /\ \A i \in DOMAIN at :
            log[at[i]].kind = "steering" /\ Text[log[at[i]].note] = card.steering[i]
       /\ \A i \in DOMAIN at : \A k \in at[i]..card.seq :
            log[k].kind = "steering" => \E j \in DOMAIN at : at[j] = k
  BY DEF Shows
<1>3. \A i \in DOMAIN at : at[i] \in 1..card.seq /\ at[i] \in 1..n
  BY <1>1, <1>2
<1>4. at \in [DOMAIN new.steering -> 1..n]
  BY <1>2, <1>3
<1>5. ASSUME NEW i \in DOMAIN at, NEW k \in at[i]..n, log[k].kind = "steering"
      PROVE  \E j \in DOMAIN at : at[j] = k
  <2>1. n = card.seq + 1 /\ k # n
    BY <1>1, <1>3, <1>5
  <2>2. k \in at[i]..card.seq
    BY <1>1, <1>3, <2>1
  <2> QED BY <1>2, <1>5, <2>2
<1>6. StandsAt(new, log, at)
  BY <1>2, <1>5 DEF StandsAt
<1> QED BY <1>1, <1>4, <1>6, ShowsAt

LEMMA ShowsSteering ==
  ASSUME NEW card \in Cards, NEW log \in Seq(Events), NEW n \in 1..Len(log), NEW new \in Cards,
         Shows(card, log), n > card.seq, n = card.seq + 1 \/ card.seq = 0, log[n].kind = "steering",
         new.seq = n, new.steering = Append(card.steering, Text[log[n].note])
  PROVE  Shows(new, log)
<1> DEFINE text == Text[log[n].note]
           m == Len(card.steering)
<1>1. /\ card.seq \in Nat /\ Len(log) \in Nat /\ n \in Nat /\ n <= Len(log) /\ card.seq < n
      /\ m \in Nat /\ DOMAIN card.steering = 1..m
  BY LenProperties DEF Cards
<1>2. PICK at \in [DOMAIN card.steering -> 1..card.seq] :
       /\ \A i, j \in DOMAIN at : i < j => at[i] < at[j]
       /\ \A i \in DOMAIN at :
            log[at[i]].kind = "steering" /\ Text[log[at[i]].note] = card.steering[i]
       /\ \A i \in DOMAIN at : \A k \in at[i]..card.seq :
            log[k].kind = "steering" => \E j \in DOMAIN at : at[j] = k
  BY DEF Shows
<1> DEFINE at2 == [i \in 1..(m+1) |-> IF i = m+1 THEN n ELSE at[i]]
<1>3. /\ DOMAIN at = 1..m /\ \A i \in 1..m : at[i] \in 1..card.seq /\ at[i] < n
  BY <1>1, <1>2
<1>4. /\ DOMAIN new.steering = 1..(m+1) /\ new.steering[m+1] = text
      /\ \A i \in 1..m : new.steering[i] = card.steering[i]
  <2>1. card.steering \in Seq(Texts)
    BY DEF Cards
  <2>2. new.steering \in Seq(Texts)
    BY DEF Cards
  <2> QED BY <2>1, <2>2, <1>1, AppendProperties, LenProperties
<1>5. /\ at2[m+1] = n /\ \A i \in 1..m : at2[i] = at[i]
      /\ DOMAIN at2 = 1..(m+1) /\ \A i \in 1..(m+1) : i = m+1 \/ i \in 1..m
  BY <1>1
<1>6. at2 \in [DOMAIN new.steering -> 1..n]
  <2>1. \A i \in 1..(m+1) : at2[i] \in 1..n
    BY <1>1, <1>3, <1>5
  <2> QED BY <2>1, <1>4
<1> HIDE DEF at2, text, m
<1>7. ASSUME NEW i \in DOMAIN at2, NEW j \in DOMAIN at2, i < j PROVE at2[i] < at2[j]
  <2>1. i \in 1..m
    BY <1>1, <1>5, <1>7
  <2>2. CASE j = m+1
    BY <2>1, <2>2, <1>3, <1>5
  <2>3. CASE j \in 1..m
    BY <2>1, <2>3, <1>2, <1>3, <1>5, <1>7
  <2> QED BY <2>2, <2>3, <1>5
<1>8. ASSUME NEW i \in DOMAIN at2
      PROVE  log[at2[i]].kind = "steering" /\ Text[log[at2[i]].note] = new.steering[i]
  <2>1. CASE i = m+1
    BY <2>1, <1>4, <1>5 DEF text
  <2>2. CASE i \in 1..m
    <3>1. at2[i] = at[i] /\ new.steering[i] = card.steering[i] /\ i \in DOMAIN at
      BY <2>2, <1>3, <1>4, <1>5
    <3> QED BY <3>1, <1>2
  <2> QED BY <2>1, <2>2, <1>5
<1>9. ASSUME NEW i \in DOMAIN at2, NEW k \in at2[i]..n, log[k].kind = "steering"
      PROVE  \E j \in DOMAIN at2 : at2[j] = k
  <2>1. CASE k = n
    <3> m+1 \in DOMAIN at2
      BY <1>1, <1>5
    <3> QED BY <2>1, <1>5
  <2>2. CASE k # n
    <3>1. i \in 1..m
      BY <1>1, <1>5, <2>2
    <3>2. n = card.seq + 1 /\ at[i] \in Int
      BY <3>1, <1>1, <1>3
    <3>3. k \in at[i]..card.seq
      BY <3>1, <3>2, <1>1, <1>5, <2>2
    <3>4. PICK j \in 1..m : at[j] = k
      BY <3>1, <3>3, <1>2, <1>3, <1>9
    <3>5. j \in DOMAIN at2 /\ at2[j] = k
      BY <3>4, <1>1, <1>5
    <3> QED BY <3>5
  <2> QED BY <2>1, <2>2
<1>10. StandsAt(new, log, at2)
  BY <1>7, <1>8, <1>9 DEF StandsAt
<1> QED BY <1>1, <1>6, <1>10, ShowsAt

(* What the page knows of a run: its card shows what the run has read, it   *)
(* has ended only if the run has, and its loop is not ahead of the card it  *)
(* writes, unless the card is new.                                          *)
Fits(card, state) ==
  /\ card.shown => Shows(card, state.log)
  /\ ~card.running => state.status = "ended"
Near(card, place) == card.shown => place <= card.seq \/ card.seq = 0
Known ==
  \A r \in Runs :
    Fits(thread.card[r], run[r]) /\ (r \in followed => Near(thread.card[r], position[r]))

LEMMA EmptyCards ==
  ASSUME Typed, NEW r \in Runs
  PROVE  /\ NoCard \in Cards /\ Fits(NoCard, run[r]) /\ Near(NoCard, position[r])
         /\ NewCard \in Cards /\ Fits(NewCard, run[r]) /\ Near(NewCard, position[r])
<1>1. NoCard \in Cards /\ NewCard \in Cards
  BY EmptySeq DEF NoCard, NewCard, Cards
<1>2. Shows(NewCard, run[r].log)
  BY RunTyped, ShowsNew
<1>3. ~NoCard.shown /\ NoCard.running /\ NewCard.seq = 0 /\ NewCard.running
  BY DEF NoCard, NewCard
<1> QED BY <1>1, <1>2, <1>3 DEF Fits, Near

LEMMA GrowsKnown ==
  ASSUME Typed, Typed', Known, \A r \in Runs : Grows(r),
         UNCHANGED thread.card, UNCHANGED followed, UNCHANGED position
  PROVE  Known'
<1> SUFFICES ASSUME NEW r \in Runs
             PROVE  /\ Fits(thread'.card[r], run'[r])
                    /\ r \in followed' => Near(thread'.card[r], position'[r])
  BY DEF Known
<1> DEFINE card == thread.card[r]
<1>1. /\ card \in Cards /\ run[r].log \in Seq(Events) /\ thread'.card[r] = card
      /\ run'[r].log \in Seq(Events)
  BY RunTyped DEF Typed, TypedService, RunStates
<1>2. Fits(card, run[r]) /\ (r \in followed => Near(card, position[r]))
  BY DEF Known
<1>3. card.shown => Shows(card, run'[r].log)
  BY <1>1, <1>2, ShowsLonger DEF Fits, Grows
<1>4. ~card.running => run'[r].status = "ended"
  BY <1>2 DEF Fits, Grows
<1> QED BY <1>1, <1>2, <1>3, <1>4 DEF Fits, Near

LEMMA LoadKnown ==
  ASSUME Typed, NEW s \in Sessions, Load(s), UNCHANGED run PROVE Known'
<1>1. ASSUME NEW r \in Runs PROVE thread'.card[r] = NoCard
  BY DEF Load, Blank
<1>2. followed' = {}
  BY DEF Load
<1>3. ~NoCard.shown /\ NoCard.running
  BY DEF NoCard
<1> QED BY <1>1, <1>2, <1>3 DEF Known, Fits, Near

(* Cards are shown, and loops started, for some runs.                       *)
LEMMA ShowKnown ==
  ASSUME Typed, Known, NEW rs \in SUBSET Runs, UNCHANGED run,
         thread'.card = Show(thread.card, rs), Attach(rs)
  PROVE  Known'
<1> SUFFICES ASSUME NEW r \in Runs
             PROVE  /\ Fits(thread'.card[r], run'[r])
                    /\ r \in followed' => Near(thread'.card[r], position'[r])
  BY DEF Known
<1>1. thread.card[r] \in Cards /\ thread.card[r].seq \in Nat
  BY RunTyped
<1>2. thread'.card[r] = IF r \in rs /\ ~thread.card[r].shown THEN NewCard ELSE thread.card[r]
  BY DEF Show
<1>3. Fits(thread.card[r], run[r]) /\ (r \in followed => Near(thread.card[r], position[r])) /\ Fits(NewCard, run[r])
  BY EmptyCards DEF Known
<1>4. NewCard.seq = 0
  BY DEF NewCard, NoCard
<1>5. r \in followed' /\ r \notin followed => position'[r] = 0
  BY DEF Attach
<1>6. r \in followed => position'[r] = position[r]
  BY DEF Attach
<1>7. r \in followed' => Near(thread'.card[r], position'[r])
  BY <1>1, <1>2, <1>3, <1>4, <1>5, <1>6 DEF Near
<1>8. Fits(thread'.card[r], run'[r])
  BY <1>2, <1>3
<1> QED BY <1>7, <1>8

(* What an event leaves of the card of its run, and of the other cards.     *)
LEMMA AppliedCard ==
  ASSUME Typed, Phases, Known, NEW r \in followed, position[r] + 1 \in 1..Len(run[r].log)
  PROVE  LET n == position[r] + 1
             out == Applied(thread.card, r, n)
             event == run[r].log[n]
         IN /\ Fits(out[r], run[r]) /\ out[r].shown /\ n <= out[r].seq
            /\ \A x \in Runs :
                 x # r => \/ out[x] = thread.card[x]
                          \/ out[x] = NewCard
<1> DEFINE n == position[r] + 1
           event == run[r].log[n]
           log == run[r].log
           card == Show(thread.card, {r})
           out == Applied(thread.card, r, n)
<1>1. /\ r \in Runs /\ n \in Nat /\ log \in Seq(Events) /\ Len(log) \in Nat
      /\ TypedService /\ thread.card \in [Runs -> Cards]
  BY RunTyped, LenProperties DEF Typed, TypedLoops, TypedThread
<1>2. card \in [Runs -> Cards] /\ card[r] \in Cards /\ card[r].seq \in Nat
  BY <1>1, ShowTyped DEF Cards
<1>3. card[r] = (IF thread.card[r].shown THEN thread.card[r] ELSE NewCard)
      /\ \A x \in Runs : x # r => card[x] = thread.card[x]
  BY <1>1 DEF Show
<1>4. NewCard.shown /\ NewCard.seq = 0
  BY DEF NewCard, NoCard
<1>5. card[r].shown /\ Fits(card[r], run[r]) /\ (n <= card[r].seq + 1 \/ card[r].seq = 0)
  <2>1. Fits(thread.card[r], run[r]) /\ Fits(NewCard, run[r]) /\ Near(thread.card[r], position[r])
    BY <1>1, EmptyCards DEF Known
  <2>2. position[r] \in Nat
    BY <1>1 DEF Typed, TypedLoops
  <2> QED BY <2>1, <2>2, <1>2, <1>3, <1>4 DEF Near
<1>6. Shows(card[r], log)
  BY <1>5 DEF Fits
<1>7. /\ out \in [Runs -> Cards]
      /\ n <= card[r].seq => out = thread.card
      /\ n > card[r].seq /\ event.kind = "steering" =>
           out = [card EXCEPT ![r].seq = n, ![r].steering = Append(@, Text[event.note])]
      /\ n > card[r].seq /\ event.kind = "handoff" =>
           out = Show([card EXCEPT ![r].seq = n], {event.next})
      /\ n > card[r].seq /\ event.kind = "done" =>
           out = [card EXCEPT ![r].seq = n, ![r].running = FALSE]
  BY <1>1, AppliedCases
<1>8. event.kind \in {"steering", "handoff", "done"} /\ n \in DOMAIN log
  BY <1>1, EventCases
<1> HIDE DEF card, out
<1>9. CASE n <= card[r].seq
  <2>1. thread.card[r].shown
    BY <1>1, <1>2, <1>3, <1>4, <1>9
  <2> QED BY <2>1, <1>3, <1>5, <1>7, <1>9 DEF out
<1>10. CASE n > card[r].seq /\ event.kind = "steering"
  <2>1. /\ out[r].seq = n /\ out[r].steering = Append(card[r].steering, Text[event.note])
        /\ out[r].shown = card[r].shown /\ out[r].running = card[r].running
        /\ \A x \in Runs : x # r => out[x] = card[x]
    <3> DEFINE more == Append(card[r].steering, Text[event.note])
    <3>1. out = [card EXCEPT ![r] = [card[r] EXCEPT !.seq = n, !.steering = more]]
      BY <1>1, <1>2, <1>7, <1>10
    <3> HIDE DEF more
    <3>2. out[r] = [card[r] EXCEPT !.seq = n, !.steering = more]
          /\ \A x \in Runs : x # r => out[x] = card[x]
      BY <3>1, <1>1, <1>2
    <3>3. out[r].seq = n /\ out[r].steering = more
          /\ out[r].shown = card[r].shown /\ out[r].running = card[r].running
      BY <3>2, <1>2 DEF Cards
    <3> QED BY <3>2, <3>3 DEF more
  <2>2. out[r] \in Cards /\ (n = card[r].seq + 1 \/ card[r].seq = 0)
    BY <1>1, <1>2, <1>5, <1>7, <1>10
  <2>3. Shows(out[r], log)
    BY <1>1, <1>2, <1>6, <1>10, <2>1, <2>2, ShowsSteering
  <2>4. Fits(out[r], run[r])
    BY <2>1, <2>3, <1>5 DEF Fits
  <2> QED BY <2>1, <2>4, <1>1, <1>3, <1>5 DEF out
<1>11. CASE n > card[r].seq /\ event.kind = "handoff"
  <2> DEFINE mid == [card EXCEPT ![r].seq = n]
  <2>1. /\ mid[r].seq = n /\ mid[r].steering = card[r].steering
        /\ mid[r].shown = card[r].shown /\ mid[r].running = card[r].running
        /\ \A x \in Runs : x # r => mid[x] = card[x]
        /\ mid \in [Runs -> Cards]
    BY <1>1, <1>2 DEF Cards
  <2>2. out = Show(mid, {event.next})
    BY <1>7, <1>11
  <2> HIDE DEF mid
  <2>3. out[r] = mid[r] /\ \A x \in Runs : x # r => out[x] \in {mid[x], NewCard}
    BY <2>1, <2>2, <1>1, <1>5 DEF Show
  <2>4. mid[r] \in Cards /\ (n = card[r].seq + 1 \/ card[r].seq = 0)
    BY <1>1, <1>2, <1>5, <1>11, <2>1
  <2>5. Shows(mid[r], log)
    BY <1>1, <1>2, <1>6, <1>11, <2>1, <2>4, ShowsOther
  <2>6. Fits(out[r], run[r])
    BY <2>1, <2>3, <2>5, <1>5 DEF Fits
  <2> QED BY <2>1, <2>3, <2>6, <1>1, <1>3, <1>5 DEF out
<1>12. CASE n > card[r].seq /\ event.kind = "done"
  <2>1. /\ out[r].seq = n /\ out[r].steering = card[r].steering
        /\ out[r].shown = card[r].shown
        /\ \A x \in Runs : x # r => out[x] = card[x]
    BY <1>1, <1>2, <1>7, <1>12 DEF Cards
  <2>2. out[r] \in Cards /\ (n = card[r].seq + 1 \/ card[r].seq = 0)
    BY <1>1, <1>2, <1>5, <1>7, <1>12
  <2>3. Shows(out[r], log)
    BY <1>1, <1>2, <1>6, <1>12, <2>1, <2>2, ShowsOther
  <2>4. run[r].status = "ended"
    BY <1>1, <1>8, <1>12 DEF Phases
  <2>5. Fits(out[r], run[r])
    BY <2>3, <2>4 DEF Fits
  <2> QED BY <2>1, <2>5, <1>1, <1>3, <1>5 DEF out
<1>13. n <= card[r].seq \/ n > card[r].seq
  BY <1>1, <1>2
<1> QED BY <1>8, <1>9, <1>10, <1>11, <1>12, <1>13

LEMMA EventArrivesKnown ==
  ASSUME Typed, Phases, Known, NEW r \in Runs, EventArrives(r) PROVE Known'
<1> DEFINE n == position[r] + 1
           event == run[r].log[n]
           out == Applied(thread.card, r, n)
<1>1. /\ r \in followed /\ n \in 1..Len(run[r].log) /\ n \in Nat /\ UNCHANGED <<run, open>>
      /\ position \in [Runs -> Nat]
  <2>1. position[r] \in Nat /\ Len(run[r].log) \in Nat /\ position \in [Runs -> Nat]
    BY RunTyped, LenProperties DEF Typed, TypedLoops
  <2> QED BY <2>1 DEF EventArrives
<1>2. /\ event.kind \in {"steering", "handoff", "done"}
      /\ event.kind = "handoff" => event.next \in Runs
  BY <1>1, EventCases DEF Typed
<1>3. CASE event.kind = "done" /\ r \in edits.runs
  BY <1>1, <1>3, LoadKnown DEF EventArrives, Typed, TypedRest
<1>4. CASE ~(event.kind = "done" /\ r \in edits.runs)
  <2>1. thread' = [thread EXCEPT !.card = out]
    BY <1>2, <1>4 DEF EventArrives
  <2>2. thread'.card = out
    BY <2>1 DEF Typed, TypedThread
  <2>3. /\ position'[r] = n
        /\ \A x \in followed' : x # r => \/ x \in followed /\ position'[x] = position[x]
                                       \/ position'[x] = 0
    <3>1. CASE event.kind = "done"
      <4>1. followed' = followed \ {r} /\ position' = [position EXCEPT ![r] = n]
        BY <3>1, <1>4 DEF EventArrives
      <4> QED BY <4>1, <1>1
    <3>2. CASE event.kind = "steering"
      <4>1. followed' = followed /\ position' = [position EXCEPT ![r] = n]
        BY <3>2, <1>4 DEF EventArrives
      <4> QED BY <4>1, <1>1
    <3>3. CASE event.kind = "handoff"
      <4>1. /\ followed' = followed \cup {event.next} /\ event.next \in Runs
            /\ position' = [position EXCEPT ![r] = n,
                              ![event.next] = IF event.next \in followed THEN @ ELSE 0]
        BY <3>3, <1>2 DEF EventArrives
      <4> QED BY <4>1, <1>1 DEF Typed, TypedLoops
    <3> QED BY <3>1, <3>2, <3>3, <1>2
  <2>4. /\ Fits(out[r], run[r]) /\ out[r].shown /\ n <= out[r].seq
        /\ \A x \in Runs : x # r => out[x] = thread.card[x] \/ out[x] = NewCard
    BY <1>1, AppliedCard
  <2> HIDE DEF out, n
  <2>5. ASSUME NEW x \in Runs PROVE Fits(out[x], run[x]) /\ (x \in followed' => Near(out[x], position'[x]))
    <3>1. CASE x = r
      BY <3>1, <2>3, <2>4, <2>2 DEF Near
    <3>2. CASE x # r /\ out[x] = NewCard
      <4>1. Fits(NewCard, run[x]) /\ NewCard.seq = 0
        BY EmptyCards DEF NewCard, NoCard
      <4> QED BY <4>1, <3>2, <2>2 DEF Near
    <3>3. CASE x # r /\ out[x] = thread.card[x]
      <4>1. Fits(thread.card[x], run[x]) /\ (x \in followed => Near(thread.card[x], position[x]))
            /\ thread.card[x].seq \in Nat
        BY RunTyped DEF Known
      <4>2. x \in followed' => Near(out[x], position'[x])
        BY <4>1, <3>3, <2>2, <2>3 DEF Near
      <4> QED BY <4>1, <4>2, <3>3
    <3> QED BY <3>1, <3>2, <3>3, <2>4
  <2> QED BY <2>2, <2>5, <1>1 DEF Known, Fits, Near
<1> QED BY <1>3, <1>4

LEMMA KnownStep ==
  ASSUME Typed, Typed', Phases, Known, [Next]_vars PROVE Known'
<1>0. \A r \in Runs : Grows(r)
  BY RunsStep
<1>1. CASE Service
  BY <1>0, <1>1, GrowsKnown DEF Service, ServeSteer, ServeWithdraw, ServeStart, ReadNotes, EndRun
<1>2. CASE User
  <2>1. ASSUME NEW s \in Sessions, Select(s) PROVE Known'
    BY <2>1, LoadKnown DEF Select
  <2>2. CASE ~ \E s \in Sessions : Select(s)
    BY <1>0, <1>2, <2>2, GrowsKnown DEF User, Type, Edit, Withdraw
  <2> QED BY <2>1, <2>2
<1>3. CASE Page
  <2>1. ASSUME NEW q \in requests, SteerAnswered(q) \/ WithdrawAnswered(q) PROVE Known'
    BY <1>0, <2>1, GrowsKnown DEF SteerAnswered, WithdrawAnswered
  <2>2. ASSUME NEW q \in requests, StartAnswered(q) PROVE Known'
    <3>1. q \in Starts /\ (q.answer = "started" => q.run \in Runs) /\ q.session \in Sessions
      BY <2>2, RequestKinds DEF StartAnswered, Typed, TypedRequests, Starts
    <3>2. CASE q.answer = "started"
      <4>1. thread' = [thread EXCEPT !.card = Show(@, {q.run})] /\ Attach({q.run}) /\ UNCHANGED run
        BY <2>2, <3>2 DEF StartAnswered
      <4>2. thread'.card = Show(thread.card, {q.run})
        BY <4>1 DEF Typed, TypedThread
      <4> QED BY <3>1, <3>2, <4>1, <4>2, ShowKnown
    <3>3. CASE q.answer # "started" /\ q.replaces
      BY <2>2, <3>1, <3>3, LoadKnown DEF StartAnswered
    <3>4. CASE q.answer # "started" /\ ~q.replaces
      BY <1>0, <2>2, <3>4, GrowsKnown DEF StartAnswered
    <3> QED BY <3>2, <3>3, <3>4
  <2>3. CASE TurnsLoaded
    <3>1. ASSUME NEW r \in Runs PROVE thread'.card[r] = NoCard
      BY <2>3 DEF TurnsLoaded, Typed, TypedThread
    <3>2. ~NoCard.shown /\ NoCard.running
      BY DEF NoCard
    <3> QED BY <3>1, <3>2 DEF Known, Fits, Near
  <2>4. CASE RunsListed
    <3> DEFINE live == {r \in Runs : run[r].session = load.session /\ run[r].status = "running"}
    <3>1. thread'.card = Show(thread.card, live) /\ Attach(live) /\ UNCHANGED run
      BY <2>4 DEF RunsListed, Typed, TypedThread
    <3> QED BY <3>1, ShowKnown
  <2>5. ASSUME NEW r \in Runs, EventArrives(r) PROVE Known'
    BY <2>5, EventArrivesKnown
  <2>6. CASE Render
    BY <1>0, <2>6, GrowsKnown DEF Render
  <2>7. CASE Sending
    BY <1>0, <2>7, GrowsKnown DEF Sending
  <2> QED BY <1>3, <2>1, <2>2, <2>3, <2>4, <2>5, <2>6, <2>7 DEF Page
<1>4. CASE UNCHANGED vars
  BY <1>0, <1>4, GrowsKnown DEF vars
<1> QED BY <1>1, <1>2, <1>3, <1>4 DEF Next

(* What every state of the page and the service has.                        *)
InStep == Typed /\ Phases /\ Known

(* The variables keep their types, a run that has ended stays so with its   *)
(* log, and the page's cards and loops agree with the service through every *)
(* load, answer and event, in whatever order they come.                     *)
THEOREM StayInStep == Spec => []InStep
<1>1. Init => InStep
  <2> SUFFICES ASSUME Init PROVE InStep
    OBVIOUS
  <2>1. \A r \in Runs : run[r] = NotRun /\ thread.card[r] = NoCard
    BY DEF Init, Blank
  <2>2. Phases
    BY <2>1 DEF Phases, NotRun
  <2>3. ~NoCard.shown /\ NoCard.running
    BY DEF NoCard
  <2>4. Known
    BY <2>1, <2>3 DEF Known, Fits, Near
  <2> QED BY <2>2, <2>4, TypedInit DEF InStep
<1>2. InStep /\ [Next]_vars => InStep'
  BY TypedStep, RunsStep, KnownStep DEF InStep
<1> QED BY <1>1, <1>2, PTL DEF Spec

(* A card shows guidance in the order its run read it, each once and with   *)
(* none left out since the first it shows: applyRunEvent and the loops of   *)
(* RunFollowers, from whichever event a loop starts.                        *)
THEOREM CardsTrue == Spec => []CardShowsReads
<1>1. InStep => CardShowsReads
  BY DEF InStep, Known, Fits, CardShowsReads
<1> QED BY <1>1, StayInStep, PTL

(* Why a prompt leaves the queue.                                           *)
ReasonToLeave(p) ==
  \/ \E i \in DOMAIN queue : \E r \in Runs : \E x \in Prompts : \E j \in DOMAIN run[r].log :
       queue[i].prompt = p /\ queue[i].run = r /\ Text[x] = Text[p] /\ ReadAt(x, r, j)
  \/ \E q \in requests' : q.kind = "start" /\ Contains(q.prompts, p)
  \/ \E i \in DOMAIN queue : queue[i].prompt = p /\ Withdraw(i)
  \/ \E q \in requests \ requests' : q.prompts = <<p>> /\ q.answer = "withdrawn"
  \/ thread.session # rendered.session

(* What is taken out at i leaves the other prompts.                         *)
LEMMA RemovedOne ==
  ASSUME NEW q \in Seq(Items), NEW i \in DOMAIN q, NEW p,
         InQueue(q, p), ~InQueue(RemoveAt(q, i), p)
  PROVE  q[i].prompt = p
<1> DEFINE out == RemoveAt(q, i)
<1>0. Len(q) \in Nat /\ DOMAIN q = 1..Len(q)
  BY LenProperties
<1>1. PICK k \in DOMAIN q : q[k].prompt = p
  BY DEF InQueue
<1>2. /\ DOMAIN out = 1..(Len(q) - 1)
      /\ \A j \in DOMAIN out : out[j] = q[IF j < i THEN j ELSE j + 1]
  BY Removed
<1>3. CASE k < i
  <2>1. k \in DOMAIN out /\ out[k] = q[k]
    BY <1>0, <1>2, <1>3
  <2> QED BY <2>1, <1>1 DEF InQueue
<1>4. CASE k > i
  <2>1. k-1 \in DOMAIN out /\ out[k-1] = q[(k-1)+1] /\ (k-1)+1 = k
    BY <1>0, <1>2, <1>4
  <2> QED BY <2>1, <1>1 DEF InQueue
<1> QED BY <1>0, <1>1, <1>3, <1>4

(* Only a withdrawal, its answer and a render take a prompt out; and what   *)
(* settling leaves out stands in the log of its run, as its card says.      *)
LEMMA WhyLeft ==
  ASSUME InStep, [Next]_vars, NEW p \in Prompts, InQueue(queue, p), ~InQueue(queue', p)
  PROVE  ReasonToLeave(p)
<1>0. queue \in Seq(Items) /\ Typed /\ thread.card \in [Runs -> Cards] /\ TypedRequests
  BY DEF InStep, Typed, TypedQueue, TypedThread
<1>1. ~UNCHANGED queue
  BY DEF InQueue
<1>2. ASSUME NEW i \in DOMAIN queue, Withdraw(i) PROVE ReasonToLeave(p)
  <2>1. queue' = RemoveAt(queue, i)
    BY <1>1, <1>2 DEF Withdraw
  <2>2. queue[i].prompt = p
    BY <1>0, <2>1, RemovedOne
  <2> QED BY <1>2, <2>2 DEF ReasonToLeave
<1>3. ASSUME NEW q \in requests, SteerAnswered(q) PROVE ReasonToLeave(p)
  <2>1. PICK item : queue' = Append(queue, item)
    BY <1>3 DEF SteerAnswered
  <2>2. \A k \in DOMAIN queue : k \in DOMAIN Append(queue, item) /\ Append(queue, item)[k] = queue[k]
    BY <1>0, LenProperties
  <2>3. InQueue(queue', p)
    BY <2>1, <2>2 DEF InQueue
  <2> QED BY <2>3
<1>4. ASSUME NEW q \in requests, WithdrawAnswered(q) PROVE ReasonToLeave(p)
  <2>1. q \in Withdrawals /\ q.answer = "withdrawn" /\ requests' = requests \ {q}
    BY <1>0, <1>1, <1>4, RequestKinds DEF WithdrawAnswered
  <2>2. PICK i \in DOMAIN queue : queue[i].prompt = q.prompts[1] /\ queue' = RemoveAt(queue, i)
    BY <1>1, <1>4 DEF WithdrawAnswered
  <2>3. queue[i].prompt = p
    BY <1>0, <2>2, RemovedOne
  <2>4. PICK x \in Prompts : q.prompts = <<x>>
    BY <2>1 DEF Withdrawals, Singles
  <2>5. q.prompts = <<p>>
    <3>1. q.prompts[1] = x
      BY <2>4
    <3> QED BY <2>2, <2>3, <2>4, <3>1
  <2> QED BY <2>1, <2>5 DEF ReasonToLeave
<1>5. CASE Render
  <2>1. PICK i \in DOMAIN queue : queue[i].prompt = p
    BY DEF InQueue
  <2>2. CASE Flushes
    <3> DEFINE q == [kind |-> "start", prompts |-> [k \in DOMAIN queue |-> queue[k].prompt],
                session |-> open, replaces |-> FALSE, flush |-> TRUE, answer |-> "none", run |-> NoRun]
    <3>1. q \in requests' /\ q.kind = "start"
      BY <1>5, <2>2 DEF Render
    <3>2. Contains(q.prompts, p)
      BY <2>1 DEF Contains
    <3> HIDE DEF q
    <3> QED BY <3>1, <3>2 DEF ReasonToLeave
  <2>3. CASE thread.session # rendered.session
    BY <2>3 DEF ReasonToLeave
  <2>4. CASE ~Flushes /\ thread.session = rendered.session
    <3>1. queue' = Settle(queue, thread.card)
      BY <1>5, <2>4 DEF Render
    <3>2. ReadIn(queue[i], thread.card)
      BY <1>0, <2>1, <3>1, KeptOrRead
    <3> DEFINE r == queue[i].run
               card == thread.card[r]
    <3>3. PICK k \in DOMAIN card.steering : card.steering[k] = Text[p]
      BY <2>1, <3>2 DEF ReadIn
    <3>4. r \in Runs /\ card.shown
      BY <3>2 DEF ReadIn
    <3>5. Shows(card, run[r].log) /\ run[r].log \in Seq(Events) /\ card.seq \in Nat
      BY <1>0, <3>4, RunTyped DEF InStep, Known, Fits
    <3>6. PICK at \in [DOMAIN card.steering -> 1..card.seq] : StandsAt(card, run[r].log, at)
      BY <3>5, ShowsAt
    <3> DEFINE j == at[k]
    <3>7. /\ j \in 1..card.seq /\ card.seq <= Len(run[r].log)
          /\ run[r].log[j].kind = "steering" /\ Text[run[r].log[j].note] = card.steering[k]
      BY <3>5, <3>6 DEF StandsAt, Shows
    <3>8. j \in 1..Len(run[r].log)
      <4>1. Len(run[r].log) \in Nat
        BY <3>5, LenProperties
      <4> HIDE DEF j
      <4> QED BY <3>5, <3>7, <4>1
    <3>9. run[r].log[j].note \in Prompts /\ j \in DOMAIN run[r].log
      BY <1>0, <3>4, <3>7, <3>8, EventCases DEF Typed
    <3> DEFINE x == run[r].log[j].note
    <3>10. ReadAt(x, r, j) /\ x \in Prompts /\ Text[x] = Text[p]
      BY <3>3, <3>7, <3>9 DEF ReadAt
    <3> QED BY <2>1, <3>4, <3>9, <3>10 DEF ReasonToLeave
  <2> QED BY <2>2, <2>3, <2>4
<1>6. CASE User
  BY <1>1, <1>2, <1>6 DEF User, Type, Edit, Select
<1>7. CASE Service
  BY <1>1, <1>7 DEF Service, ServeSteer, ServeWithdraw, ServeStart, ReadNotes, EndRun
<1>8. CASE Page
  BY <1>1, <1>3, <1>4, <1>5, <1>8 DEF Page, StartAnswered, TurnsLoaded, RunsListed, EventArrives, Sending
<1>9. CASE UNCHANGED vars
  BY <1>1, <1>9 DEF vars
<1> QED BY <1>6, <1>7, <1>8, <1>9 DEF Next

(* A prompt leaves the queue of usePromptQueue because its run has read its *)
(* words, because it goes out, because the user took it back, or because    *)
(* another session opened.                                                  *)
THEOREM Reasons == Spec => LeavesForAReason
<1>1. InStep /\ [Next]_vars =>
        [\A p \in Prompts : InQueue(queue, p) /\ ~InQueue(queue', p) => ReasonToLeave(p)]_vars
  BY WhyLeft
<1> QED BY <1>1, StayInStep, PTL DEF Spec, LeavesForAReason, ReasonToLeave

---------------------------------------------------------------------------
(* Every prompt is at one place.                                            *)

(* Where a prompt is: in a steering request, in the queue, in a message on  *)
(* its way to the service, in the message of a run, among the notes a run   *)
(* has not read (NotedAt), or among those it has (ReadAt).                  *)
SteeredBy(p, q) == q \in requests /\ q.kind = "steer" /\ q.prompts = <<p>>
QueuedAt(p, i) == i \in DOMAIN queue /\ queue[i].prompt = p
OutIn(p, q, i) ==
  q \in requests /\ q.kind = "start" /\ q.answer = "none" /\ i \in DOMAIN q.prompts /\ q.prompts[i] = p
NotedAt(p, r, i) == i \in DOMAIN run[r].notes /\ run[r].notes[i] = p

OneSteered(p) == \A q, x : SteeredBy(p, q) /\ SteeredBy(p, x) => q = x
OneQueued(p) == \A i, j : QueuedAt(p, i) /\ QueuedAt(p, j) => i = j
OneOut(p) == \A q, x, i, j : OutIn(p, q, i) /\ OutIn(p, x, j) => q = x /\ i = j
OneSent(p) == \A r, s \in Runs : \A i, j : SentAt(p, r, i) /\ SentAt(p, s, j) => r = s /\ i = j
OneNoted(p) == \A r, s \in Runs : \A i, j : NotedAt(p, r, i) /\ NotedAt(p, s, j) => r = s /\ i = j
OneRead(p) == \A r, s \in Runs : \A i, j : ReadAt(p, r, i) /\ ReadAt(p, s, j) => r = s /\ i = j

NotSteered(p) == \A q : ~SteeredBy(p, q)
NotQueued(p) == \A i : ~QueuedAt(p, i)
NotOut(p) == \A q, i : ~OutIn(p, q, i)
NotSent(p) == \A r \in Runs : \A i : ~SentAt(p, r, i)
NotNoted(p) == \A r \in Runs : \A i : ~NotedAt(p, r, i)
NotRead(p) == \A r \in Runs : \A i : ~ReadAt(p, r, i)

(* The parts of the invariant, for one prompt: it is nowhere before it is   *)
(* typed; it is at one place of its way out; a run notes or reads it once;  *)
(* before the run has taken it no run knows it; and what a running run has  *)
(* yet to read is not on its way to another.                                *)
Unseen(p) ==
  p \notin DOMAIN typed =>
    NotSteered(p) /\ NotQueued(p) /\ NotOut(p) /\ NotSent(p) /\ NotNoted(p) /\ NotRead(p)
OneWay(p) ==
  /\ OneSteered(p) /\ OneQueued(p) /\ OneOut(p) /\ OneSent(p)
  /\ NotSteered(p) \/ NotQueued(p)
  /\ NotSteered(p) \/ NotOut(p)
  /\ NotSteered(p) \/ NotSent(p)
  /\ NotQueued(p) \/ NotOut(p)
  /\ NotQueued(p) \/ NotSent(p)
  /\ NotOut(p) \/ NotSent(p)
OneNote(p) == OneNoted(p) /\ OneRead(p) /\ (NotNoted(p) \/ NotRead(p))
Untaken(p) ==
  \A q : SteeredBy(p, q) /\ q.answer # "taken" => NotNoted(p) /\ NotRead(p)
Pending(p) ==
  \A r \in Runs : \A k :
    NotedAt(p, r, k) /\ run[r].status = "running" =>
      /\ NotOut(p) /\ NotSent(p)
      /\ \A i : QueuedAt(p, i) => queue[i].run = r
      /\ \A q : SteeredBy(p, q) => q.run = r
Tokens(p) == Unseen(p) /\ OneWay(p) /\ OneNote(p) /\ Untaken(p) /\ Pending(p)

(* What a step does that only takes a prompt away, or leaves it.            *)
LessSteered(p) ==
  /\ OneSteered(p)'
  /\ \A q : SteeredBy(p, q)' =>
       \E x : SteeredBy(p, x) /\ q.run = x.run /\ (q.answer # "taken" => x.answer # "taken")
LessQueued(p) ==
  /\ OneQueued(p)'
  /\ \A i : QueuedAt(p, i)' =>
       \E j : /\ QueuedAt(p, j)
              /\ \/ queue'[i].run = queue[j].run
                 \/ queue[j].run \in Runs /\ run[queue[j].run].status # "running"
LessOut(p) == OneOut(p)' /\ (NotOut(p) => NotOut(p)')
LessSent(p) == OneSent(p)' /\ (NotSent(p) => NotSent(p)')
LessNoted(p) ==
  /\ OneNoted(p)'
  /\ \A r \in Runs : \A i : NotedAt(p, r, i)' =>
       /\ \E j : NotedAt(p, r, j)
       /\ run'[r].status = "running" => run[r].status = "running"
LessRead(p) == OneRead(p)' /\ (NotRead(p) => NotRead(p)')

LEMMA LessNone ==
  ASSUME NEW p
  PROVE  /\ LessSteered(p) /\ NotSteered(p) => NotSteered(p)'
         /\ LessQueued(p) /\ NotQueued(p) => NotQueued(p)'
         /\ LessNoted(p) /\ NotNoted(p) => NotNoted(p)'
BY DEF LessSteered, NotSteered, LessQueued, NotQueued, LessNoted, NotNoted

LEMMA LessTokens ==
  ASSUME NEW p, Tokens(p), DOMAIN typed \subseteq DOMAIN typed',
         LessSteered(p), LessQueued(p), LessOut(p), LessSent(p), LessNoted(p), LessRead(p)
  PROVE  Tokens(p)'
<1>1. /\ NotSteered(p) => NotSteered(p)'
      /\ NotQueued(p) => NotQueued(p)'
      /\ NotOut(p) => NotOut(p)'
      /\ NotSent(p) => NotSent(p)'
      /\ NotNoted(p) => NotNoted(p)'
      /\ NotRead(p) => NotRead(p)'
  BY LessNone DEF LessOut, LessSent, LessRead
<1>2. Unseen(p)'
  BY <1>1 DEF Tokens, Unseen
<1>3. OneWay(p)'
  BY <1>1 DEF Tokens, OneWay, LessSteered, LessQueued, LessOut, LessSent
<1>4. OneNote(p)'
  BY <1>1 DEF Tokens, OneNote, LessNoted, LessRead
<1>5. Untaken(p)'
  BY <1>1 DEF Tokens, Untaken, LessSteered
<1>6. Pending(p)'
  <2> SUFFICES ASSUME NEW r \in Runs, NEW k, NotedAt(p, r, k)', run'[r].status = "running"
               PROVE  /\ NotOut(p)' /\ NotSent(p)'
                      /\ \A i : QueuedAt(p, i)' => queue'[i].run = r
                      /\ \A q : SteeredBy(p, q)' => q.run = r
    BY DEF Pending
  <2>1. PICK j : NotedAt(p, r, j) /\ run[r].status = "running"
    BY DEF LessNoted
  <2>2. /\ NotOut(p) /\ NotSent(p)
        /\ \A i : QueuedAt(p, i) => queue[i].run = r
        /\ \A q : SteeredBy(p, q) => q.run = r
    BY <2>1 DEF Tokens, Pending
  <2>3. \A i : QueuedAt(p, i)' => queue'[i].run = r
    BY <2>1, <2>2 DEF LessQueued
  <2>4. \A q : SteeredBy(p, q)' => q.run = r
    BY <2>2 DEF LessSteered
  <2> QED BY <1>1, <2>2, <2>3, <2>4
<1> QED BY <1>2, <1>3, <1>4, <1>5, <1>6 DEF Tokens

(* Steps that leave a place as it is.                                       *)
LEMMA SameRequests ==
  ASSUME NEW p, Tokens(p), UNCHANGED requests PROVE LessSteered(p) /\ LessOut(p)
BY DEF Tokens, OneWay, LessSteered, LessOut, OneSteered, OneOut, NotOut, SteeredBy, OutIn

LEMMA SameQueue ==
  ASSUME NEW p, Tokens(p), UNCHANGED queue PROVE LessQueued(p)
BY DEF Tokens, OneWay, LessQueued, OneQueued, QueuedAt

LEMMA SameService ==
  ASSUME NEW p, Tokens(p), UNCHANGED run PROVE LessSent(p) /\ LessNoted(p) /\ LessRead(p)
<1>1. OneSent(p) /\ OneNoted(p) /\ OneRead(p)
  BY DEF Tokens, OneWay, OneNote
<1>2. LessSent(p)
  BY <1>1 DEF LessSent, OneSent, NotSent, SentAt
<1>3. LessNoted(p)
  BY <1>1 DEF LessNoted, OneNoted, NotNoted, NotedAt
<1>4. LessRead(p)
  BY <1>1 DEF LessRead, OneRead, NotRead, ReadAt
<1> QED BY <1>2, <1>3, <1>4

(* Steps that take a prompt away, or move it within its place.              *)
LEMMA FewerSteers ==
  ASSUME NEW p, Tokens(p), \A q \in requests' : q \in requests \/ q.kind # "steer"
  PROVE  LessSteered(p)
BY DEF Tokens, OneWay, LessSteered, OneSteered, SteeredBy

LEMMA FewerStarts ==
  ASSUME NEW p, Tokens(p), \A q \in requests' : q \in requests \/ q.kind # "start" \/ q.answer # "none"
  PROVE  LessOut(p)
BY DEF Tokens, OneWay, LessOut, OneOut, NotOut, OutIn

LEMMA SameAsked ==
  ASSUME NEW p, Tokens(p), \A r \in Runs : run'[r].asked = run[r].asked
  PROVE  LessSent(p)
BY DEF Tokens, OneWay, LessSent, OneSent, NotSent, SentAt

LEMMA SameLogs ==
  ASSUME NEW p, Tokens(p), \A r \in Runs : run'[r].log = run[r].log
  PROVE  LessRead(p)
BY DEF Tokens, OneNote, LessRead, OneRead, NotRead, ReadAt

LEMMA SteerServed ==
  ASSUME NEW p, Tokens(p), NEW q \in requests, NEW answer,
         q \in Steers, q.answer = "none", Answered(q, answer)
  PROVE  LessSteered(p) /\ LessOut(p)
<1> DEFINE x == [q EXCEPT !.answer = answer]
<1>1. x.kind = "steer" /\ x.prompts = q.prompts /\ x.run = q.run /\ x.answer = answer
  BY DEF Steers
<1>2. requests' = (requests \ {q}) \cup {x}
  BY DEF Answered
<1> HIDE DEF x
<1>3. LessOut(p)
  BY <1>1, <1>2, FewerStarts
<1>4. q.kind = "steer"
  BY DEF Steers
<1>5. LessSteered(p)
  <2>1. SteeredBy(p, x)' <=> SteeredBy(p, q)
    BY <1>1, <1>2, <1>4 DEF SteeredBy
  <2>2. \A y : y # x => (SteeredBy(p, y)' <=> SteeredBy(p, y) /\ y # q)
    BY <1>2 DEF SteeredBy
  <2>3. OneSteered(p)
    BY DEF Tokens, OneWay
  <2>4. OneSteered(p)'
    BY <2>1, <2>2, <2>3 DEF OneSteered
  <2>5. ASSUME NEW y, SteeredBy(p, y)'
        PROVE  \E z : SteeredBy(p, z) /\ y.run = z.run /\ (y.answer # "taken" => z.answer # "taken")
    BY <2>1, <2>2, <2>5, <1>1
  <2> QED BY <2>4, <2>5 DEF LessSteered
<1> QED BY <1>3, <1>5

LEMMA QueueRemoved ==
  ASSUME NEW p, Tokens(p), queue \in Seq(Items), NEW i \in DOMAIN queue,
         queue' = RemoveAt(queue, i)
  PROVE  LessQueued(p)
<1> DEFINE from(j) == IF j < i THEN j ELSE j + 1
<1>0. Len(queue) \in Nat /\ DOMAIN queue = 1..Len(queue)
  BY LenProperties
<1>1. /\ DOMAIN queue' = 1..(Len(queue) - 1)
      /\ \A j \in DOMAIN queue' : queue'[j] = queue[from(j)]
  BY Removed
<1>2. \A j \in DOMAIN queue' : from(j) \in DOMAIN queue /\ j \in Int
  BY <1>0, <1>1
<1>3. \A j, k \in DOMAIN queue' : from(j) = from(k) => j = k
  BY <1>0, <1>1
<1> HIDE DEF from
<1>4. \A j : QueuedAt(p, j)' => j \in DOMAIN queue' /\ QueuedAt(p, from(j)) /\ queue'[j] = queue[from(j)]
  BY <1>1, <1>2 DEF QueuedAt
<1>5. OneQueued(p)'
  BY <1>3, <1>4 DEF Tokens, OneWay, OneQueued
<1> QED BY <1>4, <1>5 DEF LessQueued

LEMMA NoneQueued == ASSUME NEW p, queue' = <<>> PROVE LessQueued(p)
BY DEF LessQueued, OneQueued, QueuedAt

LEMMA QueueSettled ==
  ASSUME NEW p, Tokens(p), InStep, queue' = Settle(queue, thread.card)
  PROVE  LessQueued(p)
<1>1. queue \in Seq(Items) /\ thread.card \in [Runs -> Cards] /\ Len(queue) \in Nat
      /\ DOMAIN queue = 1..Len(queue)
  BY LenProperties DEF InStep, Typed, TypedQueue, TypedThread
<1>2. PICK from \in [DOMAIN queue' -> DOMAIN queue] :
        /\ \A i, j \in DOMAIN queue' : from[i] = from[j] => i = j
        /\ \A i \in DOMAIN queue' : SameItem(queue'[i], queue[from[i]], thread.card)
  BY <1>1, KeptOrRead
<1>3. ASSUME NEW i \in DOMAIN queue'
      PROVE  /\ queue'[i].prompt = queue[from[i]].prompt
             /\ \/ queue'[i].run = queue[from[i]].run
                \/ queue[from[i]].run \in Runs /\ run[queue[from[i]].run].status # "running"
  <2> DEFINE old == queue[from[i]]
             new == queue'[i]
  <2>1. old \in Items
    <3>1. from[i] \in DOMAIN queue
      BY <1>2
    <3> QED BY <3>1, <1>1, ElementOfSeq
  <2>2. CASE new = old
    BY <2>2
  <2>3. CASE new # old
    <3>1. old.run \in Runs /\ ~thread.card[old.run].running /\ new = [old EXCEPT !.run = NoRun]
      BY <1>2, <2>3 DEF SameItem
    <3>2. run[old.run].status = "ended"
      BY <3>1 DEF InStep, Known, Fits
    <3>3. new.prompt = old.prompt
      BY <2>1, <3>1 DEF Items
    <3> QED BY <3>1, <3>2, <3>3
  <2> QED BY <2>2, <2>3
<1>4. \A i : QueuedAt(p, i)' => i \in DOMAIN queue' /\ QueuedAt(p, from[i])
  BY <1>2, <1>3 DEF QueuedAt
<1>5. OneQueued(p)'
  BY <1>2, <1>4 DEF Tokens, OneWay, OneQueued
<1> QED BY <1>3, <1>4, <1>5 DEF LessQueued

LEMMA NoteTaken ==
  ASSUME NEW p, Tokens(p), InStep, NEW r \in Runs, NEW i \in DOMAIN run[r].notes,
         run' = [run EXCEPT ![r].notes = RemoveAt(run[r].notes, i)]
  PROVE  LessSent(p) /\ LessNoted(p) /\ LessRead(p)
<1> DEFINE notes == run[r].notes
           from(j) == IF j < i THEN j ELSE j + 1
<1>0. notes \in Seq(Prompts) /\ Len(notes) \in Nat /\ DOMAIN notes = 1..Len(notes)
  BY RunTyped, LenProperties DEF InStep
<1>1. /\ run'[r].notes = RemoveAt(notes, i)
      /\ \A x \in Runs : /\ x # r => run'[x].notes = run[x].notes
                         /\ run'[x].asked = run[x].asked /\ run'[x].log = run[x].log
                         /\ run'[x].status = run[x].status
  BY DEF InStep, Typed, TypedService, RunStates
<1>2. /\ DOMAIN run'[r].notes = 1..(Len(notes) - 1)
      /\ \A j \in DOMAIN run'[r].notes : run'[r].notes[j] = notes[from(j)]
  BY <1>0, <1>1, Removed
<1>3. \A j \in DOMAIN run'[r].notes : from(j) \in DOMAIN notes
  BY <1>0, <1>2
<1>4. \A j, k \in DOMAIN run'[r].notes : from(j) = from(k) => j = k
  BY <1>0, <1>2
<1> HIDE DEF from
<1>5. \A j : NotedAt(p, r, j)' => j \in DOMAIN run'[r].notes /\ NotedAt(p, r, from(j))
  BY <1>2, <1>3 DEF NotedAt
<1>6. \A x \in Runs : \A j : x # r /\ NotedAt(p, x, j)' => NotedAt(p, x, j)
  BY <1>1 DEF NotedAt
<1>7. OneNoted(p)'
  BY <1>4, <1>5, <1>6 DEF Tokens, OneNote, OneNoted
<1>8. LessNoted(p)
  BY <1>1, <1>5, <1>6, <1>7 DEF LessNoted
<1>9. LessSent(p)
  BY <1>1, SameAsked
<1>10. LessRead(p)
  BY <1>1, SameLogs
<1> QED BY <1>8, <1>9, <1>10

LEMMA RunEnded ==
  ASSUME NEW p, Tokens(p), InStep, NEW r \in Runs, NEW n \in Runs \cup {NoRun}, EndRun(r, n)
  PROVE  LessSent(p) /\ LessNoted(p) /\ LessRead(p)
<1>1. /\ run[r].status = "running"
      /\ run'[r] = [run[r] EXCEPT !.status = "ended",
                      !.log = IF n = NoRun THEN Append(@, DoneEvent) ELSE @ \o HandoffTo(n)]
      /\ n # NoRun => /\ n \in Runs /\ n # r /\ run[n].status = "none"
                      /\ run'[n] = [NotRun EXCEPT !.session = run[r].session, !.status = "running"]
      /\ \A x \in Runs : x # r /\ x # n => run'[x] = run[x]
  BY EndRunCases DEF InStep
<1>2. /\ run'[r].status = "ended" /\ run'[r].asked = run[r].asked /\ run'[r].notes = run[r].notes
      /\ run'[r].log = IF n = NoRun THEN Append(run[r].log, DoneEvent) ELSE run[r].log \o HandoffTo(n)
  BY <1>1, RunTyped DEF InStep, RunStates
<1>3. /\ run[r].log \in Seq(Events) /\ DoneEvent \in Events /\ DoneEvent.kind = "done"
      /\ n # NoRun => /\ HandoffTo(n) \in Seq(Events) /\ Len(HandoffTo(n)) = 2
                      /\ HandoffTo(n)[1].kind = "handoff" /\ HandoffTo(n)[2].kind = "done"
  <2>1. run[r].log \in Seq(Events)
    BY RunTyped DEF InStep
  <2>2. DoneEvent \in Events /\ DoneEvent.kind = "done"
    BY DEF DoneEvent, Events
  <2>3. ASSUME n # NoRun
        PROVE  /\ HandoffTo(n) \in Seq(Events) /\ Len(HandoffTo(n)) = 2
               /\ HandoffTo(n)[1].kind = "handoff" /\ HandoffTo(n)[2].kind = "done"
    <3>1. n \in Runs
      BY <2>3
    <3>2. /\ HandoffTo(n) \in Seq(Events) /\ Len(HandoffTo(n)) = 2
          /\ HandoffTo(n)[1] = [kind |-> "handoff", note |-> <<>>, next |-> n]
          /\ HandoffTo(n)[2] = DoneEvent
      BY <3>1, HandoffTyped
    <3> QED BY <3>2, <2>2
  <2> QED BY <2>1, <2>2, <2>3
<1>4. ASSUME NEW i, ReadAt(p, r, i)' PROVE ReadAt(p, r, i)
  <2> DEFINE log == run[r].log
             out == run'[r].log
  <2>0. Len(log) \in Nat /\ DOMAIN log = 1..Len(log) /\ log \in Seq(Events)
    BY <1>3, LenProperties
  <2>1. i \in DOMAIN out /\ out[i].kind = "steering" /\ out[i].note = p
    BY <1>4 DEF ReadAt
  <2>2. CASE n = NoRun
    <3>1. out = Append(log, DoneEvent)
      BY <2>2, <1>2
    <3>2. DOMAIN out = 1..(Len(log) + 1) /\ out[Len(log) + 1] = DoneEvent
          /\ \A j \in 1..Len(log) : out[j] = log[j]
      BY <3>1, <1>3, <2>0, AppendProperties, LenProperties
    <3> HIDE DEF out, log
    <3>3. i # Len(log) + 1
      BY <3>2, <2>1, <1>3
    <3>4. i \in 1..Len(log) /\ out[i] = log[i]
      BY <2>0, <2>1, <3>2, <3>3
    <3> QED BY <3>4, <2>0, <2>1 DEF ReadAt, log
  <2>3. CASE n # NoRun
    <3> DEFINE more == HandoffTo(n)
    <3>1. out = log \o more
      BY <2>3, <1>2
    <3>2. DOMAIN out = 1..(Len(log) + 2)
          /\ \A j \in 1..(Len(log) + 2) : out[j] = IF j <= Len(log) THEN log[j] ELSE more[j - Len(log)]
      <4>1. more \in Seq(Events) /\ Len(more) = 2
        BY <2>3, <1>3
      <4> HIDE DEF more, out, log
      <4>2. /\ log \o more \in Seq(Events) /\ Len(log \o more) = Len(log) + Len(more)
            /\ \A j \in 1..(Len(log) + Len(more)) :
                 (log \o more)[j] = IF j <= Len(log) THEN log[j] ELSE more[j - Len(log)]
        BY <4>1, <2>0, ConcatProperties
      <4>3. DOMAIN (log \o more) = 1..Len(log \o more)
        BY <4>2, LenProperties
      <4> QED BY <3>1, <4>1, <4>2, <4>3
    <3>3. more[1].kind # "steering" /\ more[2].kind # "steering"
      BY <2>3, <1>3
    <3> HIDE DEF out, log, more
    <3>4. i \in 1..Len(log) \/ i = Len(log) + 1 \/ i = Len(log) + 2
      BY <2>0, <2>1, <3>2
    <3>5. i # Len(log) + 1
      <4>1. out[Len(log) + 1] = more[(Len(log) + 1) - Len(log)] /\ (Len(log) + 1) - Len(log) = 1
        BY <2>0, <3>2
      <4> QED BY <4>1, <3>3, <2>1
    <3>6. i # Len(log) + 2
      <4>1. out[Len(log) + 2] = more[(Len(log) + 2) - Len(log)] /\ (Len(log) + 2) - Len(log) = 2
        BY <2>0, <3>2
      <4> QED BY <4>1, <3>3, <2>1
    <3>7. i \in 1..Len(log) /\ out[i] = log[i]
      BY <2>0, <3>2, <3>4, <3>5, <3>6
    <3> QED BY <3>7, <2>0, <2>1 DEF ReadAt, log
  <2> QED BY <2>2, <2>3
<1>5. n # NoRun => run'[n].asked = <<>> /\ run'[n].notes = <<>> /\ run'[n].log = <<>>
  BY <1>1 DEF NotRun
<1>6. \A x \in Runs : \A i : SentAt(p, x, i)' => SentAt(p, x, i)
  <2> SUFFICES ASSUME NEW x \in Runs, NEW i, SentAt(p, x, i)' PROVE SentAt(p, x, i)
    OBVIOUS
  <2>1. x = r \/ (x # r /\ x # n) \/ (x = n /\ n # NoRun)
    BY QueueConstants
  <2>2. CASE x = r
    BY <2>2, <1>2 DEF SentAt
  <2>3. CASE x # r /\ x # n
    BY <2>3, <1>1 DEF SentAt
  <2>4. CASE x = n /\ n # NoRun
    BY <2>4, <1>5 DEF SentAt
  <2> QED BY <2>1, <2>2, <2>3, <2>4
<1>7. \A x \in Runs : \A i : NotedAt(p, x, i)' => NotedAt(p, x, i) /\ (run'[x].status = "running" => run[x].status = "running")
  <2> SUFFICES ASSUME NEW x \in Runs, NEW i, NotedAt(p, x, i)'
               PROVE NotedAt(p, x, i) /\ (run'[x].status = "running" => run[x].status = "running")
    OBVIOUS
  <2>1. x = r \/ (x # r /\ x # n) \/ (x = n /\ n # NoRun)
    BY QueueConstants
  <2>2. CASE x = r
    BY <2>2, <1>2 DEF NotedAt
  <2>3. CASE x # r /\ x # n
    BY <2>3, <1>1 DEF NotedAt
  <2>4. CASE x = n /\ n # NoRun
    BY <2>4, <1>5 DEF NotedAt
  <2> QED BY <2>1, <2>2, <2>3, <2>4
<1>8. \A x \in Runs : \A i : ReadAt(p, x, i)' => ReadAt(p, x, i)
  <2> SUFFICES ASSUME NEW x \in Runs, NEW i, ReadAt(p, x, i)' PROVE ReadAt(p, x, i)
    OBVIOUS
  <2>1. x = r \/ (x # r /\ x # n) \/ (x = n /\ n # NoRun)
    BY QueueConstants
  <2>2. CASE x = r
    BY <2>2, <1>4
  <2>3. CASE x # r /\ x # n
    BY <2>3, <1>1 DEF ReadAt
  <2>4. CASE x = n /\ n # NoRun
    BY <2>4, <1>5 DEF ReadAt
  <2> QED BY <2>1, <2>2, <2>3, <2>4
<1>9. OneSent(p) /\ OneNoted(p) /\ OneRead(p)
  BY DEF Tokens, OneWay, OneNote
<1>10. LessSent(p)
  BY <1>6, <1>9 DEF LessSent, OneSent, NotSent
<1>11. LessNoted(p)
  BY <1>7, <1>9 DEF LessNoted, OneNoted
<1>12. LessRead(p)
  BY <1>8, <1>9 DEF LessRead, OneRead, NotRead
<1> QED BY <1>10, <1>11, <1>12

LEMMA SingleSame == ASSUME NEW a, NEW b PROVE <<a>> = <<b>> <=> a = b
<1>1. <<a>>[1] = a /\ <<b>>[1] = b
  OBVIOUS
<1> QED BY <1>1

(* A prompt just typed goes out in a message of its own.                    *)
LEMMA StartTyped ==
  ASSUME NEW new \in Prompts, NEW p \in Prompts, Tokens(p), new \notin DOMAIN typed,
         NEW q, q \in Starts, q.prompts = <<new>>, requests' = requests \cup {q},
         DOMAIN typed' = DOMAIN typed \cup {new}, UNCHANGED <<queue, run>>
  PROVE  Tokens(p)'
<1>1. q.kind = "start" /\ DOMAIN q.prompts = {1} /\ q.prompts[1] = new
  BY DEF Starts
<1>2. LessSteered(p)
  BY <1>1, FewerSteers
<1>3. LessQueued(p) /\ LessSent(p) /\ LessNoted(p) /\ LessRead(p)
  BY SameQueue, SameService
<1>4. CASE p # new
  <2>1. \A x, i : OutIn(p, x, i)' => OutIn(p, x, i)
    BY <1>1, <1>4 DEF OutIn
  <2>2. LessOut(p)
    BY <2>1 DEF Tokens, OneWay, LessOut, OneOut, NotOut
  <2> QED BY <1>2, <1>3, <2>2, LessTokens
<1>5. CASE p = new
  <2>1. NotSteered(p) /\ NotQueued(p) /\ NotOut(p) /\ NotSent(p) /\ NotNoted(p) /\ NotRead(p)
    BY <1>5 DEF Tokens, Unseen
  <2>2. NotSteered(p)' /\ NotQueued(p)' /\ NotSent(p)' /\ NotNoted(p)' /\ NotRead(p)'
    BY <2>1, <1>2, <1>3, LessNone DEF LessSent, LessRead
  <2>3. \A x, i : OutIn(p, x, i)' => x = q /\ i = 1
    BY <1>1, <2>1 DEF OutIn, NotOut
  <2>4. OneOut(p)'
    BY <2>3 DEF OneOut
  <2>5. OneSteered(p)' /\ OneQueued(p)' /\ OneSent(p)' /\ OneNoted(p)' /\ OneRead(p)'
    BY <1>2, <1>3 DEF LessSteered, LessQueued, LessSent, LessNoted, LessRead
  <2>6. Unseen(p)'
    BY <1>5 DEF Unseen
  <2>7. OneWay(p)' /\ OneNote(p)'
    BY <2>2, <2>4, <2>5 DEF OneWay, OneNote
  <2>8. Untaken(p)' /\ Pending(p)'
    BY <2>2 DEF Untaken, Pending, NotSteered, NotNoted
  <2> QED BY <2>6, <2>7, <2>8 DEF Tokens
<1> QED BY <1>4, <1>5

(* A prompt just typed is sent to a run as guidance.                        *)
LEMMA SteerTyped ==
  ASSUME NEW new \in Prompts, NEW p \in Prompts, Tokens(p), new \notin DOMAIN typed,
         NEW q, q \in Steers, q.prompts = <<new>>, requests' = requests \cup {q},
         DOMAIN typed' = DOMAIN typed \cup {new}, UNCHANGED <<queue, run>>
  PROVE  Tokens(p)'
<1>1. q.kind = "steer"
  BY DEF Steers
<1>2. LessOut(p)
  BY <1>1, FewerStarts
<1>3. LessQueued(p) /\ LessSent(p) /\ LessNoted(p) /\ LessRead(p)
  BY SameQueue, SameService
<1>4. CASE p # new
  <2>1. \A x : SteeredBy(p, x)' => SteeredBy(p, x)
    BY <1>1, <1>4, SingleSame DEF SteeredBy
  <2>2. LessSteered(p)
    BY <2>1 DEF Tokens, OneWay, LessSteered, OneSteered
  <2> QED BY <1>2, <1>3, <2>2, LessTokens
<1>5. CASE p = new
  <2>1. NotSteered(p) /\ NotQueued(p) /\ NotOut(p) /\ NotSent(p) /\ NotNoted(p) /\ NotRead(p)
    BY <1>5 DEF Tokens, Unseen
  <2>2. NotQueued(p)' /\ NotOut(p)' /\ NotSent(p)' /\ NotNoted(p)' /\ NotRead(p)'
    BY <2>1, <1>2, <1>3, LessNone DEF LessOut, LessSent, LessRead
  <2>3. \A x : SteeredBy(p, x)' => x = q
    BY <2>1 DEF SteeredBy, NotSteered
  <2>4. OneSteered(p)'
    BY <2>3 DEF OneSteered
  <2>5. OneOut(p)' /\ OneQueued(p)' /\ OneSent(p)' /\ OneNoted(p)' /\ OneRead(p)'
    BY <1>2, <1>3 DEF LessOut, LessQueued, LessSent, LessNoted, LessRead
  <2>6. Unseen(p)'
    BY <1>5 DEF Unseen
  <2>7. OneWay(p)' /\ OneNote(p)'
    BY <2>2, <2>4, <2>5 DEF OneWay, OneNote
  <2>8. Untaken(p)' /\ Pending(p)'
    BY <2>2 DEF Untaken, Pending, NotNoted
  <2> QED BY <2>6, <2>7, <2>8 DEF Tokens
<1> QED BY <1>4, <1>5

LEMMA TypeTokens ==
  ASSUME InStep, NEW p \in Prompts, Tokens(p), NEW new \in Prompts, Type(new) PROVE Tokens(p)'
<1>0. /\ new \notin DOMAIN typed /\ DOMAIN typed' = DOMAIN typed \cup {new}
      /\ UNCHANGED <<queue, run>> /\ Typed
  BY DEF Type, InStep
<1>1. <<new>> \in Singles /\ <<new>> \in Seq(Prompts)
  BY DEF Singles
<1>2. CASE ActiveRuns = {}
  <2> DEFINE q == [kind |-> "start", prompts |-> <<new>>, session |-> open, replaces |-> FALSE,
                   flush |-> FALSE, answer |-> "none", run |-> NoRun]
  <2>1. q \in Starts /\ q.prompts = <<new>>
    BY <1>0, <1>1 DEF Starts, Typed, TypedRest
  <2>2. requests' = requests \cup {q}
    BY <1>2 DEF Type
  <2> HIDE DEF q
  <2> QED BY <1>0, <2>1, <2>2, StartTyped
<1>3. CASE ActiveRuns # {}
  <2>1. PICK r \in ActiveRuns :
          requests' = requests \cup
            {[kind |-> "steer", prompts |-> <<new>>, run |-> r,
              baseline |-> Len(thread.card[r].steering), answer |-> "none"]}
    BY <1>3 DEF Type
  <2> DEFINE q == [kind |-> "steer", prompts |-> <<new>>, run |-> r,
                   baseline |-> Len(thread.card[r].steering), answer |-> "none"]
  <2>2. r \in Runs /\ Len(thread.card[r].steering) \in Nat
    BY <1>0, LenProperties DEF ActiveRuns, Typed, TypedThread, Cards
  <2>3. q \in Steers /\ q.prompts = <<new>> /\ requests' = requests \cup {q}
    BY <1>1, <2>1, <2>2 DEF Steers
  <2> HIDE DEF q
  <2> QED BY <1>0, <2>3, SteerTyped
<1> QED BY <1>2, <1>3

LEMMA EditTokens ==
  ASSUME InStep, NEW p \in Prompts, Tokens(p), NEW new \in Prompts, Edit(new) PROVE Tokens(p)'
<1> DEFINE q == [kind |-> "start", prompts |-> <<new>>, session |-> open, replaces |-> TRUE,
                 flush |-> FALSE, answer |-> "none", run |-> NoRun]
<1>1. q \in Starts /\ q.prompts = <<new>>
  BY DEF Starts, InStep, Typed, TypedRest
<1>2. /\ new \notin DOMAIN typed /\ DOMAIN typed' = DOMAIN typed \cup {new}
      /\ UNCHANGED <<queue, run>> /\ requests' = requests \cup {q}
  BY DEF Edit
<1> HIDE DEF q
<1> QED BY <1>1, <1>2, StartTyped

(* A run takes a note.                                                      *)
LEMMA ServeSteerTokens ==
  ASSUME InStep, NEW p \in Prompts, Tokens(p), NEW q \in requests, ServeSteer(q) PROVE Tokens(p)'
<1>0. q \in Steers /\ q.kind = "steer" /\ q.answer = "none" /\ q.run \in Runs
      /\ UNCHANGED <<queue, typed>>
  BY RequestKinds DEF ServeSteer, InStep, Typed, Steers
<1>1. PICK new \in Prompts : q.prompts = <<new>>
  BY <1>0 DEF Steers, Singles
<1>2. LessQueued(p)
  BY <1>0, SameQueue
<1>3. CASE UNCHANGED run
  <2>1. PICK answer : Answered(q, answer)
    BY DEF ServeSteer
  <2> QED BY <1>0, <1>2, <1>3, <2>1, SameService, SteerServed, LessTokens
<1>4. CASE ~UNCHANGED run
  <2> DEFINE r == q.run
             x == [q EXCEPT !.answer = "taken"]
             m == Len(run[r].notes)
  <2>1. /\ run[r].status = "running" /\ requests' = (requests \ {q}) \cup {x}
        /\ run' = [run EXCEPT ![r].notes = run[r].notes \o <<new>>]
        /\ Answered(q, "taken")
    BY <1>1, <1>4 DEF ServeSteer, Answered
  <2>2. /\ run'[r].notes = run[r].notes \o <<new>>
        /\ \A s \in Runs : /\ s # r => run'[s].notes = run[s].notes
                           /\ run'[s].asked = run[s].asked /\ run'[s].log = run[s].log
                           /\ run'[s].status = run[s].status
    BY <1>0, <2>1 DEF InStep, Typed, TypedService, RunStates
  <2>3. run[r].notes \in Seq(Prompts) /\ m \in Nat /\ DOMAIN run[r].notes = 1..m
    BY <1>0, RunTyped, LenProperties DEF InStep
  <2>4. /\ DOMAIN run'[r].notes = 1..(m+1) /\ run'[r].notes[m+1] = new
        /\ \A i \in 1..m : run'[r].notes[i] = run[r].notes[i]
    <3>1. run[r].notes \o <<new>> = Append(run[r].notes, new)
      BY <2>3
    <3> QED BY <2>2, <2>3, <3>1, AppendProperties, LenProperties
  <2>5. LessSent(p)
    BY <2>2, SameAsked
  <2>6. LessRead(p)
    BY <2>2, SameLogs
  <2>7. LessSteered(p) /\ LessOut(p)
    BY <1>0, <2>1, SteerServed
  <2> HIDE DEF m, x, r
  <2>8. CASE p # new
    <3>1. \A s \in Runs : \A i : NotedAt(p, s, i)' => NotedAt(p, s, i)
      <4> SUFFICES ASSUME NEW s \in Runs, NEW i, NotedAt(p, s, i)' PROVE NotedAt(p, s, i)
        OBVIOUS
      <4>1. CASE s # r
        BY <4>1, <2>2 DEF NotedAt
      <4>2. CASE s = r
        <5>1. i \in 1..(m+1) /\ i # m+1
          BY <4>2, <2>4, <2>8 DEF NotedAt
        <5>2. i \in 1..m
          BY <5>1, <2>3
        <5> QED BY <4>2, <5>2, <2>3, <2>4 DEF NotedAt
      <4> QED BY <4>1, <4>2
    <3>2. LessNoted(p)
      BY <3>1, <2>2 DEF Tokens, OneNote, LessNoted, OneNoted
    <3> QED BY <1>0, <1>2, <2>5, <2>6, <2>7, <3>2, LessTokens
  <2>9. CASE p = new
    <3>1. SteeredBy(p, q) /\ q.answer # "taken"
      BY <1>0, <1>1, <2>9 DEF SteeredBy
    <3>2. /\ NotQueued(p) /\ NotOut(p) /\ NotSent(p) /\ NotNoted(p) /\ NotRead(p)
          /\ OneSteered(p)
      BY <3>1 DEF Tokens, OneWay, Untaken, NotSteered
    <3>3. NotQueued(p)' /\ NotOut(p)' /\ NotSent(p)' /\ NotRead(p)'
      BY <3>2, <1>2, <2>5, <2>6, <2>7, LessNone DEF LessOut, LessSent, LessRead
    <3>4. \A s \in Runs : \A i : NotedAt(p, s, i)' => s = r /\ i = m+1
      <4> SUFFICES ASSUME NEW s \in Runs, NEW i, NotedAt(p, s, i)' PROVE s = r /\ i = m+1
        OBVIOUS
      <4>1. s = r
        BY <3>2, <2>2 DEF NotedAt, NotNoted
      <4>2. i \in 1..(m+1)
        BY <4>1, <2>4 DEF NotedAt
      <4>3. i \notin 1..m
        BY <4>1, <3>2, <2>3, <2>4 DEF NotedAt, NotNoted
      <4> QED BY <4>1, <4>2, <4>3, <2>3
    <3>5. \A y : SteeredBy(p, y)' => y = x
      BY <3>1, <3>2, <2>1 DEF SteeredBy, OneSteered
    <3>6. x.answer = "taken" /\ x.run = r
      BY <1>0 DEF Steers, x, r
    <3>7. OneSteered(p)' /\ OneQueued(p)' /\ OneOut(p)' /\ OneSent(p)' /\ OneRead(p)'
      BY <1>2, <2>5, <2>6, <2>7 DEF LessSteered, LessQueued, LessOut, LessSent, LessRead
    <3>8. OneNoted(p)'
      BY <3>4 DEF OneNoted
    <3>9. OneWay(p)' /\ OneNote(p)'
      BY <3>3, <3>7, <3>8 DEF OneWay, OneNote
    <3>10. Unseen(p)'
      BY <1>0, <3>1 DEF Tokens, Unseen, NotSteered
    <3>11. Untaken(p)'
      BY <3>5, <3>6 DEF Untaken
    <3>12. Pending(p)'
      BY <3>3, <3>4, <3>5, <3>6 DEF Pending, NotQueued
    <3> QED BY <3>9, <3>10, <3>11, <3>12 DEF Tokens
  <2> QED BY <2>8, <2>9
<1> QED BY <1>3, <1>4

LEMMA ServeStartTokens ==
  ASSUME InStep, NEW p \in Prompts, Tokens(p), NEW q \in requests, ServeStart(q) PROVE Tokens(p)'
<1>0. q \in Starts /\ q.kind = "start" /\ q.answer = "none" /\ UNCHANGED <<queue, typed>>
  BY RequestKinds DEF ServeStart, InStep, Typed
<1>1. LessQueued(p)
  BY <1>0, SameQueue
<1>2. CASE Answered(q, "failed") /\ UNCHANGED run
  <2> DEFINE x == [q EXCEPT !.answer = "failed"]
  <2>1. x.kind = "start" /\ x.answer = "failed" /\ requests' = (requests \ {q}) \cup {x}
    BY <1>0, <1>2 DEF Starts, Answered
  <2> HIDE DEF x
  <2>2. LessSteered(p) /\ LessOut(p)
    BY <2>1, FewerSteers, FewerStarts
  <2> QED BY <1>0, <1>1, <1>2, <2>2, SameService, LessTokens
<1>3. CASE ~(Answered(q, "failed") /\ UNCHANGED run)
  <2>1. PICK r \in Runs :
          /\ run[r].status = "none"
          /\ run' = [run EXCEPT ![r] = [NotRun EXCEPT
               !.session = q.session, !.status = "running", !.asked = q.prompts]]
          /\ requests' = (requests \ {q}) \cup {[q EXCEPT !.answer = "started", !.run = r]}
    BY <1>3 DEF ServeStart
  <2> DEFINE x == [q EXCEPT !.answer = "started", !.run = r]
  <2>2. x.kind = "start" /\ x.answer = "started" /\ requests' = (requests \ {q}) \cup {x}
    BY <1>0, <2>1 DEF Starts
  <2> HIDE DEF x
  <2>3. /\ run'[r].asked = q.prompts /\ run'[r].notes = <<>> /\ run'[r].log = <<>>
        /\ \A s \in Runs : s # r => run'[s] = run[s]
    BY <1>0, <2>1, ServeStartChange DEF InStep
  <2>4. run[r].asked = <<>> /\ run[r].log = <<>>
    BY <2>1 DEF InStep, Phases
  <2>5. LessSteered(p)
    BY <2>2, FewerSteers
  <2>6. \A s \in Runs : \A i : NotedAt(p, s, i)' => NotedAt(p, s, i) /\ s # r
    BY <2>3 DEF NotedAt
  <2>7. LessNoted(p)
    BY <2>3, <2>6 DEF Tokens, OneNote, LessNoted, OneNoted
  <2>8. LessRead(p)
    BY <2>3, <2>4, SameLogs
  <2>9. \A y, i : OutIn(p, y, i)' => OutIn(p, y, i) /\ y # q
    BY <1>0, <2>2 DEF OutIn
  <2>10. LessOut(p)
    BY <2>9 DEF Tokens, OneWay, LessOut, OneOut, NotOut
  <2>11. \A s \in Runs : \A i : SentAt(p, s, i)' => SentAt(p, s, i) \/ (s = r /\ OutIn(p, q, i))
    BY <1>0, <2>3 DEF SentAt, OutIn
  <2>12. CASE \A i : ~OutIn(p, q, i)
    <3>1. LessSent(p)
      BY <2>11, <2>12 DEF Tokens, OneWay, LessSent, OneSent, NotSent
    <3> QED BY <1>0, <1>1, <2>5, <2>7, <2>8, <2>10, <3>1, LessTokens
  <2>13. CASE \E i : OutIn(p, q, i)
    <3>1. /\ NotSteered(p) /\ NotQueued(p) /\ NotSent(p) /\ ~NotOut(p)
          /\ OneOut(p) /\ p \in DOMAIN typed
      BY <2>13 DEF Tokens, OneWay, Unseen, NotOut
    <3>2. NotSteered(p)' /\ NotQueued(p)'
      BY <3>1, <1>1, <2>5, LessNone
    <3>3. NotOut(p)'
      BY <2>9, <2>13, <3>1 DEF OneOut, NotOut
    <3>4. \A s \in Runs : \A i : SentAt(p, s, i)' => s = r /\ OutIn(p, q, i)
      BY <2>11, <3>1 DEF NotSent
    <3>5. OneSent(p)'
      BY <3>1, <3>4 DEF OneSent, OneOut
    <3>6. OneSteered(p)' /\ OneQueued(p)' /\ OneOut(p)' /\ OneNoted(p)' /\ OneRead(p)'
      BY <1>1, <2>5, <2>7, <2>8, <2>10 DEF LessSteered, LessQueued, LessOut, LessNoted, LessRead
    <3>7. OneWay(p)'
      BY <3>2, <3>3, <3>5, <3>6 DEF OneWay
    <3>8. OneNote(p)'
      BY <3>6, <2>7, <2>8, LessNone DEF Tokens, OneNote, LessRead
    <3>9. Unseen(p)' /\ Untaken(p)'
      BY <1>0, <3>1, <3>2 DEF Unseen, Untaken, NotSteered
    <3>10. Pending(p)'
      <4>1. \A s \in Runs : \A k : NotedAt(p, s, k) => run[s].status # "running"
        BY <3>1 DEF Tokens, Pending
      <4>2. \A s \in Runs : \A k : NotedAt(p, s, k)' => run'[s].status # "running"
        BY <2>3, <2>6, <4>1
      <4> QED BY <4>2 DEF Pending
    <3> QED BY <3>7, <3>8, <3>9, <3>10 DEF Tokens
  <2> QED BY <2>12, <2>13
<1> QED BY <1>2, <1>3

(* A run reads its notes.                                                   *)
LEMMA ReadNotesTokens ==
  ASSUME InStep, NEW p \in Prompts, Tokens(p), NEW r \in Runs, ReadNotes(r) PROVE Tokens(p)'
<1> DEFINE log == run[r].log
           notes == run[r].notes
           more == ReadingOf(notes)
<1>0. UNCHANGED <<requests, queue, typed>>
  BY DEF ReadNotes
<1>1. /\ run'[r].status = "running" /\ run'[r].asked = run[r].asked
      /\ run'[r].notes = <<>> /\ run'[r].log = log \o more
      /\ \A s \in Runs : s # r => run'[s] = run[s]
  BY ReadNotesChange DEF InStep
<1>2. log \in Seq(Events) /\ notes \in Seq(Prompts) /\ Len(log) \in Nat /\ Len(notes) \in Nat
      /\ DOMAIN log = 1..Len(log) /\ DOMAIN notes = 1..Len(notes)
  BY RunTyped, LenProperties DEF InStep
<1>3. more \in Seq(Events) /\ Len(more) = Len(notes) /\ \A i \in 1..Len(notes) : more[i].note = notes[i]
  BY <1>2, ReadingTyped DEF ReadingOf
<1>4. LessSteered(p) /\ LessOut(p) /\ LessQueued(p) /\ LessSent(p)
  BY <1>0, <1>1, SameRequests, SameQueue, SameAsked
<1>5. \A s \in Runs : \A i : NotedAt(p, s, i)' => NotedAt(p, s, i) /\ s # r
  BY <1>1 DEF NotedAt
<1>6. LessNoted(p)
  BY <1>1, <1>5 DEF Tokens, OneNote, LessNoted, OneNoted
<1> HIDE DEF log, notes, more
<1>7. /\ DOMAIN (log \o more) = 1..(Len(log) + Len(notes))
      /\ \A j \in 1..(Len(log) + Len(notes)) :
           (log \o more)[j] = IF j <= Len(log) THEN log[j] ELSE more[j - Len(log)]
  <2>1. /\ log \o more \in Seq(Events) /\ Len(log \o more) = Len(log) + Len(more)
        /\ \A j \in 1..(Len(log) + Len(more)) :
             (log \o more)[j] = IF j <= Len(log) THEN log[j] ELSE more[j - Len(log)]
    BY <1>2, <1>3, ConcatProperties
  <2>2. DOMAIN (log \o more) = 1..Len(log \o more)
    BY <2>1, LenProperties
  <2> QED BY <1>3, <2>1, <2>2
<1>8. ASSUME NEW i, ReadAt(p, r, i)'
      PROVE  ReadAt(p, r, i) \/ (i \in Int /\ NotedAt(p, r, i - Len(log)))
  <2>1. i \in 1..(Len(log) + Len(notes)) /\ (log \o more)[i].kind = "steering" /\ (log \o more)[i].note = p
    BY <1>1, <1>7, <1>8 DEF ReadAt
  <2>2. CASE i <= Len(log)
    <3>1. i \in 1..Len(log) /\ (log \o more)[i] = log[i]
      BY <2>1, <2>2, <1>2, <1>7
    <3> QED BY <3>1, <2>1, <1>2 DEF ReadAt, log
  <2>3. CASE ~(i <= Len(log))
    <3>1. i - Len(log) \in 1..Len(notes) /\ (log \o more)[i] = more[i - Len(log)] /\ i \in Int
      BY <2>1, <2>3, <1>2, <1>7
    <3>2. notes[i - Len(log)] = p
      BY <3>1, <2>1, <1>3
    <3> QED BY <3>1, <3>2, <1>2 DEF NotedAt, notes
  <2> QED BY <2>2, <2>3
<1>9. \A s \in Runs : \A i : s # r /\ ReadAt(p, s, i)' => ReadAt(p, s, i)
  BY <1>1 DEF ReadAt
<1>10. CASE \A i : ~NotedAt(p, r, i)
  <2>1. \A s \in Runs : \A i : ReadAt(p, s, i)' => ReadAt(p, s, i)
    BY <1>8, <1>9, <1>10
  <2>2. LessRead(p)
    BY <2>1 DEF Tokens, OneNote, LessRead, OneRead, NotRead
  <2> QED BY <1>0, <1>4, <1>6, <2>2, LessTokens
<1>11. CASE \E i : NotedAt(p, r, i)
  <2>1. NotRead(p) /\ OneNoted(p) /\ ~NotNoted(p) /\ p \in DOMAIN typed
    BY <1>11 DEF Tokens, OneNote, Unseen, NotNoted
  <2>2. NotNoted(p)'
    BY <1>5, <1>11, <2>1 DEF NotNoted, OneNoted
  <2>3. \A s \in Runs : \A i : ReadAt(p, s, i)' => s = r /\ i \in Int /\ NotedAt(p, r, i - Len(log))
    BY <1>8, <1>9, <2>1 DEF NotRead
  <2>4. OneRead(p)'
    <3> SUFFICES ASSUME NEW s \in Runs, NEW t \in Runs, NEW i, NEW j, ReadAt(p, s, i)', ReadAt(p, t, j)'
                 PROVE  s = t /\ i = j
      BY DEF OneRead
    <3>1. s = r /\ t = r /\ i \in Int /\ j \in Int /\ i - Len(log) = j - Len(log)
      BY <2>1, <2>3 DEF OneNoted
    <3> QED BY <3>1, <1>2
  <2>5. OneSteered(p)' /\ OneQueued(p)' /\ OneOut(p)' /\ OneSent(p)' /\ OneNoted(p)'
    BY <1>4, <1>6 DEF LessSteered, LessQueued, LessOut, LessSent, LessNoted
  <2>6. OneWay(p)'
    BY <1>4, <2>5, LessNone DEF Tokens, OneWay, LessOut, LessSent
  <2>7. OneNote(p)' /\ Pending(p)' /\ Unseen(p)'
    BY <1>0, <2>1, <2>2, <2>4, <2>5 DEF OneNote, Pending, Unseen, NotNoted
  <2>8. Untaken(p)'
    <3>1. \A q : SteeredBy(p, q) => q.answer = "taken"
      BY <2>1 DEF Tokens, Untaken
    <3> QED BY <3>1, <1>4 DEF Untaken, LessSteered
  <2> QED BY <2>6, <2>7, <2>8 DEF Tokens
<1> QED BY <1>10, <1>11

(* The page learns what became of a note.                                   *)
LEMMA SteerAnsweredTokens ==
  ASSUME InStep, NEW p \in Prompts, Tokens(p), NEW q \in requests, SteerAnswered(q) PROVE Tokens(p)'
<1>0. /\ q \in Steers /\ q.kind = "steer" /\ requests' = requests \ {q} /\ UNCHANGED <<run, typed>>
      /\ queue \in Seq(Items)
  BY RequestKinds DEF SteerAnswered, InStep, Typed, TypedQueue
<1>1. PICK new \in Prompts : q.prompts = <<new>>
  BY <1>0 DEF Steers, Singles
<1> DEFINE item == [prompt |-> q.prompts[1],
                    run |-> IF q.answer = "taken" THEN q.run ELSE NoRun, baseline |-> q.baseline]
           m == Len(queue)
<1>2. item.prompt = new /\ item.run = (IF q.answer = "taken" THEN q.run ELSE NoRun)
      /\ queue' = Append(queue, item) /\ item \in Items
  <2>1. q.prompts[1] = new
    BY <1>1
  <2> QED BY <1>0, <2>1 DEF SteerAnswered, Steers, Items
<1> HIDE DEF item
<1>3. /\ m \in Nat /\ DOMAIN queue = 1..m /\ DOMAIN queue' = 1..(m+1) /\ queue'[m+1] = item
      /\ \A i \in 1..m : queue'[i] = queue[i]
  BY <1>0, <1>2, AppendProperties, LenProperties
<1>4. LessSent(p) /\ LessNoted(p) /\ LessRead(p) /\ LessSteered(p) /\ LessOut(p)
  BY <1>0, SameService, FewerSteers, FewerStarts
<1> HIDE DEF m
<1>5. \A i : QueuedAt(p, i)' => (QueuedAt(p, i) /\ queue'[i] = queue[i]) \/ (i = m+1 /\ p = new)
  <2> SUFFICES ASSUME NEW i, QueuedAt(p, i)'
               PROVE  (QueuedAt(p, i) /\ queue'[i] = queue[i]) \/ (i = m+1 /\ p = new)
    OBVIOUS
  <2>1. i \in 1..m \/ i = m+1
    BY <1>3 DEF QueuedAt
  <2> QED BY <2>1, <1>2, <1>3 DEF QueuedAt
<1>6. CASE p # new
  <2>1. LessQueued(p)
    BY <1>5, <1>6 DEF Tokens, OneWay, LessQueued, OneQueued
  <2> QED BY <1>0, <1>4, <2>1, LessTokens
<1>7. CASE p = new
  <2>1. SteeredBy(p, q)
    BY <1>0, <1>1, <1>7 DEF SteeredBy
  <2>2. /\ NotQueued(p) /\ NotOut(p) /\ NotSent(p) /\ OneSteered(p) /\ p \in DOMAIN typed
    BY <2>1 DEF Tokens, OneWay, Unseen, NotSteered
  <2>3. NotOut(p)' /\ NotSent(p)'
    BY <2>2, <1>4 DEF LessOut, LessSent
  <2>4. NotSteered(p)'
    BY <1>0, <2>1, <2>2 DEF NotSteered, OneSteered, SteeredBy
  <2>5. \A i : QueuedAt(p, i)' => i = m+1
    BY <1>5, <2>2 DEF NotQueued
  <2>6. OneQueued(p)'
    BY <2>5 DEF OneQueued
  <2>7. OneSteered(p)' /\ OneOut(p)' /\ OneSent(p)' /\ OneNoted(p)' /\ OneRead(p)'
    BY <1>4 DEF LessSteered, LessOut, LessSent, LessNoted, LessRead
  <2>8. OneWay(p)'
    BY <2>3, <2>4, <2>6, <2>7 DEF OneWay
  <2>9. OneNote(p)'
    BY <2>7, <1>4, LessNone DEF Tokens, OneNote, LessRead
  <2>10. Unseen(p)' /\ Untaken(p)'
    BY <1>0, <2>2, <2>4 DEF Unseen, Untaken, NotSteered
  <2>11. Pending(p)'
    <3> SUFFICES ASSUME NEW r \in Runs, NEW k, NotedAt(p, r, k)', run'[r].status = "running"
                 PROVE  \A i : QueuedAt(p, i)' => queue'[i].run = r
      BY <2>3, <2>4 DEF Pending, NotSteered
    <3>1. NotedAt(p, r, k) /\ run[r].status = "running"
      BY <1>0 DEF NotedAt
    <3>2. q.run = r
      BY <3>1, <2>1 DEF Tokens, Pending
    <3>3. q.answer = "taken"
      BY <3>1, <2>1 DEF Tokens, Untaken, NotNoted
    <3> QED BY <2>5, <3>2, <3>3, <1>2, <1>3
  <2> QED BY <2>8, <2>9, <2>10, <2>11 DEF Tokens
<1> QED BY <1>6, <1>7

(* The queue goes out.                                                      *)
LEMMA FlushTokens ==
  ASSUME InStep, NEW p \in Prompts, Tokens(p), Render, Flushes PROVE Tokens(p)'
<1> DEFINE q == [kind |-> "start", prompts |-> [i \in DOMAIN queue |-> queue[i].prompt],
                 session |-> open, replaces |-> FALSE, flush |-> TRUE, answer |-> "none", run |-> NoRun]
<1>0. /\ requests' = requests \cup {q} /\ queue' = <<>> /\ UNCHANGED <<run, typed>>
      /\ \A i \in DOMAIN queue : queue[i].run = NoRun
  BY DEF Render, Flushes
<1>1. /\ q.kind = "start" /\ DOMAIN q.prompts = DOMAIN queue
      /\ \A i \in DOMAIN queue : q.prompts[i] = queue[i].prompt
  OBVIOUS
<1> HIDE DEF q
<1>2. LessSent(p) /\ LessNoted(p) /\ LessRead(p) /\ LessSteered(p) /\ LessQueued(p)
  BY <1>0, <1>1, SameService, FewerSteers, NoneQueued
<1>3. \A x, i : OutIn(p, x, i)' => OutIn(p, x, i) \/ (x = q /\ QueuedAt(p, i))
  BY <1>0, <1>1 DEF OutIn, QueuedAt
<1>4. CASE NotQueued(p)
  <2>1. LessOut(p)
    BY <1>3, <1>4 DEF Tokens, OneWay, LessOut, OneOut, NotOut, NotQueued
  <2> QED BY <1>0, <1>2, <2>1, LessTokens
<1>5. CASE ~NotQueued(p)
  <2>1. NotSteered(p) /\ NotOut(p) /\ NotSent(p) /\ OneQueued(p) /\ p \in DOMAIN typed
    BY <1>5 DEF Tokens, OneWay, Unseen
  <2>2. NotSteered(p)' /\ NotSent(p)'
    BY <2>1, <1>2, LessNone DEF LessSent
  <2>3. NotQueued(p)'
    BY <1>0 DEF NotQueued, QueuedAt
  <2>4. OneOut(p)'
    BY <1>3, <2>1 DEF OneOut, NotOut, OneQueued
  <2>5. OneSteered(p)' /\ OneQueued(p)' /\ OneSent(p)' /\ OneNoted(p)' /\ OneRead(p)'
    BY <1>2 DEF LessSteered, LessQueued, LessSent, LessNoted, LessRead
  <2>6. OneWay(p)'
    BY <2>2, <2>3, <2>4, <2>5 DEF OneWay
  <2>7. OneNote(p)'
    BY <2>5, <1>2, LessNone DEF Tokens, OneNote, LessRead
  <2>8. Unseen(p)' /\ Untaken(p)'
    BY <1>0, <2>1, <2>2 DEF Unseen, Untaken, NotSteered
  <2>9. Pending(p)'
    <3> SUFFICES ASSUME NEW r \in Runs, NEW k, NotedAt(p, r, k)', run'[r].status = "running"
                 PROVE  FALSE
      BY DEF Pending
    <3>1. NotedAt(p, r, k) /\ run[r].status = "running"
      BY <1>0 DEF NotedAt
    <3>2. PICK i : QueuedAt(p, i)
      BY <1>5 DEF NotQueued
    <3>3. queue[i].run = r
      BY <3>1, <3>2 DEF Tokens, Pending
    <3> QED BY <3>2, <3>3, <1>0, QueueConstants DEF QueuedAt
  <2> QED BY <2>6, <2>7, <2>8, <2>9 DEF Tokens
<1> QED BY <1>4, <1>5

LEMMA UserTokens ==
  ASSUME InStep, NEW p \in Prompts, Tokens(p), User PROVE Tokens(p)'
<1>1. ASSUME NEW i \in DOMAIN queue, Withdraw(i) PROVE Tokens(p)'
  <2>1. UNCHANGED <<run, typed>> /\ queue \in Seq(Items)
    BY <1>1 DEF Withdraw, InStep, Typed, TypedQueue
  <2>2. LessQueued(p)
    BY <1>1, <2>1, QueueRemoved, SameQueue DEF Withdraw
  <2>3. \A q \in requests' : q \in requests \/ q.kind = "withdraw"
    BY <1>1 DEF Withdraw
  <2>4. LessSteered(p) /\ LessOut(p)
    BY <2>3, FewerSteers, FewerStarts
  <2> QED BY <2>1, <2>2, <2>4, SameService, LessTokens
<1>2. ASSUME NEW s \in Sessions, Select(s) PROVE Tokens(p)'
  <2>1. UNCHANGED <<run, typed, queue, requests>>
    BY <1>2 DEF Select
  <2> QED BY <2>1, SameRequests, SameQueue, SameService, LessTokens
<1> QED BY <1>1, <1>2, TypeTokens, EditTokens DEF User

LEMMA ServiceTokens ==
  ASSUME InStep, NEW p \in Prompts, Tokens(p), Service PROVE Tokens(p)'
<1>1. ASSUME NEW q \in requests, ServeWithdraw(q) PROVE Tokens(p)'
  <2>1. q \in Withdrawals /\ UNCHANGED <<queue, typed>>
    BY <1>1, RequestKinds DEF ServeWithdraw, InStep, Typed
  <2>2. PICK answer : requests' = (requests \ {q}) \cup {[q EXCEPT !.answer = answer]}
    BY <1>1 DEF ServeWithdraw, Answered
  <2>3. [q EXCEPT !.answer = answer].kind = "withdraw"
    BY <2>1 DEF Withdrawals
  <2>4. LessSteered(p) /\ LessOut(p)
    BY <2>2, <2>3, FewerSteers, FewerStarts
  <2>5. LessSent(p) /\ LessNoted(p) /\ LessRead(p)
    <3>1. CASE UNCHANGED run
      BY <3>1, SameService
    <3>2. CASE ~UNCHANGED run
      <4>1. PICK i \in DOMAIN run[q.run].notes : run' = [run EXCEPT ![q.run].notes = RemoveAt(@, i)]
        BY <1>1, <3>2 DEF ServeWithdraw
      <4>2. run' = [run EXCEPT ![q.run].notes = RemoveAt(run[q.run].notes, i)] /\ q.run \in Runs
        BY <4>1, <2>1 DEF Withdrawals
      <4> QED BY <4>2, NoteTaken
    <3> QED BY <3>1, <3>2
  <2> QED BY <2>1, <2>4, <2>5, SameQueue, LessTokens
<1>2. ASSUME NEW r \in Runs, NEW n \in Runs \cup {NoRun}, EndRun(r, n) PROVE Tokens(p)'
  <2>1. UNCHANGED <<requests, queue, typed>>
    BY <1>2 DEF EndRun
  <2> QED BY <1>2, <2>1, RunEnded, SameRequests, SameQueue, LessTokens
<1> QED BY <1>1, <1>2, ServeSteerTokens, ServeStartTokens, ReadNotesTokens DEF Service

LEMMA PageTokens ==
  ASSUME InStep, NEW p \in Prompts, Tokens(p), Page PROVE Tokens(p)'
<1>1. ASSUME NEW q \in requests, WithdrawAnswered(q) PROVE Tokens(p)'
  <2>1. UNCHANGED <<run, typed>> /\ queue \in Seq(Items) /\ requests' = requests \ {q}
    BY <1>1 DEF WithdrawAnswered, InStep, Typed, TypedQueue
  <2>2. LessQueued(p)
    BY <1>1, <2>1, QueueRemoved, SameQueue DEF WithdrawAnswered
  <2>3. LessSteered(p) /\ LessOut(p)
    BY <2>1, FewerSteers, FewerStarts
  <2> QED BY <2>1, <2>2, <2>3, SameService, LessTokens
<1>2. ASSUME NEW q \in requests, StartAnswered(q) PROVE Tokens(p)'
  <2>1. UNCHANGED <<run, typed, queue>> /\ requests' = requests \ {q}
    BY <1>2 DEF StartAnswered
  <2>2. LessSteered(p) /\ LessOut(p)
    BY <2>1, FewerSteers, FewerStarts
  <2> QED BY <2>1, <2>2, SameService, SameQueue, LessTokens
<1>3. CASE UNCHANGED <<run, typed, queue, requests>>
  BY <1>3, SameRequests, SameQueue, SameService, LessTokens
<1>4. CASE Render /\ ~Flushes
  <2>1. UNCHANGED <<run, typed, requests>>
    BY <1>4 DEF Render
  <2>2. LessQueued(p)
    <3>1. CASE thread.session # rendered.session
      <4>1. queue' = Settle(<<>>, thread.card)
        BY <1>4, <3>1 DEF Render
      <4>2. <<>> \in Seq(Items) /\ thread.card \in [Runs -> Cards]
        BY EmptySeq DEF InStep, Typed, TypedThread
      <4>3. PICK from \in [DOMAIN queue' -> DOMAIN <<>>] : TRUE
        BY <4>1, <4>2, KeptOrRead
      <4>4. \A i : ~QueuedAt(p, i)'
        BY <4>3 DEF QueuedAt
      <4> QED BY <4>4 DEF LessQueued, OneQueued
    <3>2. CASE thread.session = rendered.session
      <4>1. queue' = Settle(queue, thread.card)
        BY <1>4, <3>2 DEF Render
      <4> QED BY <4>1, QueueSettled
    <3> QED BY <3>1, <3>2
  <2> QED BY <2>1, <2>2, SameRequests, SameService, LessTokens
<1> QED BY <1>1, <1>2, <1>3, <1>4, SteerAnsweredTokens, FlushTokens
        DEF Page, TurnsLoaded, RunsListed, EventArrives, Sending

LEMMA TokensStep ==
  ASSUME InStep, NEW p \in Prompts, Tokens(p), [Next]_vars PROVE Tokens(p)'
<1>1. CASE UNCHANGED vars
  <2>1. UNCHANGED <<run, typed, queue, requests>>
    BY <1>1 DEF vars
  <2> QED BY <2>1, SameRequests, SameQueue, SameService, LessTokens
<1> QED BY <1>1, UserTokens, ServiceTokens, PageTokens DEF Next

AllOnce == \A p \in Prompts : Tokens(p)

LEMMA InitTokens == ASSUME Init, NEW p \in Prompts PROVE Tokens(p)
<1>1. requests = {} /\ queue = <<>> /\ \A r \in Runs : run[r] = NotRun
  BY DEF Init
<1>2. \A r \in Runs : run[r].asked = <<>> /\ run[r].notes = <<>> /\ run[r].log = <<>>
  BY <1>1 DEF NotRun
<1>3. /\ NotSteered(p) /\ NotQueued(p) /\ NotOut(p)
      /\ OneSteered(p) /\ OneQueued(p) /\ OneOut(p)
  BY <1>1 DEF NotSteered, NotQueued, NotOut, OneSteered, OneQueued, OneOut, SteeredBy, QueuedAt, OutIn
<1>4. NotSent(p) /\ NotNoted(p) /\ NotRead(p)
  BY <1>2 DEF NotSent, NotNoted, NotRead, SentAt, NotedAt, ReadAt
<1>5. OneSent(p) /\ OneNoted(p) /\ OneRead(p)
  BY <1>4 DEF NotSent, NotNoted, NotRead, OneSent, OneNoted, OneRead
<1> QED BY <1>3, <1>4, <1>5 DEF Tokens, Unseen, OneWay, OneNote, Untaken, Pending, NotSteered, NotNoted

LEMMA TokensTell ==
  ASSUME InStep, AllOnce PROVE NeverAgain
<1> SUFFICES ASSUME NEW p \in Prompts
             PROVE  /\ \A r, s \in Runs : \A i \in DOMAIN run[r].log, j \in DOMAIN run[s].log :
                         ReadAt(p, r, i) /\ ReadAt(p, s, j) => r = s /\ i = j
                    /\ \A r, s \in Runs : \A i \in DOMAIN run[r].asked, j \in DOMAIN run[s].asked :
                         SentAt(p, r, i) /\ SentAt(p, s, j) => r = s /\ i = j
                    /\ Sent(p) => ~GoesOut(p)
                    /\ Sent(p) \/ GoesOut(p) =>
                         \A r \in Runs : run[r].status = "running" => ~Contains(run[r].notes, p)
  BY DEF NeverAgain
<1>0. Tokens(p)
  BY DEF AllOnce
<1>1. \A r, s \in Runs : \A i \in DOMAIN run[r].log, j \in DOMAIN run[s].log :
         ReadAt(p, r, i) /\ ReadAt(p, s, j) => r = s /\ i = j
  BY <1>0 DEF Tokens, OneNote, OneRead
<1>2. \A r, s \in Runs : \A i \in DOMAIN run[r].asked, j \in DOMAIN run[s].asked :
         SentAt(p, r, i) /\ SentAt(p, s, j) => r = s /\ i = j
  BY <1>0 DEF Tokens, OneWay, OneSent
<1>3. Sent(p) => ~NotSent(p)
  BY DEF Sent, NotSent
<1>4. GoesOut(p) => ~NotOut(p)
  <2> SUFFICES ASSUME GoesOut(p) PROVE ~NotOut(p)
    OBVIOUS
  <2>1. PICK q \in requests : q.kind = "start" /\ q.answer = "none" /\ Contains(q.prompts, p)
    BY DEF GoesOut
  <2>2. q.prompts \in Seq(Prompts)
    BY <2>1, RequestKinds DEF InStep, Typed, Starts
  <2>3. PICK i \in 1..Len(q.prompts) : q.prompts[i] = p
    BY <2>1 DEF Contains
  <2>4. i \in DOMAIN q.prompts
    BY <2>2, <2>3, LenProperties
  <2> QED BY <2>1, <2>3, <2>4 DEF NotOut, OutIn
<1>5. ASSUME Sent(p) \/ GoesOut(p), NEW r \in Runs, run[r].status = "running"
      PROVE  ~Contains(run[r].notes, p)
  <2> SUFFICES ASSUME Contains(run[r].notes, p) PROVE FALSE
    OBVIOUS
  <2>1. PICK k \in 1..Len(run[r].notes) : run[r].notes[k] = p
    BY DEF Contains
  <2>2. run[r].notes \in Seq(Prompts)
    BY RunTyped DEF InStep
  <2>3. k \in DOMAIN run[r].notes
    BY <2>1, <2>2, LenProperties
  <2>4. NotedAt(p, r, k)
    BY <2>1, <2>3 DEF NotedAt
  <2> QED BY <2>4, <1>0, <1>3, <1>4, <1>5 DEF Tokens, Pending
<1>6. Sent(p) => ~GoesOut(p)
  BY <1>0, <1>3, <1>4 DEF Tokens, OneWay
<1> QED BY <1>1, <1>2, <1>5, <1>6

(* No prompt is read twice, none is in two messages, and none that went out *)
(* can still be read: neither the answers to steer and withdraw, nor        *)
(* settling, nor sending the queue makes a second one of it.                *)
THEOREM Once == Spec => []NeverAgain
<1>1. Init => AllOnce
  BY InitTokens DEF AllOnce
<1>2. InStep /\ AllOnce /\ [Next]_vars => AllOnce'
  BY TokensStep DEF AllOnce
<1>3. InStep /\ AllOnce => NeverAgain
  BY TokensTell
<1> QED BY <1>1, <1>2, <1>3, StayInStep, PTL DEF Spec
=============================================================================
