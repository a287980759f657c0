---------------------------- MODULE RemoteRunsProof ----------------------------
(* What a run is told of the calls it had carried out on another device is  *)
(* true, and no call begins while an earlier one is uncertain, proved for   *)
(* any number of calls and of mishaps.                                      *)
EXTENDS RemoteRuns, TLAPS

---------------------------------------------------------------------------
(* The strengthening.                                                       *)

Executing(k) == Request("execute", k)

(* A call before its tool begins, and one that has not returned.            *)
Ready == {"checked", "doomed"}
Busy == Ready \cup {"running", "aborted"}

(* The journal knows what the tools do.                                     *)
Journaled ==
  /\ journal[Request("prepare", 0)] # "running"
  /\ \A k \in Calls :
       /\ began[k] <= 1 /\ (tool[k] \in Ready => began[k] = 0)
       /\ journal[Executing(k)] = "none" => began[k] = 0 /\ ended[k] = 0
       /\ tool[k] \in Busy <=> journal[Executing(k)] = "running"
       /\ journal[Executing(k)] = "running" => ended[k] = 0
       /\ journal[Executing(k)] = "ok" => ended[k] = 1

(* Nobody hears that a call was carried out unless it was.                  *)
Answered ==
  \A k \in Calls :
    /\ \A m \in net : m.type = "answer" /\ m.of = Executing(k) /\ m.value = "ok"
                        => journal[Executing(k)] = "ok"
    /\ result[Executing(k)] = "ok" => journal[Executing(k)] = "ok"
    /\ host.told[k] = "done" => journal[Executing(k)] = "ok"

Unsent(k) ==
  /\ result[Executing(k)] = "none"
  /\ journal[Executing(k)] = "none"
  /\ \A m \in net : m.of # Executing(k)

(* The device hears of a call only when the run has decided to make it.     *)
SentWhenDecided ==
  \A k \in Calls :
    \/ k > host.call
    \/ k = host.call /\ host.phase \in {"assessing", "asking"}
    \/ host.told[k] = "not run"
    => Unsent(k)

(* The run goes on to its next call knowing what became of the others.      *)
KnowsEarlier ==
  /\ host.phase \in {"new", "preparing"} => host.call = 0
  /\ host.phase \in {"assessing", "asking", "executing"} => host.call > 0 /\ host.told[host.call] = "nothing"
  /\ \A k \in Calls :
       /\ k > host.call => host.told[k] = "nothing"
       /\ k < host.call \/ (k = host.call /\ host.phase = "thinking") => host.told[k] \in {"done", "not run"}

IInv == TypeOK /\ Journaled /\ Answered /\ SentWhenDecided /\ KnowsEarlier

---------------------------------------------------------------------------
(* Data.                                                                    *)

HostType ==
  [phase : {"new", "preparing", "thinking", "assessing", "asking", "executing", "ending",
            "finishing", "over", "abandoned", "stuck"},
   call : 0..MaxCalls, cancelled : BOOLEAN, listening : BOOLEAN, renewing : BOOLEAN,
   told : [Calls -> {"nothing", "not run", "done", "unknown"}]]

NetType ==
  [type : {"request"}, of : Requests]
  \cup [type : {"answer"}, of : Requests, value : {"ok", "blocked", "error"}]

LEMMA RequestFacts ==
  /\ \A k \in Calls : Executing(k) \in Requests /\ Request("assess", k) \in Requests
  /\ Request("prepare", 0) \in Requests /\ Request("lease", 0) \in Requests
  /\ Request("artifacts", 0) \in Requests
  /\ Request("cancel", 1) \in Requests /\ Request("cancel", 2) \in Requests
  /\ \A j, k \in Calls : Executing(j) = Executing(k) => j = k
  /\ \A k \in Calls : \A j : /\ Executing(k) # Request("assess", j)
                              /\ Executing(k) # Request("prepare", j)
                              /\ Executing(k) # Request("artifacts", j)
                              /\ Executing(k) # Request("cancel", j)
  /\ \A q \in Requests : q.op = "execute" => q.k \in Calls /\ q = Executing(q.k)
  /\ \A k \in Calls : Executing(k).op = "execute" /\ Executing(k).k = k
<1>1. \A op, k : Request(op, k).op = op /\ Request(op, k).k = k
  BY DEF Request
<1>2. \A k \in Calls : Executing(k).op = "execute" /\ Executing(k).k = k
  BY <1>1 DEF Executing
<1>3. \A k \in Calls : Executing(k) \in Requests /\ Request("assess", k) \in Requests
  BY DEF Requests, Executing
<1>4. /\ Request("prepare", 0) \in Requests /\ Request("lease", 0) \in Requests
      /\ Request("artifacts", 0) \in Requests
      /\ Request("cancel", 1) \in Requests /\ Request("cancel", 2) \in Requests
  BY DEF Requests
<1>5. \A j, k \in Calls : Executing(j) = Executing(k) => j = k
  BY <1>2
<1>6. ASSUME NEW k \in Calls, NEW j
      PROVE  /\ Executing(k) # Request("assess", j)
             /\ Executing(k) # Request("prepare", j)
             /\ Executing(k) # Request("artifacts", j)
             /\ Executing(k) # Request("cancel", j)
  BY <1>1, <1>2
<1>7. ASSUME NEW q \in Requests, q.op = "execute" PROVE q.k \in Calls /\ q = Executing(q.k)
  <2>1. PICK op, k : q = Request(op, k) /\ (op \in {"assess", "execute"} => k \in Calls)
    BY DEF Requests
  <2>2. op = "execute" /\ q.k = k
    BY <1>1, <1>7, <2>1
  <2> QED
    BY <2>1, <2>2 DEF Executing
<1> QED
  BY <1>2, <1>3, <1>4, <1>5, <1>6, <1>7

LEMMA AskFacts ==
  ASSUME TypeOK, NEW asked \in SUBSET Requests, Ask(asked)
  PROVE  /\ result' \in [Requests -> Results] /\ net' \subseteq NetType /\ faults' \in Nat
         /\ \A q \in Requests : IF q \in asked THEN result'[q] \in {"pending", "error"}
                                ELSE result'[q] = result[q]
         /\ \A m \in net' : m \in net \/ (m.type = "request" /\ m.of \in asked)
<1>1. PICK sent \in SUBSET asked :
        /\ faults' = IF sent # asked /\ online.host /\ online.device THEN faults + 1 ELSE faults
        /\ result' = [q \in Requests |->
             IF q \in sent THEN "pending" ELSE IF q \in asked THEN "error" ELSE result[q]]
        /\ net' = net \cup {Asking(q) : q \in sent}
  BY DEF Ask
<1>2. /\ result \in [Requests -> Results] /\ net \subseteq NetType /\ faults \in Nat
  BY DEF TypeOK, NetType
<1>3. result' \in [Requests -> Results]
  BY <1>1, <1>2 DEF Results
<1>4. \A q \in sent : Asking(q) \in NetType /\ Asking(q).type = "request" /\ Asking(q).of = q
  BY DEF Asking, NetType
<1>5. net' \subseteq NetType /\ \A m \in net' : m \in net \/ (m.type = "request" /\ m.of \in asked)
  BY <1>1, <1>2, <1>4
<1> QED
  BY <1>1, <1>2, <1>3, <1>5

---------------------------------------------------------------------------
(* The invariant is kept by whatever has the shape of a step of the host,   *)
(* of an answer, and of a step of the device.                               *)

Undecided(h, k) ==
  \/ k > h.call
  \/ k = h.call /\ h.phase \in {"assessing", "asking"}
  \/ h.told[k] = "not run"

Deciding(k) == k = host.call /\ host.phase = "asking" /\ host'.phase = "executing"

LEMMA HostKeeps ==
  ASSUME IInv, UNCHANGED Device,
         host' \in HostType, result' \in [Requests -> Results], net' \subseteq NetType, faults' \in Nat,
         \A k \in Calls : \/ result'[Executing(k)] = result[Executing(k)]
                          \/ result'[Executing(k)] \in {"pending", "error"} /\ Deciding(k),
         \A m \in net' : \/ m \in net
                         \/ m.type = "request" /\ \A k \in Calls : m.of = Executing(k) => Deciding(k),
         \A k \in Calls : host'.told[k] = "done" => host.told[k] = "done" \/ result[Executing(k)] = "ok",
         \A k \in Calls : Undecided(host', k) => Undecided(host, k) /\ ~Deciding(k),
         KnowsEarlier'
  PROVE  IInv'
<1>1. TypeOK'
  BY DEF IInv, TypeOK, HostType, NetType, Device
<1>2. Journaled'
  BY DEF IInv, Journaled, Device
<1>3. Answered'
  <2> SUFFICES ASSUME NEW k \in Calls
               PROVE  /\ \A m \in net' : m.type = "answer" /\ m.of = Executing(k) /\ m.value = "ok"
                                           => journal'[Executing(k)] = "ok"
                      /\ result'[Executing(k)] = "ok" => journal'[Executing(k)] = "ok"
                      /\ host'.told[k] = "done" => journal'[Executing(k)] = "ok"
    BY DEF Answered
  <2>1. journal' = journal
    BY DEF Device
  <2> QED
    BY <2>1 DEF IInv, Answered
<1>4. SentWhenDecided'
  <2> SUFFICES ASSUME NEW k \in Calls, Undecided(host', k)
               PROVE  Unsent(k)'
    BY DEF SentWhenDecided, Undecided
  <2>1. Undecided(host, k) /\ ~Deciding(k)
    OBVIOUS
  <2>2. Unsent(k)
    BY <2>1 DEF IInv, SentWhenDecided, Undecided
  <2>3. result'[Executing(k)] = result[Executing(k)] /\ journal' = journal
    BY <2>1 DEF Device
  <2>4. \A m \in net' : m.of # Executing(k)
    BY <2>1, <2>2 DEF Unsent
  <2> QED
    BY <2>2, <2>3, <2>4 DEF Unsent
<1> QED
  BY <1>1, <1>2, <1>3, <1>4 DEF IInv

LEMMA ResultKeeps ==
  ASSUME IInv, UNCHANGED <<host, Device>>, faults' \in Nat, net' \subseteq net,
         result' \in [Requests -> Results],
         \A k \in Calls : \/ result'[Executing(k)] = result[Executing(k)]
                          \/ /\ result[Executing(k)] = "pending"
                             /\ result'[Executing(k)] = "ok" => journal[Executing(k)] = "ok"
  PROVE  IInv'
<1>0. /\ host' = host /\ online' = online /\ exec' = exec /\ tool' = tool /\ journal' = journal
      /\ began' = began /\ ended' = ended
  BY DEF Device
<1>1. TypeOK' /\ Journaled' /\ KnowsEarlier'
  <2>1. TypeOK'
    BY <1>0 DEF IInv, TypeOK
  <2>2. Journaled'
    BY <1>0 DEF IInv, Journaled
  <2>3. KnowsEarlier'
    BY <1>0 DEF IInv, KnowsEarlier
  <2> QED
    BY <2>1, <2>2, <2>3
<1>2. Answered'
  BY DEF IInv, Answered, Device
<1>3. SentWhenDecided'
  BY DEF IInv, SentWhenDecided, Unsent, Device
<1> QED
  BY <1>1, <1>2, <1>3 DEF IInv

LEMMA DeviceKeeps ==
  ASSUME IInv, UNCHANGED <<host, result>>, TypeOK', Journaled',
         \A k \in Calls : journal[Executing(k)] = "ok" => journal'[Executing(k)] = "ok",
         \A k \in Calls : journal[Executing(k)] = "none" /\ (\A m \in net : m.of # Executing(k))
                            => journal'[Executing(k)] = "none",
         \A m \in net' :
           \/ m \in net
           \/ m.type = "request" /\ result[m.of] = "pending"
           \/ /\ m.type = "answer"
              /\ \/ \E n \in net : n.of = m.of
                 \/ \E k \in Calls : m.of = Executing(k) /\ tool[k] \in Busy
              /\ \A k \in Calls : m.of = Executing(k) /\ m.value = "ok" => journal'[Executing(k)] = "ok"
  PROVE  IInv'
<1>1. KnowsEarlier'
  BY DEF IInv, KnowsEarlier
<1>2. Answered'
  BY DEF IInv, Answered
<1>3. SentWhenDecided'
  <2> SUFFICES ASSUME NEW k \in Calls, Undecided(host, k)
               PROVE  Unsent(k)'
    BY DEF SentWhenDecided, Undecided
  <2>1. Unsent(k)
    BY DEF IInv, SentWhenDecided, Undecided
  <2>2. tool[k] \notin Busy
    BY <2>1 DEF IInv, Journaled, Unsent
  <2>3. journal'[Executing(k)] = "none"
    BY <2>1 DEF Unsent
  <2>4. ASSUME NEW m \in net', m.of = Executing(k) PROVE FALSE
    <3>1. CASE m \in net
      BY <2>1, <2>4, <3>1 DEF Unsent
    <3>2. CASE m.type = "request" /\ result[m.of] = "pending"
      BY <2>1, <2>4, <3>2 DEF Unsent
    <3>3. CASE \E n \in net : n.of = m.of
      BY <2>1, <2>4, <3>3 DEF Unsent
    <3>4. CASE \E j \in Calls : m.of = Executing(j) /\ tool[j] \in Busy
      <4>1. PICK j \in Calls : m.of = Executing(j) /\ tool[j] \in Busy
        BY <3>4
      <4>2. j = k
        <5>1. Executing(j).k = j /\ Executing(k).k = k
          BY RequestFacts
        <5> QED
          BY <2>4, <4>1, <5>1
      <4> QED
        BY <2>2, <4>1, <4>2
    <3> QED
      BY <3>1, <3>2, <3>3, <3>4
  <2> QED
    BY <2>1, <2>3, <2>4 DEF Unsent
<1> QED
  BY <1>1, <1>2, <1>3 DEF IInv

---------------------------------------------------------------------------
(* The steps of the host.                                                   *)

LEMMA CallsNat == MaxCalls \in Nat /\ \A k \in Calls : k \in Nat /\ k > 0
BY RemoteConstants DEF Calls

LEMMA CallFacts ==
  /\ \A c \in 0..MaxCalls : c \in Nat /\ (c > 0 => c \in Calls)
  /\ \A k \in Calls, c \in Nat : (k > c \/ k < c) => k # c
<1>1. MaxCalls \in Nat
  BY RemoteConstants
<1>2. \A c \in 0..MaxCalls : c \in Nat /\ (c > 0 => c \in Calls)
  BY <1>1 DEF Calls
<1>3. \A k \in Calls, c \in Nat : (k > c \/ k < c) => k # c
  BY <1>1 DEF Calls
<1> QED
  BY <1>2, <1>3

LEMMA HostFacts ==
  ASSUME IInv
  PROVE  /\ host \in HostType /\ result \in [Requests -> Results] /\ net \subseteq NetType
         /\ faults \in Nat /\ host.call \in Nat
<1>1. /\ host \in HostType /\ result \in [Requests -> Results] /\ net \subseteq NetType
      /\ faults \in Nat
  BY DEF IInv, TypeOK, HostType, NetType
<1>2. host.call \in 0..MaxCalls
  BY <1>1 DEF HostType
<1> QED
  BY <1>1, <1>2, RemoteConstants

(* A step that asks nothing about a tool.                                   *)
LEMMA AsksNoTool ==
  ASSUME NEW asked \in SUBSET Requests, \A k \in Calls : Executing(k) \notin asked,
         IInv, Ask(asked)
  PROVE  /\ result' \in [Requests -> Results] /\ net' \subseteq NetType /\ faults' \in Nat
         /\ \A k \in Calls : result'[Executing(k)] = result[Executing(k)]
         /\ \A m \in net' : m \in net \/ (m.type = "request" /\ \A k \in Calls : m.of # Executing(k))
<1>1. TypeOK
  BY DEF IInv
<1>2. /\ result' \in [Requests -> Results] /\ net' \subseteq NetType /\ faults' \in Nat
      /\ \A q \in Requests : IF q \in asked THEN result'[q] \in {"pending", "error"}
                             ELSE result'[q] = result[q]
      /\ \A m \in net' : m \in net \/ (m.type = "request" /\ m.of \in asked)
  BY <1>1, AskFacts
<1> QED
  BY <1>2, RequestFacts

LEMMA OthersAsked ==
  ASSUME NEW k \in Calls
  PROVE  /\ Executing(k) \notin {Request("prepare", 0)}
         /\ Executing(k) \notin {Request("artifacts", 0)}
         /\ \A j : Executing(k) \notin {Request("assess", j)}
         /\ \A j : Executing(k) \notin {Request("cancel", j)}
         /\ Executing(k) \notin {Request("cancel", 2), Request("artifacts", 0)}
BY RequestFacts

LEMMA PrepareKeeps == IInv /\ Prepare => IInv'
<1> SUFFICES ASSUME IInv, Prepare PROVE IInv'
  OBVIOUS
<1>1. /\ host.phase = "new" /\ host' = [host EXCEPT !.phase = "preparing"]
      /\ Ask({Request("prepare", 0)}) /\ UNCHANGED Device
  BY DEF Prepare
<1>2. /\ result' \in [Requests -> Results] /\ net' \subseteq NetType /\ faults' \in Nat
      /\ \A k \in Calls : result'[Executing(k)] = result[Executing(k)]
      /\ \A m \in net' : m \in net \/ (m.type = "request" /\ \A k \in Calls : m.of # Executing(k))
  BY <1>1, AsksNoTool, OthersAsked, RequestFacts
<1>3. /\ host' \in HostType /\ host'.phase = "preparing"
      /\ host'.call = host.call /\ host'.told = host.told
  BY <1>1, HostFacts DEF HostType
<1>4. KnowsEarlier'
  BY <1>1, <1>3 DEF IInv, KnowsEarlier
<1>5. \A k \in Calls : Undecided(host', k) => Undecided(host, k) /\ ~Deciding(k)
  BY <1>1, <1>3 DEF Undecided, Deciding
<1> QED
  BY <1>1, <1>2, <1>3, <1>4, <1>5, HostKeeps

LEMMA PreparedKeeps == IInv /\ Prepared => IInv'
<1> SUFFICES ASSUME IInv, Prepared PROVE IInv'
  OBVIOUS
<1>1. /\ host.phase = "preparing"
      /\ \/ host' = [host EXCEPT !.phase = "thinking", !.renewing = TRUE]
         \/ host' = [host EXCEPT !.phase = "over"]
      /\ UNCHANGED <<result, net, faults, Device>>
  BY DEF Prepared
<1>2. /\ host' \in HostType /\ host'.phase \in {"thinking", "over"}
      /\ host'.call = host.call /\ host'.told = host.told
  BY <1>1, HostFacts DEF HostType
<1>3. KnowsEarlier'
  <2>1. host'.call = 0 /\ \A k \in Calls : k > 0
    <3>1. host.call = 0
      BY <1>1 DEF IInv, KnowsEarlier
    <3> QED
      BY <1>2, <3>1, CallsNat
  <2> QED
    BY <1>1, <1>2, <2>1, CallsNat DEF IInv, KnowsEarlier
<1>4. \A k \in Calls : Undecided(host', k) => Undecided(host, k) /\ ~Deciding(k)
  BY <1>1, <1>2 DEF Undecided, Deciding
<1> QED
  BY <1>1, <1>2, <1>3, <1>4, HostFacts, HostKeeps

LEMMA AssessKeeps == IInv /\ Assess => IInv'
<1> SUFFICES ASSUME IInv, Assess PROVE IInv'
  OBVIOUS
<1>0. host \in HostType /\ host.call \in Nat /\ MaxCalls \in Nat
  BY HostFacts, RemoteConstants
<1>1. /\ host.phase = "thinking" /\ host.call < MaxCalls
      /\ host' = [host EXCEPT !.phase = "assessing", !.call = @ + 1, !.listening = TRUE]
      /\ Ask({Request("assess", host.call + 1)}) /\ UNCHANGED Device
  BY DEF Assess
<1>2. /\ result' \in [Requests -> Results] /\ net' \subseteq NetType /\ faults' \in Nat
      /\ \A k \in Calls : result'[Executing(k)] = result[Executing(k)]
      /\ \A m \in net' : m \in net \/ (m.type = "request" /\ \A k \in Calls : m.of # Executing(k))
  <2>1. host.call + 1 \in Calls
    BY <1>0, <1>1 DEF Calls
  <2> QED
    BY <1>1, <2>1, AsksNoTool, OthersAsked, RequestFacts
<1>3. /\ host' \in HostType /\ host'.phase = "assessing"
      /\ host'.call = host.call + 1 /\ host'.told = host.told
  <2> DEFINE c == host.call + 1
  <2>1. c \in 0..MaxCalls
    BY <1>0, <1>1
  <2>2. host' = [host EXCEPT !.phase = "assessing", !.call = c, !.listening = TRUE]
    BY <1>1
  <2> HIDE DEF c
  <2>3. host' \in HostType /\ host'.phase = "assessing" /\ host'.call = c /\ host'.told = host.told
    BY <1>0, <2>1, <2>2 DEF HostType
  <2> QED
    BY <2>3 DEF c
<1>4. KnowsEarlier'
  <2> DEFINE c == host.call
  <2>1. /\ c \in Nat /\ c + 1 \in Calls /\ \A k \in Calls : k \in Nat
        /\ host'.call = c + 1
    BY <1>0, <1>1, <1>3 DEF Calls
  <2>2. \A k \in Calls : /\ k > c => host.told[k] = "nothing"
                         /\ k < c \/ k = c => host.told[k] \in {"done", "not run"}
    BY <1>1 DEF IInv, KnowsEarlier
  <2> HIDE DEF c
  <2>3. /\ host'.call > 0 /\ host'.told[host'.call] = "nothing"
        /\ \A k \in Calls :
             /\ k > host'.call => host'.told[k] = "nothing"
             /\ k < host'.call => host'.told[k] \in {"done", "not run"}
    <3>1. \A k \in Calls : /\ k > c + 1 => k > c
                           /\ k < c + 1 => k < c \/ k = c
                           /\ c + 1 > c /\ c + 1 > 0
      BY <2>1
    <3>2. host'.call = c + 1 /\ host'.told = host.told /\ c + 1 \in Calls
      BY <1>3, <2>1
    <3> QED
      BY <2>2, <3>1, <3>2
  <2> QED
    BY <1>3, <2>3 DEF KnowsEarlier
<1>5. \A k \in Calls : Undecided(host', k) => Undecided(host, k) /\ ~Deciding(k)
  <2> SUFFICES ASSUME NEW k \in Calls, Undecided(host', k) PROVE Undecided(host, k)
    BY <1>1 DEF Deciding
  <2>1. k > host.call + 1 \/ k = host.call + 1 \/ host.told[k] = "not run"
    BY <1>3 DEF Undecided
  <2>2. k > host.call \/ host.told[k] = "not run"
    <3>1. k \in Nat
      BY CallsNat
    <3>2. host.call + 1 > host.call /\ (k > host.call + 1 => k > host.call)
      BY <1>0, <3>1
    <3> QED
      BY <2>1, <3>2
  <2> QED
    BY <2>2 DEF Undecided
<1> QED
  BY <1>1, <1>2, <1>3, <1>4, <1>5, HostKeeps

(* The call is over for the run, which knows what became of it.             *)
LEMMA ToldKnows ==
  ASSUME IInv, host.phase \in {"assessing", "asking", "executing"},
         host'.phase \in {"thinking", "ending"}, host'.call = host.call,
         NEW v \in {"done", "not run", "unknown"},
         host'.told = [host.told EXCEPT ![host.call] = v],
         host'.phase = "thinking" => v \in {"done", "not run"}
  PROVE  /\ host.call \in Calls
         /\ \A k \in Calls : IF k = host.call THEN host'.told[k] = v ELSE host'.told[k] = host.told[k]
         /\ KnowsEarlier'
<1>1. host \in HostType /\ host.call \in Nat /\ host.call \in 0..MaxCalls
  BY HostFacts DEF HostType
<1>2. host.call > 0
  BY DEF IInv, KnowsEarlier
<1>3. host.call \in Calls
  BY <1>1, <1>2, CallFacts
<1>4. host.told \in [Calls -> {"nothing", "not run", "done", "unknown"}]
  BY <1>1 DEF HostType
<1>5. \A k \in Calls : IF k = host.call THEN host'.told[k] = v ELSE host'.told[k] = host.told[k]
  BY <1>3, <1>4
<1>6. \A k \in Calls : (k > host.call \/ k < host.call) => k # host.call
  BY <1>1, CallFacts
<1>7. KnowsEarlier'
  BY <1>5, <1>6 DEF IInv, KnowsEarlier
<1> QED
  BY <1>3, <1>5, <1>7

(* The call is over without having been made.                               *)
LEMMA NotRunKeeps ==
  ASSUME IInv, host.phase \in {"assessing", "asking"},
         host' = [host EXCEPT !.phase = "thinking", !.told[host.call] = "not run"],
         UNCHANGED <<result, net, faults, Device>>
  PROVE  IInv'
<1>0. host \in HostType
  BY HostFacts
<1>1. /\ host' \in HostType /\ host'.phase = "thinking" /\ host'.call = host.call
      /\ host'.told = [host.told EXCEPT ![host.call] = "not run"]
  BY <1>0 DEF HostType
<1>2. /\ host.call \in Calls /\ KnowsEarlier'
      /\ \A k \in Calls : IF k = host.call THEN host'.told[k] = "not run" ELSE host'.told[k] = host.told[k]
  BY <1>1, ToldKnows
<1>3. \A k \in Calls : host'.told[k] = "done" => host.told[k] = "done"
  BY <1>2
<1>4. \A k \in Calls : Undecided(host', k) => Undecided(host, k) /\ ~Deciding(k)
  BY <1>1, <1>2 DEF Undecided, Deciding
<1> QED
  BY <1>1, <1>2, <1>3, <1>4, HostFacts, HostKeeps

(* The loop goes on to a place where it makes no call.                      *)
LEMMA LeavesKeeps ==
  ASSUME IInv, UNCHANGED Device, host' \in HostType, host'.call = host.call, host'.told = host.told,
         host.phase \in {"thinking", "assessing", "asking", "ending", "finishing"},
         host'.phase \in {"ending", "finishing", "over", "abandoned", "stuck"},
         result' \in [Requests -> Results], net' \subseteq NetType, faults' \in Nat,
         \A k \in Calls : result'[Executing(k)] = result[Executing(k)],
         \A m \in net' : m \in net \/ (m.type = "request" /\ \A k \in Calls : m.of # Executing(k))
  PROVE  IInv'
<1>1. KnowsEarlier'
  BY DEF IInv, KnowsEarlier
<1>2. \A k \in Calls : Undecided(host', k) => Undecided(host, k) /\ ~Deciding(k)
  BY DEF Undecided, Deciding
<1> QED
  BY <1>1, <1>2, HostKeeps

LEMMA AssessedKeeps == IInv /\ Assessed => IInv'
<1> SUFFICES ASSUME IInv, Assessed PROVE IInv'
  OBVIOUS
<1>0. host.phase = "assessing" /\ host \in HostType /\ UNCHANGED Device
  BY HostFacts DEF Assessed
<1>1. CASE /\ host' = [host EXCEPT !.phase = "asking"]
           /\ UNCHANGED <<result, net, faults>>
  <2>1. /\ host' \in HostType /\ host'.phase = "asking"
        /\ host'.call = host.call /\ host'.told = host.told
    BY <1>0, <1>1 DEF HostType
  <2>2. KnowsEarlier'
    BY <1>0, <2>1 DEF IInv, KnowsEarlier
  <2>3. \A k \in Calls : Undecided(host', k) => Undecided(host, k) /\ ~Deciding(k)
    BY <1>0, <2>1 DEF Undecided, Deciding
  <2> QED
    BY <1>0, <1>1, <2>1, <2>2, <2>3, HostFacts, HostKeeps
<1>2. CASE /\ host' = [host EXCEPT !.phase = "thinking", !.told[host.call] = "not run"]
           /\ UNCHANGED <<result, net, faults>>
  BY <1>0, <1>2, NotRunKeeps
<1>3. CASE /\ host' = [host EXCEPT !.phase = "ending"]
           /\ UNCHANGED <<result, net, faults>>
  <2>1. /\ host' \in HostType /\ host'.phase = "ending"
        /\ host'.call = host.call /\ host'.told = host.told
    BY <1>0, <1>3 DEF HostType
  <2> QED
    BY <1>0, <1>3, <2>1, HostFacts, LeavesKeeps
<1> QED
  BY <1>1, <1>2, <1>3 DEF Assessed

LEMMA DenyKeeps == IInv /\ Deny => IInv'
BY NotRunKeeps DEF Deny

LEMMA ExecuteKeeps == IInv /\ Execute => IInv'
<1> SUFFICES ASSUME IInv, Execute PROVE IInv'
  OBVIOUS
<1>0. host.phase = "asking" /\ host \in HostType /\ host.call \in Nat /\ UNCHANGED Device
  BY HostFacts DEF Execute
<1>1. CASE host.cancelled
  BY <1>0, <1>1, NotRunKeeps DEF Execute
<1>2. CASE ~host.cancelled
  <2>1. host' = [host EXCEPT !.phase = "executing"] /\ Ask({Executing(host.call)})
    BY <1>2 DEF Execute, Executing
  <2>2. /\ host' \in HostType /\ host'.phase = "executing"
        /\ host'.call = host.call /\ host'.told = host.told
    BY <1>0, <2>1 DEF HostType
  <2>3. host.call \in Calls /\ host.told[host.call] = "nothing"
    <3>1. host.call > 0 /\ host.told[host.call] = "nothing"
      BY <1>0 DEF IInv, KnowsEarlier
    <3>2. host.call \in 0..MaxCalls /\ MaxCalls \in Nat
      BY <1>0, RemoteConstants DEF HostType
    <3> QED
      BY <3>1, <3>2 DEF Calls
  <2>4. {Executing(host.call)} \in SUBSET Requests /\ TypeOK
    BY <2>3, RequestFacts DEF IInv
  <2>5. /\ result' \in [Requests -> Results] /\ net' \subseteq NetType /\ faults' \in Nat
        /\ \A q \in Requests : IF q = Executing(host.call) THEN result'[q] \in {"pending", "error"}
                               ELSE result'[q] = result[q]
        /\ \A m \in net' : m \in net \/ (m.type = "request" /\ m.of = Executing(host.call))
    BY <2>1, <2>4, AskFacts
  <2>6. \A k \in Calls : \/ result'[Executing(k)] = result[Executing(k)]
                         \/ result'[Executing(k)] \in {"pending", "error"} /\ Deciding(k)
    <3> SUFFICES ASSUME NEW k \in Calls
                 PROVE  \/ result'[Executing(k)] = result[Executing(k)]
                        \/ result'[Executing(k)] \in {"pending", "error"} /\ Deciding(k)
      OBVIOUS
    <3>1. CASE k = host.call
      BY <1>0, <2>2, <2>5, <3>1, RequestFacts DEF Deciding
    <3>2. CASE k # host.call
      <4>1. Executing(k) # Executing(host.call) /\ Executing(k) \in Requests
        BY <2>3, <3>2, RequestFacts
      <4> QED
        BY <2>5, <4>1
    <3> QED
      BY <3>1, <3>2
  <2>7. \A m \in net' : \/ m \in net
                        \/ m.type = "request" /\ \A k \in Calls : m.of = Executing(k) => Deciding(k)
    <3> SUFFICES ASSUME NEW m \in net', m \notin net, NEW k \in Calls, m.of = Executing(k)
                 PROVE  Deciding(k)
      BY <2>5
    <3>1. Executing(k) = Executing(host.call)
      BY <2>5
    <3>2. k = host.call
      BY <2>3, <3>1, RequestFacts
    <3> QED
      BY <1>0, <2>2, <3>2 DEF Deciding
  <2>8. \A k \in Calls : Undecided(host', k) => Undecided(host, k) /\ ~Deciding(k)
    <3> SUFFICES ASSUME NEW k \in Calls, Undecided(host', k)
                 PROVE  Undecided(host, k) /\ ~Deciding(k)
      OBVIOUS
    <3>1. k > host.call \/ host.told[k] = "not run"
      BY <2>2 DEF Undecided
    <3>2. k # host.call
      <4>1. k \in Nat
        BY CallsNat
      <4>2. CASE k > host.call
        BY <1>0, <4>1, <4>2
      <4>3. CASE host.told[k] = "not run"
        BY <2>3, <4>3
      <4> QED
        BY <3>1, <4>2, <4>3
    <3> QED
      BY <3>1, <3>2 DEF Undecided, Deciding
  <2>9. KnowsEarlier'
    BY <1>0, <2>2 DEF IInv, KnowsEarlier
  <2> QED
    BY <1>0, <2>2, <2>5, <2>6, <2>7, <2>8, <2>9, HostKeeps
<1> QED
  BY <1>1, <1>2

LEMMA ExecutedKeeps == IInv /\ Executed => IInv'
<1> SUFFICES ASSUME IInv, Executed PROVE IInv'
  OBVIOUS
<1>0. host.phase = "executing" /\ host \in HostType /\ UNCHANGED Device
  BY HostFacts DEF Executed
<1>1. CASE /\ result[Request("execute", host.call)] = "ok"
           /\ host' = [host EXCEPT !.phase = "thinking", !.told[host.call] = "done"]
           /\ UNCHANGED <<result, net, faults>>
  <2>1. /\ host' \in HostType /\ host'.phase = "thinking" /\ host'.call = host.call
        /\ host'.told = [host.told EXCEPT ![host.call] = "done"]
    BY <1>0, <1>1 DEF HostType
  <2>2. /\ host.call \in Calls /\ KnowsEarlier'
        /\ \A k \in Calls : IF k = host.call THEN host'.told[k] = "done" ELSE host'.told[k] = host.told[k]
    BY <1>0, <2>1, ToldKnows
  <2>3. \A k \in Calls : host'.told[k] = "done" => host.told[k] = "done" \/ result[Executing(k)] = "ok"
    BY <1>1, <2>2 DEF Executing
  <2>4. \A k \in Calls : Undecided(host', k) => Undecided(host, k) /\ ~Deciding(k)
    BY <1>0, <2>1, <2>2 DEF Undecided, Deciding
  <2> QED
    BY <1>0, <1>1, <2>1, <2>2, <2>3, <2>4, HostFacts, HostKeeps
<1>2. CASE /\ host' = [Stop(host) EXCEPT !.phase = "ending", !.told[host.call] = "unknown"]
           /\ Ask({Request("cancel", 2)})
  <2>1. /\ host' \in HostType /\ host'.phase = "ending" /\ host'.call = host.call
        /\ host'.told = [host.told EXCEPT ![host.call] = "unknown"]
    BY <1>0, <1>2 DEF HostType, Stop
  <2>2. /\ host.call \in Calls /\ KnowsEarlier'
        /\ \A k \in Calls : IF k = host.call THEN host'.told[k] = "unknown" ELSE host'.told[k] = host.told[k]
    BY <1>0, <2>1, ToldKnows
  <2>3. /\ result' \in [Requests -> Results] /\ net' \subseteq NetType /\ faults' \in Nat
        /\ \A k \in Calls : result'[Executing(k)] = result[Executing(k)]
        /\ \A m \in net' : m \in net \/ (m.type = "request" /\ \A k \in Calls : m.of # Executing(k))
    <3>1. {Request("cancel", 2)} \in SUBSET Requests
      BY RequestFacts
    <3> QED
      BY <1>2, <3>1, AsksNoTool, OthersAsked
  <2>4. \A k \in Calls : host'.told[k] = "done" => host.told[k] = "done"
    BY <2>2
  <2>5. \A k \in Calls : Undecided(host', k) => Undecided(host, k) /\ ~Deciding(k)
    BY <1>0, <2>1, <2>2 DEF Undecided, Deciding
  <2> QED
    BY <1>0, <2>1, <2>2, <2>3, <2>4, <2>5, HostKeeps
<1> QED
  BY <1>1, <1>2 DEF Executed

LEMMA FinishKeeps == IInv /\ Finish => IInv'
<1> SUFFICES ASSUME IInv, Finish PROVE IInv'
  OBVIOUS
<1>1. /\ host.phase \in {"thinking", "ending"} /\ host' = [Stop(host) EXCEPT !.phase = "finishing"]
      /\ Ask({Request("artifacts", 0)}) /\ UNCHANGED Device
  BY DEF Finish
<1>2. /\ host' \in HostType /\ host'.phase = "finishing"
      /\ host'.call = host.call /\ host'.told = host.told
  BY <1>1, HostFacts DEF HostType, Stop
<1>3. /\ result' \in [Requests -> Results] /\ net' \subseteq NetType /\ faults' \in Nat
      /\ \A k \in Calls : result'[Executing(k)] = result[Executing(k)]
      /\ \A m \in net' : m \in net \/ (m.type = "request" /\ \A k \in Calls : m.of # Executing(k))
  <2>1. {Request("artifacts", 0)} \in SUBSET Requests
    BY RequestFacts
  <2> QED
    BY <1>1, <2>1, AsksNoTool, OthersAsked
<1> QED
  BY <1>1, <1>2, <1>3, LeavesKeeps

LEMMA FinishedKeeps == IInv /\ Finished => IInv'
<1> SUFFICES ASSUME IInv, Finished PROVE IInv'
  OBVIOUS
<1>1. /\ host.phase = "finishing" /\ host' = [host EXCEPT !.phase = "over"]
      /\ UNCHANGED <<result, net, faults, Device>>
  BY DEF Finished
<1>2. /\ host' \in HostType /\ host'.phase = "over"
      /\ host'.call = host.call /\ host'.told = host.told
  BY <1>1, HostFacts DEF HostType
<1> QED
  BY <1>1, <1>2, HostFacts, LeavesKeeps

LEMMA AbandonKeeps == IInv /\ Abandon => IInv'
<1> SUFFICES ASSUME IInv, Abandon PROVE IInv'
  OBVIOUS
<1>1. PICK left \in {"abandoned", "stuck"} : host' = [host EXCEPT !.phase = left]
  BY DEF Abandon
<1>2. /\ host.phase \in {"thinking", "asking", "ending"} /\ faults' = faults + 1
      /\ UNCHANGED <<result, net, Device>>
  BY DEF Abandon, Mishap
<1>3. /\ host' \in HostType /\ host'.phase = left
      /\ host'.call = host.call /\ host'.told = host.told
  BY <1>1, HostFacts DEF HostType
<1>4. faults' \in Nat
  BY <1>2, HostFacts
<1> QED
  BY <1>2, <1>3, <1>4, HostFacts, LeavesKeeps

LEMMA CancelKeeps == IInv /\ Cancel => IInv'
<1> SUFFICES ASSUME IInv, Cancel PROVE IInv'
  OBVIOUS
<1>0. host \in HostType /\ UNCHANGED Device
  BY HostFacts DEF Cancel
<1>1. /\ host' \in HostType /\ host'.phase = host.phase
      /\ host'.call = host.call /\ host'.told = host.told
  BY <1>0 DEF Cancel, Stop, HostType
<1>2. /\ result' \in [Requests -> Results] /\ net' \subseteq NetType /\ faults' \in Nat
      /\ \A k \in Calls : result'[Executing(k)] = result[Executing(k)]
      /\ \A m \in net' : m \in net \/ (m.type = "request" /\ \A k \in Calls : m.of # Executing(k))
  <2>1. CASE host.listening
    <3>1. Ask({Request("cancel", 1)}) /\ {Request("cancel", 1)} \in SUBSET Requests
      BY <2>1, RequestFacts DEF Cancel
    <3> QED
      BY <3>1, AsksNoTool, OthersAsked
  <2>2. CASE ~host.listening
    BY <2>2, HostFacts DEF Cancel
  <2> QED
    BY <2>1, <2>2
<1>3. KnowsEarlier'
  BY <1>1 DEF IInv, KnowsEarlier
<1>4. \A k \in Calls : Undecided(host', k) => Undecided(host, k) /\ ~Deciding(k)
  BY <1>1 DEF Undecided, Deciding
<1> QED
  BY <1>0, <1>1, <1>2, <1>3, <1>4, HostKeeps

LEMMA RenewKeeps == IInv /\ Renew => IInv'
<1> SUFFICES ASSUME IInv, Renew PROVE IInv'
  OBVIOUS
<1>1. /\ net' = net \cup {Asking(Request("lease", 0))}
      /\ UNCHANGED <<host, result, faults, Device>>
  BY DEF Renew
<1>2. /\ Asking(Request("lease", 0)) \in NetType
      /\ Asking(Request("lease", 0)).type = "request"
      /\ \A k \in Calls : Asking(Request("lease", 0)).of # Executing(k)
  BY RequestFacts DEF Asking, NetType, Executing, Request
<1>3. net' \subseteq NetType
  BY <1>1, <1>2, HostFacts
<1>4. \A m \in net' : m \in net \/ (m.type = "request" /\ \A k \in Calls : m.of # Executing(k))
  BY <1>1, <1>2
<1>5. KnowsEarlier'
  BY <1>1 DEF IInv, KnowsEarlier
<1>6. \A k \in Calls : Undecided(host', k) => Undecided(host, k) /\ ~Deciding(k)
  BY <1>1 DEF Undecided, Deciding
<1> QED
  BY <1>1, <1>3, <1>4, <1>5, <1>6, HostFacts, HostKeeps

---------------------------------------------------------------------------
(* Answers and timers of requests.                                          *)

LEMMA TakeAnswerKeeps == \A m \in net : IInv /\ TakeAnswer(m) => IInv'
<1> SUFFICES ASSUME NEW m \in net, IInv, TakeAnswer(m) PROVE IInv'
  OBVIOUS
<1>1. /\ m.type = "answer" /\ net' = net \ {m}
      /\ result' = IF result[m.of] = "pending" THEN [result EXCEPT ![m.of] = m.value] ELSE result
      /\ UNCHANGED <<host, faults, Device>>
  BY DEF TakeAnswer
<1>2. /\ result \in [Requests -> Results] /\ net \subseteq NetType /\ faults \in Nat
  BY HostFacts
<1>3. m.of \in Requests /\ m.value \in {"ok", "blocked", "error"}
  BY <1>1, <1>2 DEF NetType
<1>4. result' \in [Requests -> Results]
  BY <1>1, <1>2, <1>3 DEF Results
<1>5. ASSUME NEW k \in Calls
      PROVE  \/ result'[Executing(k)] = result[Executing(k)]
             \/ /\ result[Executing(k)] = "pending"
                /\ result'[Executing(k)] = "ok" => journal[Executing(k)] = "ok"
  <2>1. Executing(k) \in Requests
    BY RequestFacts
  <2>2. CASE m.of = Executing(k) /\ result[m.of] = "pending"
    <3>1. result'[Executing(k)] = m.value
      BY <1>1, <1>2, <2>1, <2>2
    <3>2. m.value = "ok" => journal[Executing(k)] = "ok"
      BY <1>1, <2>2 DEF IInv, Answered
    <3> QED
      BY <2>2, <3>1, <3>2
  <2>3. CASE m.of # Executing(k) \/ result[m.of] # "pending"
    BY <1>1, <1>2, <2>1, <2>3
  <2> QED
    BY <2>2, <2>3
<1> QED
  BY <1>1, <1>2, <1>4, <1>5, ResultKeeps

LEMMA TimeOutKeeps == \A q \in Requests : IInv /\ TimeOut(q) => IInv'
<1> SUFFICES ASSUME NEW q \in Requests, IInv, TimeOut(q) PROVE IInv'
  OBVIOUS
<1>1. /\ result[q] = "pending"
      /\ faults' = IF OnTheWay(q) THEN faults + 1 ELSE faults
      /\ result' = [result EXCEPT ![q] = "error"]
      /\ UNCHANGED <<host, net, Device>>
  BY DEF TimeOut
<1>2. /\ result \in [Requests -> Results] /\ faults \in Nat
  BY HostFacts
<1>3. result' \in [Requests -> Results] /\ faults' \in Nat
  BY <1>1, <1>2 DEF Results
<1>4. \A k \in Calls : \/ result'[Executing(k)] = result[Executing(k)]
                       \/ /\ result[Executing(k)] = "pending"
                          /\ result'[Executing(k)] = "ok" => journal[Executing(k)] = "ok"
  BY <1>1, <1>2
<1> QED
  BY <1>1, <1>3, <1>4, ResultKeeps

---------------------------------------------------------------------------
(* The steps of the device, and what happens to the messages.               *)

ExecType == [registered : BOOLEAN, aborted : BOOLEAN, fresh : BOOLEAN, grants : [Calls -> Nat]]
ToolType == [Calls -> {"idle", "checked", "doomed", "running", "aborted", "job"}]
JournalType == [Requests -> {"none", "running", "ok", "error"}]
Online == [host : BOOLEAN, device : BOOLEAN]

LEMMA DeviceFacts ==
  ASSUME IInv
  PROVE  /\ exec \in ExecType /\ tool \in ToolType /\ journal \in JournalType /\ online \in Online
         /\ began \in [Calls -> Nat] /\ ended \in [Calls -> Nat] /\ NoExec \in ExecType
BY DEF IInv, TypeOK, ExecType, ToolType, JournalType, Online, NoExec

LEMMA AnswerFacts ==
  ASSUME IInv, NEW m \in net, m.type = "request", NEW v \in {"ok", "blocked", "error"}, Answer(m, v)
  PROVE  /\ m.of \in Requests /\ net' \subseteq NetType
         /\ \A a \in net' : a \in net \/ (a.type = "answer" /\ a.of = m.of /\ a.value = v)
<1>1. net \subseteq NetType
  BY HostFacts
<1>2. m.of \in Requests
  BY <1>1 DEF NetType
<1>3. \A a \in Sent(m.of, v) : a \in NetType /\ a.type = "answer" /\ a.of = m.of /\ a.value = v
  BY <1>2 DEF Sent, NetType
<1>4. net' = (net \ {m}) \cup Sent(m.of, v)
  BY DEF Answer
<1> QED
  BY <1>1, <1>2, <1>3, <1>4

(* The calls are where they were, as far as the journal knows.              *)
Alike(t, u) ==
  \A k \in Calls : (t[k] \in Busy <=> u[k] \in Busy) /\ (t[k] \in Ready => u[k] \in Ready)

(* No tool begins or returns.                                               *)
LEMMA QuietKeeps ==
  ASSUME IInv, UNCHANGED <<host, result, began, ended>>,
         online' \in Online, exec' \in ExecType, faults' \in Nat, net' \subseteq NetType,
         tool' \in ToolType, Alike(tool', tool),
         journal' \in JournalType, \A k \in Calls : journal'[Executing(k)] = journal[Executing(k)],
         journal'[Request("prepare", 0)] = "running" => journal[Request("prepare", 0)] = "running",
         \A m \in net' :
           \/ m \in net
           \/ m.type = "request" /\ result[m.of] = "pending"
           \/ /\ m.type = "answer" /\ \E n \in net : n.of = m.of
              /\ \A k \in Calls : m.of = Executing(k) /\ m.value = "ok" => journal[Executing(k)] = "ok"
  PROVE  IInv'
<1>1. TypeOK'
  BY DEF IInv, TypeOK, Online, ExecType, NetType, ToolType, JournalType
<1>2. Journaled'
  <2> SUFFICES ASSUME NEW k \in Calls
               PROVE  /\ began[k] <= 1 /\ (tool'[k] \in Ready => began[k] = 0)
                      /\ journal'[Executing(k)] = "none" => began[k] = 0 /\ ended[k] = 0
                      /\ tool'[k] \in Busy <=> journal'[Executing(k)] = "running"
                      /\ journal'[Executing(k)] = "running" => ended[k] = 0
                      /\ journal'[Executing(k)] = "ok" => ended[k] = 1
    BY DEF IInv, Journaled
  <2>1. (tool'[k] \in Busy <=> tool[k] \in Busy) /\ (tool'[k] \in Ready => tool[k] \in Ready)
    BY DEF Alike
  <2> QED
    BY <2>1 DEF IInv, Journaled
<1> QED
  BY <1>1, <1>2, DeviceKeeps

LEMMA StayAlike == tool' = tool => Alike(tool', tool)
BY DEF Alike

LEMMA AbortedFacts ==
  ASSUME IInv
  PROVE  Aborted \in ToolType /\ Alike(Aborted, tool)
<1>1. tool \in ToolType
  BY DeviceFacts
<1>2. \A k \in Calls : Aborted[k] = CASE tool[k] = "running" -> "aborted"
                                     [] tool[k] = "checked" -> "doomed"
                                     [] OTHER -> tool[k]
  BY DEF Aborted
<1>3. Aborted \in ToolType
  BY <1>1 DEF Aborted, ToolType
<1>4. Alike(Aborted, tool)
  BY <1>2 DEF Alike, Busy, Ready
<1> QED
  BY <1>3, <1>4

(* An answer to a request that is not about a tool.                         *)
LEMMA OtherAnswer ==
  ASSUME IInv, NEW m \in net, m.type = "request", \A k \in Calls : m.of # Executing(k),
         NEW v \in {"ok", "blocked", "error"}, Answer(m, v)
  PROVE  /\ m.of \in Requests /\ net' \subseteq NetType
         /\ \A a \in net' :
              \/ a \in net
              \/ a.type = "request" /\ result[a.of] = "pending"
              \/ /\ a.type = "answer" /\ \E n \in net : n.of = a.of
                 /\ \A k \in Calls : a.of = Executing(k) /\ a.value = "ok" => journal[Executing(k)] = "ok"
BY AnswerFacts

LEMMA ArrivesFacts ==
  ASSUME NEW m, NEW op, Arrives(m, op), op # "execute"
  PROVE  m \in net /\ m.type = "request" /\ \A k \in Calls : m.of # Executing(k)
BY RequestFacts DEF Arrives

LEMMA TakePrepareKeeps == \A m \in net : IInv /\ TakePrepare(m) => IInv'
<1> SUFFICES ASSUME NEW m \in net, IInv, TakePrepare(m) PROVE IInv'
  OBVIOUS
<1>1. /\ m.type = "request" /\ \A k \in Calls : m.of # Executing(k)
      /\ UNCHANGED <<host, result, faults, online, tool, began, ended>>
  BY ArrivesFacts DEF TakePrepare, Host
<1>2. /\ exec \in ExecType /\ tool \in ToolType /\ journal \in JournalType /\ online \in Online
      /\ NoExec \in ExecType /\ faults \in Nat
  BY DeviceFacts, HostFacts
<1>3. m.of = Request("prepare", 0) /\ m.of \in Requests
  <2>1. m.of \in Requests
    BY HostFacts, <1>1 DEF NetType
  <2>2. m.of.op = "prepare"
    BY DEF TakePrepare, Arrives
  <2> QED
    BY <2>1, <2>2 DEF Requests, Request
<1>4. PICK v \in {"ok", "error"} :
        /\ Answer(m, v)
        /\ \/ /\ exec' = IF v = "ok" THEN [NoExec EXCEPT !.registered = TRUE, !.fresh = TRUE] ELSE exec
              /\ journal' = [journal EXCEPT ![m.of] = v]
           \/ UNCHANGED <<exec, journal>>
  <2>1. CASE journal[m.of] = "none"
    BY <2>1 DEF TakePrepare
  <2>2. CASE journal[m.of] # "none"
    <3>1. Answer(m, journal[m.of]) /\ UNCHANGED <<exec, journal>>
      BY <2>2 DEF TakePrepare
    <3>2. journal[m.of] \in {"ok", "error"}
      BY <1>2, <1>3, <2>2 DEF JournalType, IInv, Journaled
    <3> QED
      BY <3>1, <3>2
  <2> QED
    BY <2>1, <2>2
<1>5. exec' \in ExecType
  <2>1. [NoExec EXCEPT !.registered = TRUE, !.fresh = TRUE] \in ExecType
    BY <1>2 DEF ExecType
  <2> QED
    BY <1>2, <1>4, <2>1
<1>6. /\ journal' \in JournalType /\ \A k \in Calls : journal'[Executing(k)] = journal[Executing(k)]
      /\ journal'[m.of] = "running" => journal[m.of] = "running"
  <2>1. CASE journal' = journal
    BY <1>2, <2>1
  <2>2. CASE journal' = [journal EXCEPT ![m.of] = v]
    <3>1. journal' \in JournalType /\ journal'[m.of] = v
      BY <1>2, <1>3, <2>2 DEF JournalType
    <3>2. \A k \in Calls : journal'[Executing(k)] = journal[Executing(k)]
      BY <1>1, <1>2, <2>2, RequestFacts DEF JournalType
    <3> QED
      BY <3>1, <3>2
  <2> QED
    BY <1>4, <2>1, <2>2
<1> QED
  BY <1>1, <1>2, <1>3, <1>4, <1>5, <1>6, OtherAnswer, StayAlike, QuietKeeps

LEMMA TakeLeaseKeeps == \A m \in net : IInv /\ TakeLease(m) => IInv'
<1> SUFFICES ASSUME NEW m \in net, IInv, TakeLease(m) PROVE IInv'
  OBVIOUS
<1>1. /\ exec' = IF exec.registered /\ ~exec.aborted THEN [exec EXCEPT !.fresh = TRUE] ELSE exec
      /\ net' = net \ {m}
      /\ UNCHANGED <<host, result, faults, online, tool, journal, began, ended>>
  BY DEF TakeLease, Host
<1>2. /\ exec \in ExecType /\ tool \in ToolType /\ journal \in JournalType /\ online \in Online
      /\ faults \in Nat /\ net \subseteq NetType
  BY DeviceFacts, HostFacts
<1>3. exec' \in ExecType
  BY <1>1, <1>2 DEF ExecType
<1> QED
  BY <1>1, <1>2, <1>3, StayAlike, QuietKeeps

LEMMA StopsKeeps ==
  ASSUME IInv, NEW m \in net, m.type = "request", \A k \in Calls : m.of # Executing(k),
         exec' \in ExecType, tool' = IF exec.registered THEN Aborted ELSE tool,
         net' = net \ {m} \/ \E v \in {"ok", "error"} : Answer(m, v),
         UNCHANGED <<host, result, faults, online, journal, began, ended>>
  PROVE  IInv'
<1>1. /\ tool \in ToolType /\ journal \in JournalType /\ online \in Online /\ faults \in Nat
  BY DeviceFacts, HostFacts
<1>2. tool' \in ToolType /\ Alike(tool', tool)
  BY <1>1, AbortedFacts, StayAlike
<1>3. CASE net' = net \ {m}
  <2>1. net' \subseteq NetType /\ \A a \in net' : a \in net
    BY <1>3, HostFacts
  <2> QED
    BY <1>1, <1>2, <2>1, QuietKeeps
<1>4. CASE \E v \in {"ok", "error"} : Answer(m, v)
  BY <1>1, <1>2, <1>4, OtherAnswer, QuietKeeps
<1> QED
  BY <1>3, <1>4

LEMMA TakeCancelKeeps == \A m \in net : IInv /\ TakeCancel(m) => IInv'
<1> SUFFICES ASSUME NEW m \in net, IInv, TakeCancel(m) PROVE IInv'
  OBVIOUS
<1>1. /\ m.type = "request" /\ \A k \in Calls : m.of # Executing(k)
      /\ exec' = IF exec.registered THEN [exec EXCEPT !.aborted = TRUE] ELSE exec
      /\ tool' = IF exec.registered THEN Aborted ELSE tool
      /\ net' = net \ {m}
      /\ UNCHANGED <<host, result, faults, online, journal, began, ended>>
  BY ArrivesFacts DEF TakeCancel, Host
<1>2. exec' \in ExecType
  BY <1>1, DeviceFacts DEF ExecType
<1> QED
  BY <1>1, <1>2, StopsKeeps

LEMMA TakeArtifactsKeeps == \A m \in net : IInv /\ TakeArtifacts(m) => IInv'
<1> SUFFICES ASSUME NEW m \in net, IInv, TakeArtifacts(m) PROVE IInv'
  OBVIOUS
<1>1. /\ m.type = "request" /\ \A k \in Calls : m.of # Executing(k)
      /\ exec' = NoExec
      /\ tool' = IF exec.registered THEN Aborted ELSE tool
      /\ Answer(m, IF exec.registered THEN "ok" ELSE "error")
      /\ UNCHANGED <<host, result, faults, online, journal, began, ended>>
  BY ArrivesFacts DEF TakeArtifacts, Host
<1>2. exec' \in ExecType
  BY <1>1, DeviceFacts
<1>3. PICK v \in {"ok", "error"} : Answer(m, v)
  BY <1>1
<1> QED
  BY <1>1, <1>2, <1>3, StopsKeeps

LEMMA TakeAssessKeeps == \A m \in net : IInv /\ TakeAssess(m) => IInv'
<1> SUFFICES ASSUME NEW m \in net, IInv, TakeAssess(m) PROVE IInv'
  OBVIOUS
<1>1. /\ m.type = "request" /\ \A k \in Calls : m.of # Executing(k)
      /\ UNCHANGED <<host, result, faults, online, tool, journal, began, ended>>
  BY ArrivesFacts DEF TakeAssess, Host
<1>2. /\ exec \in ExecType /\ tool \in ToolType /\ journal \in JournalType /\ online \in Online
      /\ faults \in Nat
  BY DeviceFacts, HostFacts
<1>3. PICK v \in {"ok", "blocked", "error"} :
        /\ Answer(m, v)
        /\ exec' = exec \/ exec' = [exec EXCEPT !.grants[m.of.k] = @ + 1]
  BY DEF TakeAssess
<1>4. exec' \in ExecType
  BY <1>2, <1>3 DEF ExecType
<1> QED
  BY <1>1, <1>2, <1>3, <1>4, OtherAnswer, StayAlike, QuietKeeps

LEMMA TakeExecuteKeeps == \A m \in net : IInv /\ TakeExecute(m) => IInv'
<1> SUFFICES ASSUME NEW m \in net, IInv, TakeExecute(m) PROVE IInv'
  OBVIOUS
<1>0. m.type = "request" /\ m.of.op = "execute" /\ UNCHANGED <<host, result, faults, online, began, ended>>
  BY DEF TakeExecute, Arrives, Host
<1>1. /\ exec \in ExecType /\ tool \in ToolType /\ journal \in JournalType /\ online \in Online
      /\ began \in [Calls -> Nat] /\ ended \in [Calls -> Nat]
      /\ faults \in Nat /\ net \subseteq NetType
  BY DeviceFacts, HostFacts
<1>2. PICK k \in Calls : m.of = Executing(k) /\ m.of.k = k
  <2>1. m.of \in Requests
    BY <1>0, <1>1 DEF NetType
  <2>2. m.of.k \in Calls /\ m.of = Executing(m.of.k)
    BY <1>0, <2>1, RequestFacts
  <2> QED
    BY <2>2
<1>3. Executing(k) \in Requests /\ \A j \in Calls : Executing(j) = Executing(k) => j = k
  BY RequestFacts
<1>4. CASE journal[m.of] = "none" /\ Usable /\ exec.grants[k] > 0
  <2>1. /\ exec' = [exec EXCEPT !.grants[k] = @ - 1]
        /\ journal' = [journal EXCEPT ![Executing(k)] = "running"]
        /\ tool' = [tool EXCEPT ![k] = "checked"]
        /\ net' = net \ {m}
    BY <1>2, <1>4 DEF TakeExecute
  <2>2. TypeOK'
    <3>1. exec' \in ExecType
      <4>1. exec.grants[k] \in Nat /\ exec.grants[k] - 1 \in Nat
        BY <1>1, <1>4 DEF ExecType
      <4> QED
        BY <1>1, <2>1, <4>1 DEF ExecType
    <3>2. tool' \in ToolType
      BY <1>1, <2>1 DEF ToolType
    <3>3. journal' \in JournalType
      BY <1>1, <2>1 DEF JournalType
    <3> QED
      BY <1>0, <2>1, <3>1, <3>2, <3>3 DEF IInv, TypeOK, ExecType, ToolType, JournalType
  <2>3. \A j \in Calls :
          IF j = k THEN journal'[Executing(j)] = "running" /\ tool'[j] = "checked"
          ELSE journal'[Executing(j)] = journal[Executing(j)] /\ tool'[j] = tool[j]
    <3> SUFFICES ASSUME NEW j \in Calls
                 PROVE  IF j = k THEN journal'[Executing(j)] = "running" /\ tool'[j] = "checked"
                        ELSE journal'[Executing(j)] = journal[Executing(j)] /\ tool'[j] = tool[j]
      OBVIOUS
    <3>1. journal'[Executing(j)] = IF j = k THEN "running" ELSE journal[Executing(j)]
      <4>1. Executing(j) \in Requests
        BY RequestFacts
      <4> QED
        BY <1>1, <1>3, <2>1, <4>1 DEF JournalType
    <3>2. tool'[j] = IF j = k THEN "checked" ELSE tool[j]
      BY <1>1, <2>1 DEF ToolType
    <3> QED
      BY <3>1, <3>2
  <2>4. Journaled'
    <3> SUFFICES ASSUME NEW j \in Calls
                 PROVE  /\ began[j] <= 1 /\ (tool'[j] \in Ready => began[j] = 0)
                        /\ journal'[Executing(j)] = "none" => began[j] = 0 /\ ended[j] = 0
                        /\ tool'[j] \in Busy <=> journal'[Executing(j)] = "running"
                        /\ journal'[Executing(j)] = "running" => ended[j] = 0
                        /\ journal'[Executing(j)] = "ok" => ended[j] = 1
      <4>1. journal'[Request("prepare", 0)] # "running"
        BY <1>1, <1>2, <2>1, RequestFacts DEF IInv, Journaled, JournalType
      <4> QED
        BY <1>0, <4>1 DEF Journaled
    <3>1. CASE j = k
      <4>1. began[j] = 0 /\ ended[j] = 0
        BY <1>2, <1>4, <3>1 DEF IInv, Journaled
      <4> QED
        BY <2>3, <3>1, <4>1 DEF Busy, Ready
    <3>2. CASE j # k
      BY <2>3, <3>2 DEF IInv, Journaled
    <3> QED
      BY <3>1, <3>2
  <2>5. \A j \in Calls : journal[Executing(j)] = "ok" => journal'[Executing(j)] = "ok"
    BY <1>2, <1>4, <2>3
  <2>6. \A j \in Calls : journal[Executing(j)] = "none" /\ (\A n \in net : n.of # Executing(j))
                          => journal'[Executing(j)] = "none"
    BY <1>2, <2>3
  <2> QED
    BY <1>0, <2>1, <2>2, <2>4, <2>5, <2>6, DeviceKeeps
<1>5. CASE ~(journal[m.of] = "none" /\ Usable /\ exec.grants[k] > 0)
  <2>1. /\ IF journal[m.of] = "running" THEN net' = net \ {m}
           ELSE Answer(m, IF journal[m.of] = "ok" THEN "ok" ELSE "error")
        /\ journal' = IF journal[m.of] = "none" THEN [journal EXCEPT ![m.of] = "error"] ELSE journal
        /\ UNCHANGED <<exec, tool>>
    BY <1>2, <1>5 DEF TakeExecute
  <2>2. /\ net' \subseteq NetType
        /\ \A a \in net' :
             \/ a \in net
             \/ /\ a.type = "answer" /\ \E n \in net : n.of = a.of
                /\ \A j \in Calls : a.of = Executing(j) /\ a.value = "ok" => journal[Executing(j)] = "ok"
    <3>1. CASE journal[m.of] = "running"
      BY <1>1, <2>1, <3>1
    <3>2. CASE journal[m.of] # "running"
      <4>1. PICK v \in {"ok", "error"} : Answer(m, v) /\ (v = "ok" => journal[m.of] = "ok")
        BY <2>1, <3>2
      <4>2. /\ net' \subseteq NetType
            /\ \A a \in net' : a \in net \/ (a.type = "answer" /\ a.of = m.of /\ a.value = v)
        BY <1>0, <4>1, AnswerFacts
      <4> QED
        BY <4>1, <4>2
    <3> QED
      BY <3>1, <3>2
  <2>3. CASE journal[m.of] # "none"
    BY <1>0, <1>1, <2>1, <2>2, <2>3, StayAlike, QuietKeeps
  <2>4. CASE journal[m.of] = "none"
    <3>1. journal' = [journal EXCEPT ![Executing(k)] = "error"]
      BY <1>2, <2>1, <2>4
    <3>2. \A j \in Calls : journal'[Executing(j)] = IF j = k THEN "error" ELSE journal[Executing(j)]
      <4> SUFFICES ASSUME NEW j \in Calls
                   PROVE  journal'[Executing(j)] = IF j = k THEN "error" ELSE journal[Executing(j)]
        OBVIOUS
      <4>1. Executing(j) \in Requests
        BY RequestFacts
      <4> QED
        BY <1>1, <1>3, <3>1, <4>1 DEF JournalType
    <3>3. TypeOK'
      <4>1. journal' \in JournalType
        BY <1>1, <3>1 DEF JournalType
      <4> QED
        BY <1>0, <2>1, <2>2, <4>1 DEF IInv, TypeOK, JournalType, NetType
    <3>4. Journaled'
      <4>1. journal'[Request("prepare", 0)] # "running"
        BY <1>1, <3>1, RequestFacts DEF IInv, Journaled, JournalType
      <4> QED
        BY <1>0, <1>2, <2>1, <2>4, <3>2, <4>1 DEF IInv, Journaled
    <3>5. \A j \in Calls : journal[Executing(j)] = "ok" => journal'[Executing(j)] = "ok"
      BY <1>2, <2>4, <3>2
    <3>6. \A j \in Calls : journal[Executing(j)] = "none" /\ (\A n \in net : n.of # Executing(j))
                            => journal'[Executing(j)] = "none"
      BY <1>2, <3>2
    <3>7. \A a \in net' :
            \/ a \in net
            \/ /\ a.type = "answer" /\ \E n \in net : n.of = a.of
               /\ \A j \in Calls : a.of = Executing(j) /\ a.value = "ok" => journal'[Executing(j)] = "ok"
      BY <2>2, <3>5
    <3> QED
      BY <1>0, <3>3, <3>4, <3>5, <3>6, <3>7, DeviceKeeps
  <2> QED
    BY <2>3, <2>4
<1> QED
  BY <1>4, <1>5

(* A call returns, or is refused when it was about to begin.                *)
LEMMA RepliedKeeps ==
  ASSUME IInv, NEW k \in Calls, NEW v \in {"ok", "error"}, NEW left \in {"idle", "job"},
         tool[k] \in Busy, tool' = [tool EXCEPT ![k] = left],
         ended' = [ended EXCEPT ![k] = @ + 1] \/ (v = "error" /\ ended' = ended),
         Replied(k, v), faults' \in Nat,
         UNCHANGED <<host, result, online, exec, began>>
  PROVE  IInv'
<1>0. /\ journal' = [journal EXCEPT ![Executing(k)] = v]
      /\ net' = net \cup Sent(Executing(k), v)
  BY DEF Replied, Executing
<1>1. /\ tool \in ToolType /\ journal \in JournalType /\ ended \in [Calls -> Nat] /\ net \subseteq NetType
  BY DeviceFacts, HostFacts
<1>2. Executing(k) \in Requests /\ \A j \in Calls : Executing(j) = Executing(k) => j = k
  BY RequestFacts
<1>3. \A a \in Sent(Executing(k), v) :
        a \in NetType /\ a.type = "answer" /\ a.of = Executing(k) /\ a.value = v
  BY <1>2 DEF Sent, NetType
<1>4. \A j \in Calls :
        /\ journal'[Executing(j)] = IF j = k THEN v ELSE journal[Executing(j)]
        /\ tool'[j] = IF j = k THEN left ELSE tool[j]
        /\ j # k => ended'[j] = ended[j]
        /\ v = "ok" => ended'[k] = ended[k] + 1
  <2> SUFFICES ASSUME NEW j \in Calls
               PROVE  /\ journal'[Executing(j)] = IF j = k THEN v ELSE journal[Executing(j)]
                      /\ tool'[j] = IF j = k THEN left ELSE tool[j]
                      /\ j # k => ended'[j] = ended[j]
                      /\ v = "ok" => ended'[k] = ended[k] + 1
    OBVIOUS
  <2>1. journal'[Executing(j)] = IF j = k THEN v ELSE journal[Executing(j)]
    <3>1. Executing(j) \in Requests
      BY RequestFacts
    <3> QED
      BY <1>0, <1>1, <1>2, <3>1 DEF JournalType
  <2>2. tool'[j] = IF j = k THEN left ELSE tool[j]
    BY <1>1 DEF ToolType
  <2>3. (j # k => ended'[j] = ended[j]) /\ (v = "ok" => ended'[k] = ended[k] + 1)
    BY <1>1
  <2> QED
    BY <2>1, <2>2, <2>3
<1>5. journal[Executing(k)] = "running" /\ ended[k] = 0 /\ ended[k] + 1 = 1
  BY DEF IInv, Journaled
<1>6. TypeOK'
  <2>1. tool' \in ToolType
    BY <1>1 DEF ToolType
  <2>2. journal' \in JournalType
    BY <1>0, <1>1 DEF JournalType
  <2>3. ended' \in [Calls -> Nat]
    BY <1>1
  <2>4. net' \subseteq NetType
    BY <1>0, <1>1, <1>3
  <2> QED
    BY <2>1, <2>2, <2>3, <2>4 DEF IInv, TypeOK, NetType, ToolType, JournalType
<1>7. Journaled'
  <2> SUFFICES ASSUME NEW j \in Calls
               PROVE  /\ began[j] <= 1 /\ (tool'[j] \in Ready => began[j] = 0)
                      /\ journal'[Executing(j)] = "none" => began[j] = 0 /\ ended'[j] = 0
                      /\ tool'[j] \in Busy <=> journal'[Executing(j)] = "running"
                      /\ journal'[Executing(j)] = "running" => ended'[j] = 0
                      /\ journal'[Executing(j)] = "ok" => ended'[j] = 1
    <3>1. journal'[Request("prepare", 0)] # "running"
      BY <1>0, <1>1, RequestFacts DEF IInv, Journaled, JournalType
    <3> QED
      BY <3>1 DEF Journaled
  <2>1. CASE j = k
    BY <1>4, <1>5, <2>1 DEF IInv, Journaled, Busy, Ready
  <2>2. CASE j # k
    BY <1>4, <2>2 DEF IInv, Journaled
  <2> QED
    BY <2>1, <2>2
<1>8. /\ \A j \in Calls : journal[Executing(j)] = "ok" => journal'[Executing(j)] = "ok"
      /\ \A j \in Calls : journal[Executing(j)] = "none" => journal'[Executing(j)] = "none"
  BY <1>4, <1>5
<1>9. \A a \in net' :
        \/ a \in net
        \/ /\ a.type = "answer"
           /\ \E j \in Calls : a.of = Executing(j) /\ tool[j] \in Busy
           /\ \A j \in Calls : a.of = Executing(j) /\ a.value = "ok" => journal'[Executing(j)] = "ok"
  <2> SUFFICES ASSUME NEW a \in net', a \notin net
               PROVE  /\ a.type = "answer"
                      /\ \E j \in Calls : a.of = Executing(j) /\ tool[j] \in Busy
                      /\ \A j \in Calls : a.of = Executing(j) /\ a.value = "ok" => journal'[Executing(j)] = "ok"
    OBVIOUS
  <2>1. a.type = "answer" /\ a.of = Executing(k) /\ a.value = v
    BY <1>0, <1>3
  <2> QED
    BY <1>0, <1>2, <1>4, <2>1
<1> QED
  BY <1>6, <1>7, <1>8, <1>9, DeviceKeeps

LEMMA ToolEndsKeeps == \A k \in Calls, v \in {"ok", "error"} : IInv /\ ToolEnds(k, v) => IInv'
<1> SUFFICES ASSUME NEW k \in Calls, NEW v \in {"ok", "error"}, IInv, ToolEnds(k, v) PROVE IInv'
  OBVIOUS
<1>1. /\ tool[k] \in Busy /\ Replied(k, v) /\ ended' = [ended EXCEPT ![k] = @ + 1]
      /\ UNCHANGED <<host, result, faults, online, exec, began>>
  BY DEF ToolEnds, Host, Busy
<1>2. PICK left \in {"idle", "job"} : tool' = [tool EXCEPT ![k] = left]
  BY DEF ToolEnds
<1> QED
  BY <1>1, <1>2, HostFacts, RepliedKeeps

LEMMA ToolRefusedKeeps == \A k \in Calls : IInv /\ ToolRefused(k) => IInv'
<1> SUFFICES ASSUME NEW k \in Calls, IInv, ToolRefused(k) PROVE IInv'
  OBVIOUS
<1>1. /\ tool[k] \in Busy /\ Replied(k, "error") /\ tool' = [tool EXCEPT ![k] = "idle"]
      /\ faults' = faults + 1 /\ UNCHANGED <<host, result, online, exec, began, ended>>
  BY DEF ToolRefused, Mishap, Busy, Ready
<1>2. faults' \in Nat
  BY <1>1, HostFacts
<1> QED
  BY <1>1, <1>2, RepliedKeeps

LEMMA ToolBeginsKeeps == \A k \in Calls : IInv /\ ToolBegins(k) => IInv'
<1> SUFFICES ASSUME NEW k \in Calls, IInv, ToolBegins(k) PROVE IInv'
  OBVIOUS
<1>1. /\ tool[k] \in Ready /\ began' = [began EXCEPT ![k] = @ + 1]
      /\ UNCHANGED <<host, result, faults, net, online, exec, journal, ended>>
  BY DEF ToolBegins, Host, Ready
<1>2. PICK t \in {"running", "aborted"} : tool' = [tool EXCEPT ![k] = t]
  BY DEF ToolBegins
<1>3. tool \in ToolType /\ began \in [Calls -> Nat]
  BY DeviceFacts
<1>4. \A j \in Calls : IF j = k THEN tool'[j] \in Busy \ Ready /\ began'[j] = began[j] + 1
                      ELSE tool'[j] = tool[j] /\ began'[j] = began[j]
  BY <1>1, <1>2, <1>3 DEF ToolType, Busy, Ready
<1>5. TypeOK'
  <2>1. tool' \in ToolType /\ began' \in [Calls -> Nat]
    BY <1>1, <1>2, <1>3 DEF ToolType
  <2> QED
    BY <1>1, <2>1 DEF IInv, TypeOK, ToolType
<1>6. Journaled'
  <2> SUFFICES ASSUME NEW j \in Calls
               PROVE  /\ began'[j] <= 1 /\ (tool'[j] \in Ready => began'[j] = 0)
                      /\ journal[Executing(j)] = "none" => began'[j] = 0 /\ ended[j] = 0
                      /\ tool'[j] \in Busy <=> journal[Executing(j)] = "running"
                      /\ journal[Executing(j)] = "running" => ended[j] = 0
                      /\ journal[Executing(j)] = "ok" => ended[j] = 1
    BY <1>1 DEF IInv, Journaled
  <2>1. CASE j = k
    <3>1. tool[k] \in Busy /\ began[k] = 0
      BY <1>1 DEF IInv, Journaled, Busy
    <3>2. journal[Executing(k)] = "running"
      BY <3>1 DEF IInv, Journaled
    <3> QED
      BY <1>4, <2>1, <3>1, <3>2 DEF IInv, Journaled
  <2>2. CASE j # k
    BY <1>4, <2>2 DEF IInv, Journaled
  <2> QED
    BY <2>1, <2>2
<1> QED
  BY <1>1, <1>5, <1>6, DeviceKeeps

LEMMA JobEndsKeeps == \A k \in Calls : IInv /\ JobEnds(k) => IInv'
<1> SUFFICES ASSUME NEW k \in Calls, IInv, JobEnds(k) PROVE IInv'
  OBVIOUS
<1>1. /\ tool[k] = "job" /\ tool' = [tool EXCEPT ![k] = "idle"]
      /\ UNCHANGED <<host, result, faults, net, online, exec, journal, began, ended>>
  BY DEF JobEnds, Host
<1>2. /\ exec \in ExecType /\ tool \in ToolType /\ journal \in JournalType /\ online \in Online
      /\ faults \in Nat /\ net \subseteq NetType
  BY DeviceFacts, HostFacts
<1>3. tool' \in ToolType /\ Alike(tool', tool)
  BY <1>1, <1>2 DEF ToolType, Alike, Busy, Ready
<1> QED
  BY <1>1, <1>2, <1>3, QuietKeeps

LEMMA LeaseKeeps == IInv /\ (LeaseAges \/ Sweep) => IInv'
<1> SUFFICES ASSUME IInv, LeaseAges \/ Sweep PROVE IInv'
  OBVIOUS
<1>1. /\ exec \in ExecType /\ tool \in ToolType /\ journal \in JournalType /\ online \in Online
      /\ faults \in Nat /\ net \subseteq NetType /\ NoExec \in ExecType
  BY DeviceFacts, HostFacts
<1>2. UNCHANGED <<host, result, net, online, journal, began, ended>>
  BY DEF LeaseAges, Sweep, Host
<1>3. CASE LeaseAges
  <2>1. /\ exec' = [exec EXCEPT !.fresh = FALSE] /\ (faults' = faults + 1 \/ faults' = faults)
        /\ tool' = tool
    BY <1>3 DEF LeaseAges
  <2>2. exec' \in ExecType
    BY <1>1, <2>1 DEF ExecType
  <2>3. faults' \in Nat
    BY <1>1, <2>1
  <2> QED
    BY <1>1, <1>2, <2>1, <2>2, <2>3, StayAlike, QuietKeeps
<1>4. CASE Sweep
  <2>1. exec' = NoExec /\ faults' = faults /\ tool' = Aborted
    BY <1>4 DEF Sweep, Host
  <2>2. tool' \in ToolType /\ Alike(tool', tool)
    BY <2>1, AbortedFacts
  <2> QED
    BY <1>1, <1>2, <2>1, <2>2, QuietKeeps
<1> QED
  BY <1>3, <1>4

LEMMA RefuseKeeps == \A m \in net : IInv /\ Refuse(m) => IInv'
<1> SUFFICES ASSUME NEW m \in net, IInv, Refuse(m) PROVE IInv'
  OBVIOUS
<1>1. /\ m.type = "request" /\ Answer(m, "error") /\ faults' = faults + 1
      /\ UNCHANGED <<host, result, online, exec, tool, journal, began, ended>>
  BY DEF Refuse, Mishap
<1>2. /\ exec \in ExecType /\ tool \in ToolType /\ journal \in JournalType /\ online \in Online
      /\ faults \in Nat
  BY DeviceFacts, HostFacts
<1>3. /\ net' \subseteq NetType
      /\ \A a \in net' : a \in net \/ (a.type = "answer" /\ a.of = m.of /\ a.value = "error")
  BY <1>1, AnswerFacts
<1>4. \A a \in net' :
        \/ a \in net
        \/ /\ a.type = "answer" /\ \E n \in net : n.of = a.of
           /\ \A k \in Calls : a.of = Executing(k) /\ a.value = "ok" => journal[Executing(k)] = "ok"
  BY <1>3
<1>5. faults' \in Nat
  BY <1>1, <1>2
<1> QED
  BY <1>1, <1>2, <1>3, <1>4, <1>5, StayAlike, QuietKeeps

LEMMA GrantExpiresKeeps == \A k \in Calls : IInv /\ GrantExpires(k) => IInv'
<1> SUFFICES ASSUME NEW k \in Calls, IInv, GrantExpires(k) PROVE IInv'
  OBVIOUS
<1>1. /\ exec.grants[k] > 0 /\ exec' = [exec EXCEPT !.grants[k] = @ - 1] /\ faults' = faults + 1
      /\ UNCHANGED <<host, result, net, online, tool, journal, began, ended>>
  BY DEF GrantExpires, Mishap
<1>2. /\ exec \in ExecType /\ tool \in ToolType /\ journal \in JournalType /\ online \in Online
      /\ faults \in Nat /\ net \subseteq NetType
  BY DeviceFacts, HostFacts
<1>3. exec' \in ExecType
  <2>1. exec.grants[k] \in Nat /\ exec.grants[k] - 1 \in Nat
    BY <1>1, <1>2 DEF ExecType
  <2> QED
    BY <1>1, <1>2, <2>1 DEF ExecType
<1>4. faults' \in Nat
  BY <1>1, <1>2
<1> QED
  BY <1>1, <1>2, <1>3, <1>4, StayAlike, QuietKeeps

(* Messages are lost, and connections.                                      *)
LEMMA LossKeeps ==
  ASSUME IInv, net' \subseteq net, online' \in Online, faults' \in Nat,
         UNCHANGED <<host, result, exec, tool, journal, began, ended>>
  PROVE  IInv'
BY DeviceFacts, HostFacts, StayAlike, QuietKeeps

LEMMA LoseKeeps == \A m \in net : IInv /\ Lose(m) => IInv'
<1> SUFFICES ASSUME NEW m \in net, IInv, Lose(m) PROVE IInv'
  OBVIOUS
<1>1. faults' \in Nat /\ online' \in Online
  BY HostFacts, DeviceFacts DEF Lose, Mishap
<1> QED
  BY <1>1, LossKeeps DEF Lose

LEMMA CutKeeps == \A side \in {"host", "device"} : \A type : IInv /\ Cut(side, type) => IInv'
<1> SUFFICES ASSUME NEW side \in {"host", "device"}, NEW type, IInv, Cut(side, type) PROVE IInv'
  OBVIOUS
<1>1. /\ faults' = faults + 1 /\ online' = [online EXCEPT ![side] = FALSE] /\ net' \subseteq net
      /\ UNCHANGED <<host, result, exec, tool, journal, began, ended>>
  BY DEF Cut, Mishap
<1>2. faults' \in Nat
  BY <1>1, HostFacts
<1>3. online' \in Online
  BY <1>1, DeviceFacts DEF Online
<1> QED
  BY <1>1, <1>2, <1>3, LossKeeps

LEMMA ReconnectHostKeeps == IInv /\ ReconnectHost => IInv'
<1> SUFFICES ASSUME IInv, ReconnectHost PROVE IInv'
  OBVIOUS
<1> DEFINE again == {q \in Requests : result[q] = "pending"}
<1>1. /\ online' = [online EXCEPT !.host = TRUE]
      /\ net' = net \cup {Asking(q) : q \in again}
      /\ UNCHANGED <<host, result, faults, exec, tool, journal, began, ended>>
  BY DEF ReconnectHost, Host
<1>2. /\ exec \in ExecType /\ tool \in ToolType /\ journal \in JournalType /\ online \in Online
      /\ faults \in Nat /\ net \subseteq NetType
  BY DeviceFacts, HostFacts
<1>3. \A q \in again : /\ Asking(q) \in NetType /\ Asking(q).type = "request"
                       /\ result[Asking(q).of] = "pending"
  BY DEF Asking, NetType
<1> HIDE DEF again
<1>4. /\ net' \subseteq NetType
      /\ \A m \in net' : m \in net \/ (m.type = "request" /\ result[m.of] = "pending")
  BY <1>1, <1>2, <1>3
<1>5. online' \in Online
  BY <1>1, <1>2 DEF Online
<1> QED
  BY <1>1, <1>2, <1>4, <1>5, StayAlike, QuietKeeps

LEMMA ReconnectDeviceKeeps == IInv /\ ReconnectDevice => IInv'
<1> SUFFICES ASSUME IInv, ReconnectDevice PROVE IInv'
  OBVIOUS
<1>1. online' \in Online
  BY DeviceFacts DEF ReconnectDevice, Online
<1> QED
  BY <1>1, HostFacts, LossKeeps DEF ReconnectDevice, Host

LEMMA DeviceRestartsKeeps == IInv /\ DeviceRestarts => IInv'
<1> SUFFICES ASSUME IInv, DeviceRestarts PROVE IInv'
  OBVIOUS
<1>1. /\ faults' = faults + 1 /\ exec' = NoExec /\ tool' = [k \in Calls |-> IF tool[k] = "job" THEN "job" ELSE "idle"]
      /\ journal' = [q \in Requests |-> IF journal[q] = "running" THEN "error" ELSE journal[q]]
      /\ UNCHANGED <<host, result, net, online, began, ended>>
  BY DEF DeviceRestarts, Mishap
<1>2. journal \in JournalType /\ faults \in Nat /\ NoExec \in ExecType
  BY DeviceFacts, HostFacts
<1>3. TypeOK'
  <2>1. faults' \in Nat /\ exec' \in ExecType
    BY <1>1, <1>2
  <2>2. tool' \in ToolType
    BY <1>1 DEF ToolType
  <2>3. journal' \in JournalType
    BY <1>1, <1>2 DEF JournalType
  <2> QED
    BY <1>1, <2>1, <2>2, <2>3 DEF IInv, TypeOK, ExecType, ToolType, JournalType
<1>4. \A k \in Calls :
        /\ tool'[k] \notin Busy
        /\ journal'[Executing(k)] =
             IF journal[Executing(k)] = "running" THEN "error" ELSE journal[Executing(k)]
  BY <1>1, RequestFacts DEF Busy, Ready
<1>5. Journaled'
  <2>1. journal'[Request("prepare", 0)] # "running"
    BY <1>1, RequestFacts
  <2> QED
    BY <1>1, <1>4, <2>1 DEF IInv, Journaled, Busy
<1> QED
  BY <1>1, <1>3, <1>4, <1>5, DeviceKeeps

LEMMA HostRestartsKeeps == IInv /\ HostRestarts => IInv'
<1> SUFFICES ASSUME IInv, HostRestarts PROVE IInv'
  OBVIOUS
<1>1. /\ faults' = faults + 1
      /\ host' = [host EXCEPT !.phase = "over", !.listening = FALSE, !.renewing = FALSE]
      /\ result' = [q \in Requests |-> "none"]
      /\ UNCHANGED <<net, online, exec, tool, journal, began, ended>>
  BY DEF HostRestarts, Mishap
<1>2. /\ host' \in HostType /\ host'.phase = "over"
      /\ host'.call = host.call /\ host'.told = host.told
  BY <1>1, HostFacts DEF HostType
<1>3. TypeOK'
  <2>1. faults' \in Nat /\ result' \in [Requests -> Results]
    BY <1>1, HostFacts DEF Results
  <2> QED
    BY <1>1, <1>2, <2>1 DEF IInv, TypeOK, HostType
<1>4. Journaled'
  BY <1>1 DEF IInv, Journaled
<1>5. \A k \in Calls : result'[Executing(k)] = "none"
  BY <1>1, RequestFacts
<1>6. Answered'
  BY <1>1, <1>2, <1>5 DEF IInv, Answered
<1>7. SentWhenDecided'
  <2> SUFFICES ASSUME NEW k \in Calls, Undecided(host', k)
               PROVE  Unsent(k)'
    BY DEF SentWhenDecided, Undecided
  <2>1. Undecided(host, k)
    BY <1>2 DEF Undecided
  <2>2. Unsent(k)
    BY <2>1 DEF IInv, SentWhenDecided, Undecided
  <2> QED
    BY <1>1, <1>5, <2>2 DEF Unsent
<1>8. KnowsEarlier'
  BY <1>2 DEF IInv, KnowsEarlier
<1> QED
  BY <1>3, <1>4, <1>6, <1>7, <1>8 DEF IInv

---------------------------------------------------------------------------
(* The theorems.                                                            *)

LEMMA Initially == Init => IInv
<1> SUFFICES ASSUME Init PROVE IInv
  OBVIOUS
<1>1. /\ host = [phase |-> "new", call |-> 0, cancelled |-> FALSE, listening |-> FALSE,
                 renewing |-> FALSE, told |-> [k \in Calls |-> "nothing"]]
      /\ result = [q \in Requests |-> "none"] /\ net = {}
      /\ online = [host |-> TRUE, device |-> TRUE]
      /\ exec = [registered |-> FALSE, aborted |-> FALSE, fresh |-> FALSE, grants |-> [k \in Calls |-> 0]]
      /\ tool = [k \in Calls |-> "idle"] /\ journal = [q \in Requests |-> "none"]
      /\ began = [k \in Calls |-> 0] /\ ended = [k \in Calls |-> 0] /\ faults = 0
  BY DEF Init, NoExec, NoCall
<1>2. TypeOK
  <2>1. 0 \in 0..MaxCalls
    BY RemoteConstants
  <2> QED
    BY <1>1, <2>1 DEF TypeOK, Results
<1>3. \A k \in Calls : result[Executing(k)] = "none" /\ journal[Executing(k)] = "none"
  BY <1>1, RequestFacts
<1>4. Journaled
  <2>1. journal[Request("prepare", 0)] # "running"
    BY <1>1, RequestFacts
  <2> QED
    BY <1>1, <1>3, <2>1 DEF Journaled, Busy, Ready
<1>5. Answered
  BY <1>1, <1>3 DEF Answered
<1>6. SentWhenDecided
  BY <1>1, <1>3 DEF SentWhenDecided, Unsent
<1>7. KnowsEarlier
  <2>1. \A k \in Calls : ~(k < 0) /\ k # 0
    <3> SUFFICES ASSUME NEW k \in Calls PROVE ~(k < 0) /\ k # 0
      OBVIOUS
    <3>1. k \in Nat /\ k > 0
      BY CallsNat
    <3> QED
      BY <3>1
  <2> QED
    BY <1>1, <2>1 DEF KnowsEarlier
<1> QED
  BY <1>2, <1>4, <1>5, <1>6, <1>7 DEF IInv

LEMMA StepKeeps == IInv /\ [Next]_vars => IInv'
<1> SUFFICES ASSUME IInv, [Next]_vars PROVE IInv'
  OBVIOUS
<1>1. CASE HostStep
  BY <1>1, PrepareKeeps, PreparedKeeps, RenewKeeps, AssessKeeps, AssessedKeeps, DenyKeeps,
     ExecuteKeeps, ExecutedKeeps, FinishKeeps, FinishedKeeps, CancelKeeps DEF HostStep
<1>2. ASSUME NEW m \in net, Handle(m) \/ Refuse(m) \/ Lose(m) PROVE IInv'
  BY <1>2, TakeAnswerKeeps, TakePrepareKeeps, TakeLeaseKeeps, TakeCancelKeeps, TakeArtifactsKeeps,
     TakeAssessKeeps, TakeExecuteKeeps, RefuseKeeps, LoseKeeps DEF Handle
<1>3. ASSUME NEW q \in Requests, TimeOut(q) PROVE IInv'
  BY <1>3, TimeOutKeeps
<1>4. ASSUME NEW k \in Calls,
             \/ GrantExpires(k) \/ ToolBegins(k) \/ ToolRefused(k) \/ JobEnds(k)
             \/ \E v \in {"ok", "error"} : ToolEnds(k, v)
      PROVE  IInv'
  BY <1>4, GrantExpiresKeeps, ToolBeginsKeeps, ToolRefusedKeeps, JobEndsKeeps, ToolEndsKeeps
<1>5. CASE LeaseAges \/ Sweep
  BY <1>5, LeaseKeeps
<1>6. CASE Cut("host", "request") \/ Cut("device", "answer")
  BY <1>6, CutKeeps
<1>7. CASE ReconnectHost \/ ReconnectDevice
  BY <1>7, ReconnectHostKeeps, ReconnectDeviceKeeps
<1>8. CASE DeviceRestarts \/ HostRestarts \/ Abandon
  BY <1>8, DeviceRestartsKeeps, HostRestartsKeeps, AbandonKeeps
<1>9. CASE UNCHANGED vars
  <2>1. UNCHANGED <<host, Device>> /\ UNCHANGED <<result, net, faults>>
    BY <1>9 DEF vars, Device
  <2> QED
    BY <2>1, HostFacts, ResultKeeps
<1> QED
  BY <1>1, <1>2, <1>3, <1>4, <1>5, <1>6, <1>7, <1>8, <1>9 DEF Next

(* Whatever is lost, repeated, restarted or too late, the invariant holds   *)
(* of the run, its device and the messages between them.                    *)
THEOREM Invariance == Spec => []IInv
<1>1. Init => IInv
  BY Initially
<1>2. IInv /\ [Next]_vars => IInv'
  BY StepKeeps
<1> QED
  BY <1>1, <1>2, PTL DEF Spec

(* What a run is told of its calls is true: done is done, not run never     *)
(* began, and no call is carried out twice (WorkspaceStore.once).           *)
THEOREM Truth == Spec => []ToldTheTruth
<1>1. IInv => ToldTheTruth
  <2> SUFFICES ASSUME IInv, NEW k \in Calls
               PROVE  /\ began[k] <= 1
                      /\ host.told[k] = "done" => ended[k] = 1
                      /\ host.told[k] = "not run" => began[k] = 0
    BY DEF ToldTheTruth
  <2>1. began[k] <= 1
    BY DEF IInv, Journaled
  <2>2. host.told[k] = "done" => ended[k] = 1
    BY DEF IInv, Answered, Journaled
  <2>3. host.told[k] = "not run" => began[k] = 0
    BY DEF IInv, SentWhenDecided, Unsent, Journaled
  <2> QED
    BY <2>1, <2>2, <2>3
<1> QED
  BY <1>1, Invariance, PTL

(* No tool begins while the run does not know what became of an earlier     *)
(* call (UncertainToolOutcomeError).                                        *)
THEOREM Certain == Spec => []UncertainStopsRun
<1>1. IInv => UncertainStopsRun
  <2> SUFFICES ASSUME IInv, NEW k \in Calls, began[k] > 0, NEW j \in 1 .. k - 1
               PROVE  host.told[j] \in {"done", "not run"}
    BY DEF UncertainStopsRun
  <2>1. k \in 1..MaxCalls /\ MaxCalls \in Nat /\ host.call \in Nat
    BY CallsNat, HostFacts DEF Calls
  <2>2. ~(k > host.call)
    <3>1. journal[Executing(k)] # "none"
      BY DEF IInv, Journaled
    <3> QED
      BY <3>1 DEF IInv, SentWhenDecided, Unsent
  <2>3. j \in Calls /\ j < host.call
    BY <2>1, <2>2 DEF Calls
  <2> QED
    BY <2>3 DEF IInv, KnowsEarlier
<1> QED
  BY <1>1, Invariance, PTL
=============================================================================
