---------------------------- MODULE RunRegistryProof ----------------------------
(* One run per session, the order of the speakers of a turn, prompts and    *)
(* their runners, children and their parents, and what runs unasked, proved *)
(* for any number of runs, sessions, speakers, calls and failing writes.    *)
EXTENDS RunRegistry, TLAPS

---------------------------------------------------------------------------
(* The strengthening.                                                       *)

(* The runs whose runner may still do something, those whose pump is to     *)
(* return, and those whose pump has returned.                               *)
Live == {"queued", "working", "assessing", "asking", "clarifying", "executing",
         "delegating", "stopping"}
Closing == {"ended", "abandoned", "broken"}
Resting == {"over", "dead"}

Alive(r) == run[r].phase \in Live

(* Those that may yet launch a speaker in their session.                    *)
Busy(r) == Alive(r) \/ run[r].phase = "abandoned"

Tables ==
  /\ known \subseteq Runs
  /\ run \in [Runs -> ActiveRun]
  /\ turn \in [Runs -> ProjectTurn]
  /\ parked \subseteq Runs
  /\ closed \in BOOLEAN
  /\ failures \in 0..MaxFailures

(* A run is registered from its launch on, and finished with its last       *)
(* event.                                                                   *)
Registered(r) ==
  /\ run[r].phase = "none" => run[r] = NotRun /\ r \notin known
  /\ run[r].phase \in {"ended", "over"} => Finished(r)
  /\ run[r].phase \in Live \cup Lost => ~Finished(r) /\ r \in known

InTurn(r) ==
  IF run[r].turn = NoRun THEN run[r].index = 0 /\ run[r].phase # "queued"
  ELSE run[run[r].turn].phase # "none"

SameTurn(q, r) ==
  /\ q # r /\ run[r].turn # NoRun /\ run[q].turn = run[r].turn
  /\ run[q].phase # "orphan" /\ run[r].phase # "orphan"

(* The speakers of a turn follow one another: at most one is alive, the     *)
(* pump of the one before it starts it, and those before have no pump.      *)
InOrder(q, r) ==
  SameTurn(q, r) =>
    /\ Alive(r) => /\ run[q].phase \in Closing \cup Resting
                   /\ run[q].index < run[r].index
                   /\ run[q].phase \in Closing =>
                        run[r].phase = "queued" /\ run[r].index = run[q].index + 1
    /\ run[r].phase \in Closing =>
         Alive(q) \/ (run[q].phase \in Resting /\ run[q].index < run[r].index)

(* Two runs of one session are two speakers of a turn, one of which has     *)
(* lost its runner.                                                         *)
Clash(q, r) ==
  /\ q # r /\ Busy(q) /\ Busy(r)
  /\ run[q].session # NoSession /\ run[q].session = run[r].session
  /\ ~ /\ run[r].turn # NoRun /\ run[q].turn = run[r].turn
       /\ "abandoned" \in {run[q].phase, run[r].phase}

(* The turn of a run that may go on is held, and has its prompt saved.      *)
Seated(r) ==
  Busy(r) => /\ run[r].turn # NoRun => turn[run[r].turn].held
             /\ run[r].index > 0 => turn[run[r].turn].saved

InFamily(c) ==
  Alive(c) /\ run[c].parent # NoRun =>
    /\ run[c].parent \in Runs
    /\ run[run[c].parent].phase = "delegating"
    /\ run[run[c].parent].child = c

Unharmed == \A c \in Runs : run[c].phase \notin Lost /\ InFamily(c)

IInv ==
  /\ Tables
  /\ \A r \in Runs : Registered(r) /\ InTurn(r) /\ Seated(r)
  /\ \A r \in Runs : r \in parked <=> run[r].phase \in {"asking", "clarifying"}
  /\ \A q, r \in Runs : InOrder(q, r) /\ ~Clash(q, r)
  /\ failures = 0 => Unharmed

(* What is looked at, or asked about, was not denied.                       *)
Heeds(r) == run[r].phase \in {"assessing", "asking"} =>
              run[r].call \in Calls /\ run[r].call \notin allowed[r].denied

Settled == allowed \in [Runs -> Allowance] /\ \A r \in Runs : Heeds(r)

---------------------------------------------------------------------------
(* Data.                                                                    *)

LEMMA PhasesAre ==
  /\ Phases = Live \cup Closing \cup Resting \cup {"none", "orphan"}
  /\ Lost = {"orphan", "abandoned", "broken", "dead"}
BY DEF Phases, Live, Closing, Resting, Lost

LEMMA RunFields ==
  ASSUME NEW f \in ActiveRun
  PROVE  /\ f.phase \in Phases /\ f.status \in Statuses /\ f.aborted \in BOOLEAN
         /\ f.session \in Sessions \cup {NoSession}
         /\ f.turn \in Runs \cup {NoRun} /\ f.index \in 0..MaxSpeakers
         /\ f.parent \in Runs \cup {NoRun} /\ f.child \in Runs \cup {NoRun}
         /\ f.call \in Calls \cup {NoCall} /\ f.calls \in Nat
BY DEF ActiveRun

LEMMA Bounds == 0 \in 0..MaxSpeakers /\ MaxSpeakers \in Nat /\ 0 \in 0..MaxFailures /\ MaxFailures \in Nat
BY RegistryConstants

LEMMA NotRunFacts ==
  /\ NotRun \in ActiveRun /\ NotRun.phase = "none" /\ NotRun.status = "running"
  /\ NotRun.turn = NoRun /\ NotRun.index = 0 /\ NotRun.session = NoSession /\ NotRun.parent = NoRun
  /\ NotRun.aborted = FALSE
BY Bounds DEF NotRun, ActiveRun, Phases, Statuses

LEMMA ForgottenFacts ==
  ASSUME NEW status \in Statuses
  PROVE  /\ Forgotten(status) \in ActiveRun
         /\ Forgotten(status).phase = "over" /\ Forgotten(status).status = status
         /\ Forgotten(status).turn = NoRun /\ Forgotten(status).index = 0
<1> DEFINE f == [NotRun EXCEPT !.phase = "over", !.status = status]
<1>1. f \in ActiveRun
  <2>1. "over" \in Phases
    BY DEF Phases
  <2> QED
    BY <2>1, NotRunFacts DEF ActiveRun
<1>2. /\ f.phase = "over" /\ f.status = status
      /\ f.turn = NotRun.turn /\ f.index = NotRun.index
  BY DEF NotRun
<1> QED
  BY <1>1, <1>2, NotRunFacts DEF Forgotten

LEMMA LaunchedFacts ==
  ASSUME NEW s \in Sessions \cup {NoSession}, NEW t \in Runs \cup {NoRun}, NEW i \in 0..MaxSpeakers
  PROVE  /\ Launched(s, t, i) \in ActiveRun
         /\ Launched(s, t, i).phase = (IF i = 0 THEN "working" ELSE "queued")
         /\ Launched(s, t, i).status = "running"
         /\ Launched(s, t, i).turn = t /\ Launched(s, t, i).index = i
         /\ Launched(s, t, i).session = s /\ Launched(s, t, i).parent = NoRun
<1> DEFINE f == [NotRun EXCEPT !.phase = IF i = 0 THEN "working" ELSE "queued",
                               !.session = s, !.turn = t, !.index = i]
<1>1. f \in ActiveRun
  <2> DEFINE g == IF i = 0 THEN "working" ELSE "queued"
  <2>1. g \in Phases
    BY DEF Phases
  <2>2. f = [NotRun EXCEPT !.phase = g, !.session = s, !.turn = t, !.index = i]
    OBVIOUS
  <2> HIDE DEF f, g
  <2> QED
    BY <2>1, <2>2, NotRunFacts DEF ActiveRun
<1>2. /\ f.phase = (IF i = 0 THEN "working" ELSE "queued")
      /\ f.status = NotRun.status /\ f.turn = t /\ f.index = i
      /\ f.session = s /\ f.parent = NotRun.parent
  BY DEF NotRun
<1> QED
  BY <1>1, <1>2, NotRunFacts DEF Launched

LEMMA PastFacts ==
  ASSUME NEW f \in ActiveRun, NEW status \in Statuses
  PROVE  LET e == [Past(f, status) EXCEPT !.phase = "ended"] IN
         /\ e \in ActiveRun /\ e.phase = "ended" /\ e.status = status
         /\ e.turn = f.turn /\ e.index = f.index
<1> DEFINE e == [Past(f, status) EXCEPT !.phase = "ended"]
<1>1. e \in ActiveRun
  BY DEF Past, ActiveRun, Phases
<1>2. /\ e.phase = "ended" /\ e.status = status
      /\ e.turn = f.turn /\ e.index = f.index
  BY DEF Past, ActiveRun
<1> QED
  BY <1>1, <1>2

(* A run on which a write failed is where it was.                           *)
LEMMA LostFacts ==
  ASSUME NEW f \in ActiveRun
  PROVE  /\ Orphan(f) \in ActiveRun /\ Orphan(f).phase = "orphan"
         /\ Orphan(f).status = f.status /\ Orphan(f).turn = f.turn
         /\ Orphan(f).index = f.index /\ Orphan(f).parent = f.parent
         /\ Abandoned(f) \in ActiveRun /\ Abandoned(f).phase = "abandoned"
         /\ Abandoned(f).status = f.status /\ Abandoned(f).turn = f.turn
         /\ Abandoned(f).index = f.index /\ Abandoned(f).session = f.session
<1>1. /\ Orphan(f) \in ActiveRun /\ Orphan(f).phase = "orphan"
      /\ Orphan(f).status = f.status /\ Orphan(f).turn = f.turn
      /\ Orphan(f).index = f.index /\ Orphan(f).parent = f.parent
  BY DEF Orphan, ActiveRun, Phases, Lost
<1>2. Abandoned(f) \in ActiveRun
  BY DEF Abandoned, ActiveRun, Phases, Lost
<1>3. /\ Abandoned(f).phase = "abandoned"
      /\ Abandoned(f).status = f.status /\ Abandoned(f).turn = f.turn
      /\ Abandoned(f).index = f.index /\ Abandoned(f).session = f.session
  BY DEF Abandoned, ActiveRun
<1> QED
  BY <1>1, <1>2, <1>3

LEMMA TypeFacts ==
  ASSUME IInv
  PROVE  /\ known \subseteq Runs /\ run \in [Runs -> ActiveRun] /\ turn \in [Runs -> ProjectTurn]
         /\ parked \subseteq Runs /\ closed \in BOOLEAN
         /\ failures \in 0..MaxFailures /\ failures \in Nat
BY Bounds DEF IInv, Tables

LEMMA PhaseFacts ==
  ASSUME IInv, NEW r \in Runs
  PROVE  /\ run[r] \in ActiveRun
         /\ run[r].phase \in Live \cup Closing \cup Resting \cup {"none", "orphan"}
BY TypeFacts, RunFields, PhasesAre

(* What is open, and what is done.                                          *)
LEMMA OpenFacts ==
  ASSUME IInv, NEW r \in Runs
  PROVE  /\ r \in Open <=> run[r].phase \in Live \cup Lost
         /\ r \in Acting <=> Alive(r)
         /\ Finished(r) <=> run[r].phase \in {"ended", "over"}
         /\ Busy(r) => r \in Open
<1>1. run[r].phase \in Live \cup Closing \cup Resting \cup {"none", "orphan"}
  BY PhaseFacts
<1>2. /\ run[r].phase = "none" => run[r].status = "running" /\ r \notin known
      /\ run[r].phase \in {"ended", "over"} => Finished(r)
      /\ run[r].phase \in Live \cup Lost => ~Finished(r) /\ r \in known
  BY NotRunFacts DEF IInv, Registered
<1>3. /\ r \in Open <=> r \in known /\ ~Finished(r)
      /\ r \in Acting <=> r \in Open /\ run[r].phase \notin Lost
  BY DEF Open, Acting
<1>4. /\ run[r].phase \in {"none", "ended", "over"} \/ run[r].phase \in Live \cup Lost
      /\ run[r].phase \in {"none", "ended", "over"} => run[r].phase \notin Live \cup Lost
      /\ run[r].phase \in Live => run[r].phase \notin Lost
  BY <1>1, PhasesAre DEF Live, Closing, Resting
<1>5. run[r].phase = "none" => ~Finished(r)
  BY <1>2 DEF Finished
<1>6. "abandoned" \in Lost
  BY PhasesAre
<1> QED
  BY <1>2, <1>3, <1>4, <1>5, <1>6 DEF Alive, Busy

(* What the invariant says.                                                 *)
LEMMA Properties ==
  ASSUME IInv
  PROVE  /\ OneRunPerSession /\ PromptsHaveRunner /\ ChildrenEndFirst
         /\ TurnHeldThroughout /\ RepliesHaveMessage
<1>1. \A r \in Acting : r \in Runs /\ Alive(r) /\ Busy(r) /\ run[r].phase # "abandoned"
  BY TypeFacts, OpenFacts DEF Acting, Open, Busy, Alive, Live
<1>2. OneRunPerSession
  <2> SUFFICES ASSUME NEW q \in Acting, NEW r \in Acting, q # r, run[q].session # NoSession
               PROVE  run[q].session # run[r].session
    BY DEF OneRunPerSession
  <2>1. ~Clash(q, r)
    BY <1>1 DEF IInv
  <2> QED
    BY <1>1, <2>1 DEF Clash
<1>3. PromptsHaveRunner
  <2> SUFFICES ASSUME NEW r \in Runs, run[r].phase \in {"asking", "clarifying"} PROVE r \in Open
    BY DEF IInv, PromptsHaveRunner
  <2> QED
    BY OpenFacts DEF Live
<1>4. ChildrenEndFirst
  <2> SUFFICES ASSUME failures = 0, NEW c \in Open, run[c].parent # NoRun
               PROVE  /\ run[c].parent \in Open
                      /\ run[run[c].parent].phase = "delegating"
                      /\ run[run[c].parent].child = c
    BY DEF ChildrenEndFirst
  <2>1. c \in Runs /\ Unharmed
    BY TypeFacts DEF IInv, Open
  <2>2. Alive(c)
    BY <2>1, OpenFacts DEF Unharmed, Alive
  <2>3. /\ run[c].parent \in Runs /\ run[run[c].parent].phase = "delegating"
        /\ run[run[c].parent].child = c
    BY <2>1, <2>2 DEF Unharmed, InFamily
  <2> QED
    BY <2>3, OpenFacts DEF Live
<1>5. TurnHeldThroughout /\ RepliesHaveMessage
  BY <1>1 DEF IInv, Seated, TurnHeldThroughout, RepliesHaveMessage
<1> QED
  BY <1>2, <1>3, <1>4, <1>5

(* A write that fails is counted.                                           *)
LEMMA FailsFacts ==
  ASSUME IInv, Fails PROVE failures' \in 0..MaxFailures /\ failures' # 0
BY TypeFacts, Bounds DEF Fails

LEMMA WrittenFacts ==
  ASSUME IInv, NEW saved \in BOOLEAN, Written(saved)
  PROVE  /\ failures' \in 0..MaxFailures
         /\ failures' = 0 => saved /\ failures = 0
BY TypeFacts, FailsFacts DEF Written

---------------------------------------------------------------------------
(* Places in the turns.                                                     *)

(* A run that stays where it is in its turn, and one that is in none.       *)
KeepsPlace(x) ==
  /\ run'[x].turn = run[x].turn /\ run'[x].index = run[x].index
  /\ \/ run'[x].phase = run[x].phase
     \/ run[x].phase \in Live \ {"queued"} /\ run'[x].phase \in Live \ {"queued"}

OutOfTurn(x) == run'[x].turn = NoRun \/ run'[x].phase = "orphan"

LEMMA PlaceKept ==
  ASSUME IInv, NEW q \in Runs, NEW r \in Runs,
         KeepsPlace(q) \/ OutOfTurn(q), KeepsPlace(r) \/ OutOfTurn(r)
  PROVE  InOrder(q, r)'
<1> SUFFICES ASSUME SameTurn(q, r)' PROVE InOrder(q, r)'
  BY DEF InOrder
<1>1. KeepsPlace(q) /\ KeepsPlace(r)
  BY DEF SameTurn, OutOfTurn
<1>2. SameTurn(q, r)
  BY <1>1 DEF KeepsPlace, SameTurn, Live
<1>3. InOrder(q, r)
  BY DEF IInv
<1>4. /\ Alive(r)' <=> Alive(r)
      /\ Alive(q)' <=> Alive(q)
      /\ run'[r].phase = "queued" <=> run[r].phase = "queued"
      /\ run[q].phase \in Closing \cup Resting \/ run'[q].phase \in Closing \cup Resting
           => run'[q].phase = run[q].phase
      /\ run'[r].phase \in Closing => run'[r].phase = run[r].phase
  BY <1>1 DEF KeepsPlace, Alive, Live, Closing, Resting
<1> QED
  BY <1>1, <1>2, <1>3, <1>4 DEF InOrder, KeepsPlace

(* The others of the turn of a run that answers, or whose pump is to        *)
(* return: a speaker that waits for that pump, and those before.            *)
LEMMA OthersOfTurn ==
  ASSUME IInv, NEW r \in Runs, run[r].phase \in (Live \cup Closing) \ {"queued"},
         NEW q \in Runs, SameTurn(q, r)
  PROVE  \/ /\ q \in NextSpeaker(r) /\ run[r].phase \in Closing
            /\ Alive(q) /\ run[q].phase = "queued"
         \/ q \notin NextSpeaker(r) /\ run[q].phase \in Resting /\ run[q].index < run[r].index
<1>1. SameTurn(r, q) /\ InOrder(q, r) /\ InOrder(r, q)
  BY DEF IInv, SameTurn
<1>2. q \in NextSpeaker(r) <=> run[q].index = run[r].index + 1
  BY DEF SameTurn, NextSpeaker
<1>3. run[q].index < run[r].index => run[q].index # run[r].index + 1
  <2>1. run[q].index \in Nat /\ run[r].index \in Nat
    BY PhaseFacts, RunFields, Bounds
  <2> QED
    BY <2>1
<1>4. CASE Alive(r)
  <2>1. run[q].phase \in Closing \cup Resting /\ run[q].index < run[r].index
        /\ run[q].phase \notin Closing
    BY <1>1, <1>4 DEF InOrder
  <2> QED
    BY <1>2, <1>3, <2>1
<1>5. CASE run[r].phase \in Closing
  <2>1. Alive(q) \/ (run[q].phase \in Resting /\ run[q].index < run[r].index)
    BY <1>1, <1>5 DEF InOrder
  <2>2. Alive(q) => run[q].phase = "queued" /\ run[q].index = run[r].index + 1
    BY <1>1, <1>5 DEF InOrder
  <2> QED
    BY <1>2, <1>3, <1>5, <2>1, <2>2
<1> QED
  BY <1>4, <1>5 DEF Alive

LEMMA NextSpeakerFacts ==
  ASSUME IInv, NEW r \in Runs, NEW n \in NextSpeaker(r)
  PROVE  /\ n \in Runs /\ n # r /\ SameTurn(n, r) /\ SameTurn(r, n)
         /\ run[r].turn # NoRun /\ run[n].turn = run[r].turn /\ run[n].index = run[r].index + 1
<1>1. /\ n \in Runs /\ run[r].turn # NoRun /\ run[n].turn = run[r].turn
      /\ run[n].index = run[r].index + 1 /\ run[r].phase # "orphan" /\ run[n].phase # "orphan"
  BY DEF NextSpeaker
<1>2. run[r].index \in Nat
  BY PhaseFacts, RunFields, Bounds
<1>3. n # r
  BY <1>1, <1>2
<1> QED
  BY <1>1, <1>3 DEF SameTurn

(* Nobody else works in the session of such a run, but its next speaker.    *)
LEMMA Alone ==
  ASSUME IInv, NEW r \in Runs, run[r].phase \in (Live \ {"queued"}) \cup {"abandoned"},
         NEW q \in Runs, q # r, Busy(q),
         run[r].session # NoSession, run[q].session = run[r].session
  PROVE  q \in NextSpeaker(r)
<1>1. ~Clash(q, r) /\ Busy(r)
  BY DEF IInv, Busy, Alive
<1>2. /\ run[r].turn # NoRun /\ run[q].turn = run[r].turn
      /\ "abandoned" \in {run[q].phase, run[r].phase}
  BY <1>1 DEF Clash
<1>3. SameTurn(q, r)
  BY <1>2 DEF SameTurn, Busy, Alive, Live
<1>4. run[r].phase \in (Live \cup Closing) \ {"queued"}
  BY DEF Closing, Live
<1>5. run[q].phase \notin Resting
  BY DEF Busy, Alive, Live, Resting
<1> QED
  BY <1>3, <1>4, <1>5, OthersOfTurn

---------------------------------------------------------------------------
(* A step in which runs go on.                                              *)

GoesOn(x) ==
  /\ run[x].phase # "none"
  /\ \/ run'[x].phase = run[x].phase
     \/ run[x].phase \in Live \ {"queued"} /\ run'[x].phase \in Live \ {"queued"}
  /\ run'[x].status = run[x].status /\ run'[x].session = run[x].session
  /\ run'[x].turn = run[x].turn /\ run'[x].index = run[x].index
  /\ run'[x].parent = run[x].parent
  /\ run[x].phase = "delegating" =>
       \/ run'[x].phase = "delegating" /\ run'[x].child = run[x].child
       \/ Finished(run[x].child)

LEMMA GoingOnKeeps ==
  ASSUME IInv, UNCHANGED <<known, failures>>,
         run' \in [Runs -> ActiveRun], turn' \in [Runs -> ProjectTurn],
         parked' \subseteq Runs, closed' \in BOOLEAN,
         \A x \in Runs : run'[x] = run[x] \/ GoesOn(x),
         \A x \in Runs : x \in parked' <=> run'[x].phase \in {"asking", "clarifying"},
         \A t \in Runs : /\ turn'[t].held = turn[t].held
                         /\ turn[t].saved => turn'[t].saved
  PROVE  IInv'
<1>1. \A x \in Runs :
        /\ Alive(x)' <=> Alive(x)
        /\ Busy(x)' <=> Busy(x)
        /\ \/ run'[x].phase = run[x].phase
           \/ run[x].phase \in Live \ {"queued"} /\ run'[x].phase \in Live \ {"queued"}
        /\ run[x].phase = "none" => run'[x] = run[x]
        /\ run'[x].status = run[x].status /\ run'[x].session = run[x].session
        /\ run'[x].turn = run[x].turn /\ run'[x].index = run[x].index
        /\ run'[x].parent = run[x].parent
  BY DEF GoesOn, Alive, Busy, Live
<1>2. Tables'
  BY TypeFacts DEF Tables
<1>3. ASSUME NEW r \in Runs PROVE Registered(r)'
  <2>1. Registered(r) /\ (Finished(r)' <=> Finished(r))
    BY <1>1 DEF IInv, Finished
  <2> QED
    BY <1>1, <2>1 DEF Registered, Live, Lost
<1>4. ASSUME NEW r \in Runs PROVE InTurn(r)'
  <2>1. InTurn(r) /\ run[r].turn \in Runs \cup {NoRun}
    BY PhaseFacts, RunFields DEF IInv
  <2> QED
    BY <1>1, <2>1 DEF InTurn, Live
<1>5. ASSUME NEW r \in Runs PROVE Seated(r)'
  <2>1. Seated(r) /\ InTurn(r) /\ run[r].turn \in Runs \cup {NoRun}
    BY PhaseFacts, RunFields DEF IInv
  <2>2. run[r].index > 0 => run[r].turn # NoRun
    BY <2>1 DEF InTurn
  <2> QED
    BY <1>1, <2>1, <2>2 DEF Seated
<1>6. ASSUME NEW q \in Runs, NEW r \in Runs PROVE InOrder(q, r)' /\ ~Clash(q, r)'
  <2>1. KeepsPlace(q) /\ KeepsPlace(r)
    BY <1>1 DEF KeepsPlace
  <2>2. run'[q].phase = "abandoned" <=> run[q].phase = "abandoned"
    BY <1>1 DEF Live
  <2>3. run'[r].phase = "abandoned" <=> run[r].phase = "abandoned"
    BY <1>1 DEF Live
  <2>4. ~Clash(q, r)
    BY DEF IInv
  <2>5. ~Clash(q, r)'
    BY <1>1, <2>2, <2>3, <2>4 DEF Clash
  <2> QED
    BY <2>1, <2>5, PlaceKept
<1>7. ASSUME failures' = 0 PROVE Unharmed'
  <2>1. Unharmed
    BY <1>7 DEF IInv
  <2>2. \A c \in Runs : run'[c].phase \notin Lost
    BY <1>1, <2>1 DEF Unharmed, Live, Lost
  <2>3. ASSUME NEW c \in Runs, Alive(c)', run'[c].parent # NoRun
        PROVE  /\ run'[c].parent \in Runs
               /\ run'[run'[c].parent].phase = "delegating"
               /\ run'[run'[c].parent].child = c
    <3>1. Alive(c) /\ run'[c].parent = run[c].parent
      BY <1>1, <2>3
    <3>2. PICK p \in Runs : /\ p = run[c].parent
                            /\ run[p].phase = "delegating" /\ run[p].child = c
      BY <2>1, <2>3, <3>1 DEF Unharmed, InFamily
    <3>3. ~Finished(c)
      BY <3>1, OpenFacts DEF Alive, Live
    <3>4. run'[p].phase = "delegating" /\ run'[p].child = c
      BY <3>2, <3>3 DEF GoesOn
    <3> QED
      BY <3>1, <3>2, <3>4
  <2> QED
    BY <2>2, <2>3 DEF Unharmed, InFamily
<1> QED
  BY <1>2, <1>3, <1>4, <1>5, <1>6, <1>7 DEF IInv

(* The prompt of a run is parked as long as the runner waits for it.        *)
LEMMA ParkedFacts ==
  ASSUME IInv, NEW r \in Runs
  PROVE  r \in parked <=> run[r].phase \in {"asking", "clarifying"}
BY DEF IInv

(* One run goes on, and with it its prompt.                                 *)
LEMMA OneGoesOn ==
  ASSUME IInv, UNCHANGED <<known, turn, closed, failures>>,
         NEW r \in Runs, run[r].phase \in Live \ {"queued"},
         run[r].phase = "delegating" => Finished(run[r].child),
         NEW f \in ActiveRun, run' = [run EXCEPT ![r] = f],
         f.phase \in Live \ {"queued"},
         f.status = run[r].status, f.session = run[r].session, f.turn = run[r].turn,
         f.index = run[r].index, f.parent = run[r].parent,
         parked' = IF f.phase \in {"asking", "clarifying"} THEN parked \cup {r} ELSE parked \ {r}
  PROVE  IInv'
<1>1. run \in [Runs -> ActiveRun] /\ turn \in [Runs -> ProjectTurn] /\ parked \subseteq Runs /\ closed \in BOOLEAN
  BY TypeFacts
<1>2. run' \in [Runs -> ActiveRun] /\ run'[r] = f /\ \A x \in Runs \ {r} : run'[x] = run[x]
  BY <1>1
<1>3. GoesOn(r)
  BY <1>2 DEF GoesOn, Live
<1>4. ASSUME NEW x \in Runs PROVE x \in parked' <=> run'[x].phase \in {"asking", "clarifying"}
  <2>1. CASE x = r
    BY <1>2, <2>1
  <2>2. CASE x # r
    BY <1>2, <2>2, ParkedFacts
  <2> QED
    BY <2>1, <2>2
<1>5. \A x \in Runs : run'[x] = run[x] \/ GoesOn(x)
  BY <1>2, <1>3
<1> QED
  BY <1>1, <1>2, <1>4, <1>5, GoingOnKeeps

---------------------------------------------------------------------------
(* The steps in which runs go on.                                           *)

(* A change of phase.                                                       *)
Moves(r, phase, call, calls, child) ==
  run' = [run EXCEPT ![r] = [run[r] EXCEPT !.phase = phase, !.call = call, !.calls = calls,
                                           !.child = child]]

LEMMA PhaseKeeps ==
  ASSUME IInv, UNCHANGED <<known, turn, closed, failures>>,
         NEW r \in Runs,
         run[r].phase \in {"working", "assessing", "asking", "clarifying", "executing", "delegating"},
         run[r].phase = "delegating" => Finished(run[r].child),
         NEW phase \in {"working", "assessing", "asking", "clarifying", "executing", "stopping"},
         NEW call \in Calls \cup {NoCall}, NEW calls \in Nat, NEW child \in Runs \cup {NoRun},
         Moves(r, phase, call, calls, child),
         parked' = IF phase \in {"asking", "clarifying"} THEN parked \cup {r} ELSE parked \ {r}
  PROVE  IInv'
<1> DEFINE f == [run[r] EXCEPT !.phase = phase, !.call = call, !.calls = calls, !.child = child]
<1>1. run[r] \in ActiveRun
  BY TypeFacts
<1>2. phase \in Live \ {"queued"} /\ phase \in Phases /\ run[r].phase \in Live \ {"queued"}
  BY DEF Live, Phases
<1>3. /\ f \in ActiveRun /\ f.phase = phase
      /\ f.status = run[r].status /\ f.session = run[r].session /\ f.turn = run[r].turn
      /\ f.index = run[r].index /\ f.parent = run[r].parent
  BY <1>1, <1>2 DEF ActiveRun
<1> HIDE DEF f
<1>4. run' = [run EXCEPT ![r] = f]
  BY DEF f, Moves
<1> QED
  BY <1>2, <1>3, <1>4, OneGoesOn

(* A change of phase alone.                                                 *)
LEMMA PhaseOnlyKeeps ==
  ASSUME IInv, UNCHANGED <<known, turn, closed, failures>>,
         NEW r \in Runs,
         run[r].phase \in {"working", "assessing", "asking", "clarifying", "executing"},
         NEW phase \in {"working", "assessing", "asking", "clarifying", "executing", "stopping"},
         run' = [run EXCEPT ![r].phase = phase],
         parked' = IF phase \in {"asking", "clarifying"} THEN parked \cup {r} ELSE parked \ {r}
  PROVE  IInv'
<1>1. run \in [Runs -> ActiveRun] /\ run[r] \in ActiveRun
  BY TypeFacts
<1>2. run[r].call \in Calls \cup {NoCall} /\ run[r].calls \in Nat /\ run[r].child \in Runs \cup {NoRun}
  BY <1>1, RunFields
<1>3. Moves(r, phase, run[r].call, run[r].calls, run[r].child)
  BY <1>1 DEF ActiveRun, Moves
<1> QED
  BY <1>2, <1>3, PhaseKeeps

LEMMA AnswerKeeps == \A r \in Runs, action \in Answers : IInv /\ Answer(r, action) => IInv'
<1> SUFFICES ASSUME NEW r \in Runs, NEW action \in Answers, IInv, Answer(r, action) PROVE IInv'
  OBVIOUS
<1>1. /\ run[r].phase = "asking" /\ parked' = parked \ {r}
      /\ UNCHANGED <<known, turn, closed, failures>>
  BY DEF Answer
<1>2. PICK phase \in {"working", "executing"} : run' = [run EXCEPT ![r].phase = phase]
  BY DEF Answer
<1> QED
  BY <1>1, <1>2, PhaseOnlyKeeps

LEMMA AnswerInputKeeps == \A r \in Runs : IInv /\ AnswerInput(r) => IInv'
BY PhaseOnlyKeeps DEF AnswerInput

LEMMA ApprovalTimesOutKeeps == \A r \in Runs : IInv /\ ApprovalTimesOut(r) => IInv'
BY PhaseOnlyKeeps DEF ApprovalTimesOut

LEMMA NotParked ==
  ASSUME IInv, NEW r \in Runs, run[r].phase \notin {"asking", "clarifying"}
  PROVE  parked \ {r} = parked
BY ParkedFacts

LEMMA AssessedKeeps == \A r \in Runs : IInv /\ Assessed(r) => IInv'
<1> SUFFICES ASSUME NEW r \in Runs, IInv, Assessed(r) PROVE IInv'
  OBVIOUS
<1>1. run[r].phase = "assessing" /\ UNCHANGED <<known, turn, closed, failures>>
  BY DEF Assessed
<1>2. parked \ {r} = parked
  BY <1>1, NotParked
<1>3. PICK phase \in {"working", "executing", "asking"} :
        /\ run' = [run EXCEPT ![r].phase = phase]
        /\ parked' = IF phase = "asking" THEN parked \cup {r} ELSE parked
  BY DEF Assessed, RunTool
<1> QED
  BY <1>1, <1>2, <1>3, PhaseOnlyKeeps

(* The steps that set more than the phase.                                  *)
LEMMA MovesKeep ==
  ASSUME IInv, NEW r \in Runs,
         \/ AskUser(r) \/ ChildReturns(r)
         \/ \E c \in Calls : CallTool(r, c)
         \/ \E certain \in BOOLEAN : ToolReturns(r, certain)
  PROVE  IInv'
<1>1. run \in [Runs -> ActiveRun] /\ run[r] \in ActiveRun
  BY TypeFacts
<1>2. /\ run[r].child \in Runs \cup {NoRun} /\ run[r].calls \in Nat
      /\ run[r].call \in Calls \cup {NoCall}
  BY <1>1, RunFields
<1>3. CASE AskUser(r)
  <2>1. /\ run[r].phase = "working" /\ UNCHANGED <<known, turn, closed, failures>>
        /\ run' = [run EXCEPT ![r].phase = "clarifying", ![r].calls = @ + 1]
        /\ parked' = parked \cup {r}
    BY <1>3 DEF AskUser
  <2> DEFINE calls == run[r].calls + 1
  <2>2. calls \in Nat
    BY <1>2
  <2>3. Moves(r, "clarifying", run[r].call, calls, run[r].child)
    BY <1>1, <2>1 DEF ActiveRun, Moves
  <2> HIDE DEF calls
  <2> QED
    BY <1>2, <2>1, <2>2, <2>3, PhaseKeeps
<1>4. ASSUME NEW c \in Calls, CallTool(r, c) PROVE IInv'
  <2>1. run[r].phase = "working" /\ UNCHANGED <<known, turn, parked, closed, failures>>
    BY <1>4 DEF CallTool
  <2>2. PICK phase \in {"working", "assessing"} :
          run' = [run EXCEPT ![r].phase = phase, ![r].call = c, ![r].calls = @ + 1]
    BY <1>4, <2>1 DEF CallTool
  <2> DEFINE calls == run[r].calls + 1
  <2>3. calls \in Nat
    BY <1>2
  <2>4. Moves(r, phase, c, calls, run[r].child)
    BY <1>1, <2>2 DEF ActiveRun, Moves
  <2> HIDE DEF calls
  <2>5. parked \ {r} = parked
    BY <2>1, NotParked
  <2> QED
    BY <1>2, <2>1, <2>3, <2>4, <2>5, PhaseKeeps
<1>5. CASE ChildReturns(r)
  <2>1. PICK phase \in {"working", "stopping"} :
          run' = [run EXCEPT ![r].phase = phase, ![r].child = NoRun, ![r].call = NoCall]
    BY <1>5 DEF ChildReturns
  <2>2. /\ run[r].phase = "delegating" /\ Finished(run[r].child)
        /\ UNCHANGED <<known, turn, parked, closed, failures>>
    BY <1>5 DEF ChildReturns
  <2>3. Moves(r, phase, NoCall, run[r].calls, NoRun)
    BY <1>1, <2>1 DEF ActiveRun, Moves
  <2>4. parked \ {r} = parked
    BY <2>2, NotParked
  <2> QED
    BY <1>2, <2>1, <2>2, <2>3, <2>4, PhaseKeeps
<1>6. ASSUME NEW certain \in BOOLEAN, ToolReturns(r, certain) PROVE IInv'
  <2>1. PICK phase \in {"working", "stopping"} :
          run' = [run EXCEPT ![r].phase = phase, ![r].call = NoCall]
    BY <1>6 DEF ToolReturns
  <2>2. run[r].phase = "executing" /\ UNCHANGED <<known, turn, parked, closed, failures>>
    BY <1>6 DEF ToolReturns
  <2>3. Moves(r, phase, NoCall, run[r].calls, run[r].child)
    BY <1>1, <2>1 DEF ActiveRun, Moves
  <2>4. parked \ {r} = parked
    BY <2>2, NotParked
  <2> QED
    BY <1>2, <2>1, <2>2, <2>3, <2>4, PhaseKeeps
<1> QED
  BY <1>3, <1>4, <1>5, <1>6

(* Signals reach runs that are open, and settle their prompts.              *)
LEMMA AbortKeeps ==
  ASSUME IInv, NEW targets \in SUBSET Runs, \A x \in targets : run[x].phase # "none",
         Abort(targets), UNCHANGED <<known, failures>>, closed' \in BOOLEAN,
         turn' \in [Runs -> ProjectTurn],
         \A t \in Runs : turn'[t].held = turn[t].held /\ turn'[t].saved = turn[t].saved
  PROVE  IInv'
<1> DEFINE told == Signalled(AndChildren(targets))
<1>1. /\ run' = [r \in Runs |->
           IF r \in told
           THEN [run[r] EXCEPT !.aborted = TRUE,
                               !.phase = IF r \in parked THEN "working" ELSE @]
           ELSE run[r]]
      /\ parked' = parked \ told
  BY DEF Abort
<1>2. \A x \in told : x \in Runs /\ run[x].phase # "none"
  <2> SUFFICES ASSUME NEW x \in told PROVE x \in Runs /\ run[x].phase # "none"
    OBVIOUS
  <2>1. x \in targets \/ x \in Open
    BY DEF Signalled, AndChildren
  <2>2. x \in Open => x \in Runs
    BY TypeFacts DEF Open
  <2>3. x \in Open => run[x].phase # "none"
    BY <2>2, OpenFacts DEF Live, Lost
  <2> QED
    BY <2>1, <2>2, <2>3
<1> HIDE DEF told
<1>3. \A r \in Runs : run[r] \in ActiveRun
  BY TypeFacts
<1>4. ASSUME NEW r \in Runs, r \in told
      PROVE  /\ run'[r] \in ActiveRun /\ GoesOn(r)
             /\ run'[r].phase = IF r \in parked THEN "working" ELSE run[r].phase
  <2> DEFINE phase == IF r \in parked THEN "working" ELSE run[r].phase
  <2>1. run'[r] = [run[r] EXCEPT !.aborted = TRUE, !.phase = phase]
    BY <1>1, <1>3, <1>4 DEF ActiveRun
  <2>2. phase \in Phases
    BY <1>3, RunFields DEF Phases
  <2>3. /\ phase = run[r].phase \/ (run[r].phase \in Live \ {"queued"} /\ phase \in Live \ {"queued"})
        /\ run[r].phase = "delegating" => phase = "delegating"
    BY ParkedFacts DEF Live
  <2> HIDE DEF phase
  <2>4. /\ run'[r] \in ActiveRun /\ run'[r].phase = phase
        /\ run'[r].status = run[r].status /\ run'[r].session = run[r].session
        /\ run'[r].turn = run[r].turn /\ run'[r].index = run[r].index
        /\ run'[r].parent = run[r].parent /\ run'[r].child = run[r].child
    BY <1>3, <2>1, <2>2 DEF ActiveRun
  <2>5. GoesOn(r)
    BY <1>2, <1>4, <2>3, <2>4 DEF GoesOn
  <2> QED
    BY <2>4, <2>5 DEF phase
<1>5. \A r \in Runs : r \notin told => run'[r] = run[r]
  BY <1>1
<1>6. run' \in [Runs -> ActiveRun]
  <2>1. \A r \in Runs : run'[r] \in ActiveRun
    BY <1>3, <1>4, <1>5
  <2>2. run' = [r \in Runs |-> run'[r]]
    BY <1>1
  <2> QED
    BY <2>1, <2>2
<1>7. ASSUME NEW r \in Runs PROVE r \in parked' <=> run'[r].phase \in {"asking", "clarifying"}
  <2>1. r \in parked <=> run[r].phase \in {"asking", "clarifying"}
    BY ParkedFacts
  <2>2. CASE r \in told
    <3>1. run'[r].phase = IF r \in parked THEN "working" ELSE run[r].phase
      BY <1>4, <2>2
    <3>2. r \notin parked'
      BY <1>1, <2>2
    <3>3. CASE r \in parked
      BY <3>1, <3>2, <3>3
    <3>4. CASE r \notin parked
      BY <2>1, <3>1, <3>2, <3>4
    <3> QED
      BY <3>3, <3>4
  <2>3. CASE r \notin told
    BY <1>1, <1>5, <2>1, <2>3
  <2> QED
    BY <2>2, <2>3
<1>8. parked' \subseteq Runs
  BY <1>1, TypeFacts
<1> QED
  BY <1>4, <1>5, <1>6, <1>7, <1>8, GoingOnKeeps

LEMMA CancelKeeps == \A r \in Runs : IInv /\ Cancel(r) => IInv'
<1> SUFFICES ASSUME NEW r \in Runs, IInv, Cancel(r) PROVE IInv'
  OBVIOUS
<1> DEFINE targets == {r} \cup NextSpeaker(r) \cup {c \in Runs : run[c].parent = r}
<1>1. /\ r \in known /\ Abort(targets) /\ UNCHANGED <<known, closed, failures>>
      /\ turn' = IF run[r].turn = NoRun THEN turn ELSE [turn EXCEPT ![run[r].turn].cancelled = TRUE]
  BY DEF Cancel
<1>2. turn \in [Runs -> ProjectTurn] /\ closed \in BOOLEAN /\ known \subseteq Runs
  BY TypeFacts
<1>3. /\ turn' \in [Runs -> ProjectTurn]
      /\ \A t \in Runs : turn'[t].held = turn[t].held /\ turn'[t].saved = turn[t].saved
  BY <1>1, <1>2 DEF ProjectTurn
<1>4. \A x \in targets : x \in Runs /\ run[x].phase # "none"
  <2> SUFFICES ASSUME NEW x \in targets PROVE x \in Runs /\ run[x].phase # "none"
    OBVIOUS
  <2>1. x \in Runs /\ (x = r \/ run[x].turn # NoRun \/ run[x].parent = r)
    BY DEF NextSpeaker
  <2>2. run[x].phase = "none" => run[x].turn = NoRun /\ run[x].parent = NoRun /\ x \notin known
    BY <2>1, NotRunFacts DEF IInv, Registered
  <2> QED
    BY <1>1, <2>1, <2>2, RegistryConstants
<1>5. targets \in SUBSET Runs
  BY <1>4
<1> HIDE DEF targets
<1> QED
  BY <1>1, <1>2, <1>3, <1>4, <1>5, AbortKeeps

LEMMA CloseKeeps == IInv /\ Close => IInv'
<1> SUFFICES ASSUME IInv, Close PROVE IInv'
  OBVIOUS
<1>1. closed' = TRUE /\ Abort(Open) /\ UNCHANGED <<known, turn, failures>>
  BY DEF Close
<1>2. Open \in SUBSET Runs
  BY TypeFacts DEF Open
<1>3. \A x \in Open : run[x].phase # "none"
  BY <1>2, OpenFacts DEF Live, Lost
<1> QED
  BY <1>1, <1>2, <1>3, TypeFacts, AbortKeeps

LEMMA SavePromptKeeps == \A r \in Runs : IInv /\ SavePrompt(r) => IInv'
<1> SUFFICES ASSUME NEW r \in Runs, IInv, SavePrompt(r) PROVE IInv'
  OBVIOUS
<1>1. /\ turn' = [turn EXCEPT ![run[r].turn].saved = TRUE]
      /\ UNCHANGED <<known, run, parked, closed, failures>>
  BY DEF SavePrompt
<1>2. /\ turn \in [Runs -> ProjectTurn] /\ closed \in BOOLEAN /\ parked \subseteq Runs
      /\ run \in [Runs -> ActiveRun]
  BY TypeFacts
<1>3. /\ turn' \in [Runs -> ProjectTurn]
      /\ \A t \in Runs : turn'[t].held = turn[t].held /\ (turn[t].saved => turn'[t].saved)
  BY <1>1, <1>2 DEF ProjectTurn
<1>4. \A x \in Runs : x \in parked' <=> run'[x].phase \in {"asking", "clarifying"}
  BY <1>1, ParkedFacts
<1> QED
  BY <1>1, <1>2, <1>3, <1>4, GoingOnKeeps

---------------------------------------------------------------------------
(* Forgotten runs, and runs that begin.                                     *)

Stays(x) == run'[x] = run[x] \/ (run[x].phase = "over" /\ run'[x] = Forgotten(run[x].status))

LEMMA StaysFacts ==
  ASSUME IInv, NEW x \in Runs, Stays(x)
  PROVE  /\ run'[x] \in ActiveRun /\ run'[x].phase = run[x].phase /\ run'[x].status = run[x].status
         /\ (Alive(x)' <=> Alive(x)) /\ (Busy(x)' <=> Busy(x))
         /\ Busy(x) \/ run'[x].turn # NoRun \/ run[x].phase = "none" => run'[x] = run[x]
         /\ run'[x].turn = NoRun => run'[x].index = 0 /\ run'[x].phase # "queued"
         /\ KeepsPlace(x) \/ OutOfTurn(x)
<1>1. run[x] \in ActiveRun /\ run[x].status \in Statuses
  BY TypeFacts, RunFields
<1>2. run[x].turn = NoRun => run[x].index = 0 /\ run[x].phase # "queued"
  BY DEF IInv, InTurn
<1>3. CASE run'[x] = run[x]
  BY <1>1, <1>2, <1>3 DEF Alive, Busy, KeepsPlace
<1>4. CASE run[x].phase = "over" /\ run'[x] = Forgotten(run[x].status)
  <2>1. /\ run'[x] \in ActiveRun /\ run'[x].phase = "over" /\ run'[x].status = run[x].status
        /\ run'[x].turn = NoRun /\ run'[x].index = 0
    BY <1>1, <1>4, ForgottenFacts
  <2>2. ~Busy(x) /\ ~Busy(x)' /\ ~Alive(x) /\ ~Alive(x)'
    BY <1>4, <2>1 DEF Alive, Busy, Live
  <2> QED
    BY <1>4, <2>1, <2>2 DEF OutOfTurn
<1> QED
  BY <1>3, <1>4 DEF Stays

LEMMA StaysRegistered ==
  ASSUME IInv, NEW x \in Runs, Stays(x), x \in known' => x \in known, x \in Open => x \in known'
  PROVE  Registered(x)'
<1>1. Registered(x) /\ (run[x].phase \in Live \cup Lost => x \in Open)
  BY OpenFacts DEF IInv
<1>2. /\ run'[x].phase = run[x].phase /\ run'[x].status = run[x].status
      /\ run[x].phase = "none" => run'[x] = run[x]
  BY StaysFacts
<1>3. Finished(x)' <=> Finished(x)
  BY <1>2 DEF Finished
<1> QED
  BY <1>1, <1>2, <1>3 DEF Registered

LEMMA ForgetFacts ==
  ASSUME IInv, NEW kept \in Kept
  PROVE  /\ kept \subseteq known /\ Open \subseteq kept
         /\ Forget(kept) \in [Runs -> ActiveRun]
         /\ \A x \in Runs : \/ Forget(kept)[x] = run[x]
                            \/ run[x].phase = "over" /\ Forget(kept)[x] = Forgotten(run[x].status)
<1>1. kept \subseteq known /\ Open \subseteq kept
  BY DEF Kept
<1>2. \A x \in Runs : \/ Forget(kept)[x] = run[x]
                      \/ run[x].phase = "over" /\ Forget(kept)[x] = Forgotten(run[x].status)
  BY DEF Forget
<1>3. \A x \in Runs : run[x] \in ActiveRun /\ Forgotten(run[x].status) \in ActiveRun
  BY TypeFacts, RunFields, ForgottenFacts
<1>4. Forget(kept) \in [Runs -> ActiveRun]
  <2>1. \A x \in Runs : Forget(kept)[x] \in ActiveRun
    BY <1>2, <1>3
  <2>2. Forget(kept) = [x \in Runs |-> Forget(kept)[x]]
    BY DEF Forget
  <2> QED
    BY <2>1, <2>2
<1> QED
  BY <1>1, <1>2, <1>4

(* A run or an orphan, as it begins.                                        *)
LEMMA BeginsFacts ==
  ASSUME NEW s \in Sessions \cup {NoSession}, NEW t \in Runs \cup {NoRun}, NEW i \in 0..MaxSpeakers,
         NEW saved \in BOOLEAN, NEW g,
         g = IF saved THEN Launched(s, t, i) ELSE Orphan(Launched(s, t, i))
  PROVE  /\ g \in ActiveRun /\ g.status = "running" /\ g.turn = t /\ g.index = i /\ g.parent = NoRun
         /\ saved => g.session = s /\ g.phase = (IF i = 0 THEN "working" ELSE "queued")
         /\ ~saved => g.phase = "orphan"
BY LaunchedFacts, LostFacts

LEMMA StartKeeps ==
  \A r \in Runs, s \in Sessions \cup {NoSession}, n \in 0..MaxSpeakers, replaces \in BOOLEAN :
    IInv /\ Start(r, s, n, replaces) => IInv'
<1> SUFFICES ASSUME NEW r \in Runs, NEW s \in Sessions \cup {NoSession}, NEW n \in 0..MaxSpeakers,
                    NEW replaces \in BOOLEAN, IInv, Start(r, s, n, replaces)
             PROVE  IInv'
  OBVIOUS
<1> DEFINE t == IF n > 0 THEN r ELSE NoRun
           begun(saved) == IF saved THEN Launched(s, t, 0) ELSE Orphan(Launched(s, t, 0))
<1>1. PICK kept \in Kept, saved \in BOOLEAN :
        /\ Written(saved)
        /\ known' = kept \cup {r}
        /\ run' = [Forget(kept) EXCEPT ![r] = begun(saved)]
        /\ turn' = [turn EXCEPT ![r] = [speakers |-> n, replaces |-> replaces, saved |-> replaces,
                                        cancelled |-> FALSE, held |-> n > 0,
                                        lost |-> n > 0 /\ ~saved]]
  BY DEF Start
<1>2. run[r].phase = "none" /\ SessionFree(s) /\ UNCHANGED <<parked, closed>>
  BY DEF Start
<1>3. t \in Runs \cup {NoRun} /\ (t # NoRun <=> n > 0) /\ (t # NoRun => t = r)
  BY RegistryConstants
<1>4. PICK g : g = begun(saved)
  OBVIOUS
<1>5. /\ g \in ActiveRun /\ g.status = "running" /\ g.turn = t /\ g.index = 0 /\ g.parent = NoRun
      /\ saved => g.session = s /\ g.phase = "working"
      /\ ~saved => g.phase = "orphan"
  <2>1. 0 \in 0..MaxSpeakers /\ g = IF saved THEN Launched(s, t, 0) ELSE Orphan(Launched(s, t, 0))
    BY <1>4, Bounds
  <2> HIDE DEF t, begun
  <2> QED
    BY <1>3, <2>1, BeginsFacts
<1>6. run' = [Forget(kept) EXCEPT ![r] = g]
  BY <1>1, <1>4
<1> HIDE DEF t, begun
<1>7. /\ kept \subseteq known /\ Open \subseteq kept /\ Forget(kept) \in [Runs -> ActiveRun]
      /\ \A x \in Runs : \/ Forget(kept)[x] = run[x]
                         \/ run[x].phase = "over" /\ Forget(kept)[x] = Forgotten(run[x].status)
  BY ForgetFacts
<1>8. /\ run' \in [Runs -> ActiveRun] /\ run'[r] = g
      /\ \A x \in Runs \ {r} : Stays(x)
  BY <1>5, <1>6, <1>7 DEF Stays
<1>9. /\ failures' \in 0..MaxFailures
      /\ failures' = 0 => saved /\ failures = 0
  BY <1>1, WrittenFacts
<1>10. /\ known \subseteq Runs /\ turn \in [Runs -> ProjectTurn] /\ parked \subseteq Runs /\ closed \in BOOLEAN
  BY TypeFacts
<1>11. Tables'
  <2>1. turn' \in [Runs -> ProjectTurn]
    BY <1>1, <1>10 DEF ProjectTurn
  <2> QED
    BY <1>1, <1>2, <1>7, <1>8, <1>9, <1>10, <2>1 DEF Tables
<1>12. \A x \in Runs : run[x].turn # r
  <2> SUFFICES ASSUME NEW x \in Runs, run[x].turn = r PROVE FALSE
    OBVIOUS
  <2>1. InTurn(x) /\ r # NoRun
    BY RegistryConstants DEF IInv
  <2> QED
    BY <1>2, <2>1 DEF InTurn
<1>13. \A x \in Runs \ {r} :
         /\ run'[x].phase = run[x].phase
         /\ (Alive(x)' <=> Alive(x)) /\ (Busy(x)' <=> Busy(x))
         /\ Busy(x) \/ run'[x].turn # NoRun => run'[x] = run[x]
         /\ run'[x].turn = NoRun => run'[x].index = 0 /\ run'[x].phase # "queued"
         /\ KeepsPlace(x) \/ OutOfTurn(x)
  BY <1>8, StaysFacts
<1>14. ASSUME NEW x \in Runs PROVE Registered(x)'
  <2>1. CASE x = r
    BY <1>1, <1>5, <1>8, <2>1 DEF Registered, Finished
  <2>2. CASE x # r
    BY <1>1, <1>7, <1>8, <2>2, StaysRegistered
  <2> QED
    BY <2>1, <2>2
<1>15. ASSUME NEW x \in Runs PROVE InTurn(x)'
  <2>1. CASE x = r
    BY <1>3, <1>5, <1>8, <2>1 DEF InTurn
  <2>2. CASE x # r /\ run'[x].turn # NoRun
    <3>1. run'[x] = run[x] /\ InTurn(x) /\ run[x].turn \in Runs \ {r}
      BY <1>12, <1>13, <2>2, PhaseFacts, RunFields DEF IInv
    <3> QED
      BY <1>13, <2>2, <3>1 DEF InTurn
  <2>3. CASE x # r /\ run'[x].turn = NoRun
    BY <1>13, <2>3 DEF InTurn
  <2> QED
    BY <2>1, <2>2, <2>3
<1>16. ASSUME NEW x \in Runs PROVE Seated(x)'
  <2>1. CASE x = r
    <3>1. turn'[r].held = (n > 0)
      BY <1>1, <1>10
    <3>2. run'[x].turn = t /\ run'[x].index = 0
      BY <1>5, <1>8, <2>1
    <3>3. run'[x].turn # NoRun => turn'[run'[x].turn].held
      BY <1>3, <3>1, <3>2
    <3> QED
      BY <3>2, <3>3 DEF Seated
  <2>2. CASE x # r /\ Busy(x)
    <3>1. run'[x] = run[x] /\ run[x].turn # r
      BY <1>12, <1>13, <2>2
    <3>2. run[x].turn \in Runs \cup {NoRun} /\ InTurn(x) /\ Seated(x)
      BY PhaseFacts, RunFields DEF IInv
    <3>3. \A z \in Runs \ {r} : turn'[z] = turn[z]
      BY <1>1, <1>10
    <3> QED
      BY <2>2, <3>1, <3>2, <3>3 DEF Seated, InTurn
  <2>3. CASE x # r /\ ~Busy(x)
    BY <1>13, <2>3 DEF Seated
  <2> QED
    BY <2>1, <2>2, <2>3
<1>17. ASSUME NEW x \in Runs PROVE x \in parked' <=> run'[x].phase \in {"asking", "clarifying"}
  BY <1>2, <1>5, <1>8, <1>13, ParkedFacts
<1>18. ASSUME NEW x \in Runs, NEW y \in Runs PROVE InOrder(x, y)'
  <2>1. CASE x # r /\ y # r
    BY <1>13, <2>1, PlaceKept
  <2>2. CASE x = r \/ y = r
    <3> SUFFICES ASSUME SameTurn(x, y)' PROVE FALSE
      BY DEF InOrder
    <3>1. x # y /\ run'[y].turn # NoRun /\ run'[x].turn = run'[y].turn
      BY DEF SameTurn
    <3>2. \A z \in Runs \ {r} : run'[z].turn # NoRun => run'[z].turn # r
      BY <1>12, <1>13
    <3> QED
      BY <1>3, <1>5, <1>8, <2>2, <3>1, <3>2
  <2> QED
    BY <2>1, <2>2
<1>19. ASSUME NEW x \in Runs, NEW y \in Runs PROVE ~Clash(x, y)'
  <2> SUFFICES ASSUME x # y, Busy(x)', Busy(y)', run'[x].session # NoSession,
                      run'[x].session = run'[y].session,
                      ~ /\ run'[y].turn # NoRun /\ run'[x].turn = run'[y].turn
                        /\ "abandoned" \in {run'[x].phase, run'[y].phase}
               PROVE  FALSE
    BY DEF Clash
  <2>1. Busy(r)' => run'[r].session = s
    BY <1>5, <1>8 DEF Busy, Alive, Live
  <2>2. \A z \in Runs \ {r} : Busy(z)' => run'[z] = run[z] /\ Busy(z) /\ z \in Open
    BY <1>13, OpenFacts
  <2>3. CASE x = r
    BY <1>2, <2>1, <2>2, <2>3 DEF SessionFree
  <2>4. CASE y = r
    BY <1>2, <2>1, <2>2, <2>4 DEF SessionFree
  <2>5. CASE x # r /\ y # r
    <3>1. ~Clash(x, y)
      BY DEF IInv
    <3> QED
      BY <2>2, <2>5, <3>1 DEF Clash
  <2> QED
    BY <2>3, <2>4, <2>5
<1>20. ASSUME failures' = 0 PROVE Unharmed'
  <2>1. Unharmed /\ saved
    BY <1>9, <1>20 DEF IInv
  <2>2. \A c \in Runs : run'[c].phase \notin Lost
    BY <1>5, <1>8, <1>13, <2>1 DEF Unharmed, Lost
  <2>3. ASSUME NEW c \in Runs PROVE InFamily(c)'
    <3> SUFFICES ASSUME Alive(c)', run'[c].parent # NoRun
                 PROVE  /\ run'[c].parent \in Runs
                        /\ run'[run'[c].parent].phase = "delegating"
                        /\ run'[run'[c].parent].child = c
      BY DEF InFamily
    <3>1. c # r
      BY <1>5, <1>8
    <3>2. Alive(c) /\ run'[c] = run[c]
      BY <1>13, <3>1 DEF Busy
    <3>3. PICK p \in Runs : p = run[c].parent /\ run[p].phase = "delegating" /\ run[p].child = c
      BY <2>1, <3>2 DEF Unharmed, InFamily
    <3>4. p # r /\ run'[p] = run[p]
      BY <1>2, <1>13, <3>3 DEF Busy, Alive, Live
    <3> QED
      BY <3>2, <3>3, <3>4
  <2> QED
    BY <2>2, <2>3 DEF Unharmed
<1> QED
  BY <1>11, <1>14, <1>15, <1>16, <1>17, <1>18, <1>19, <1>20 DEF IInv

LEMMA StartChildKeeps == \A r, c \in Runs : IInv /\ StartChild(r, c) => IInv'
<1> SUFFICES ASSUME NEW r \in Runs, NEW c \in Runs, IInv, StartChild(r, c) PROVE IInv'
  OBVIOUS
<1> DEFINE child(saved) ==
             IF saved THEN [[Launched(NoSession, NoRun, 0) EXCEPT !.parent = r]
                              EXCEPT !.aborted = run[r].aborted]
             ELSE Orphan([Launched(NoSession, NoRun, 0) EXCEPT !.parent = r])
           phase(saved) == IF saved THEN "delegating" ELSE "working"
           next(saved) == IF saved THEN c ELSE run[r].child
<1>1. PICK kept \in Kept, saved \in BOOLEAN :
        /\ Written(saved)
        /\ known' = kept \cup {c}
        /\ run' = [Forget(kept) EXCEPT
             ![r].phase = IF saved THEN "delegating" ELSE "working",
             ![r].child = IF saved THEN c ELSE @,
             ![c] = child(saved)]
  BY DEF StartChild
<1>2. run[r].phase = "executing" /\ run[c].phase = "none" /\ UNCHANGED <<turn, parked, closed>>
  BY DEF StartChild
<1>3. r # c
  BY <1>2
<1>4. /\ kept \subseteq known /\ Open \subseteq kept /\ Forget(kept) \in [Runs -> ActiveRun]
      /\ \A x \in Runs : \/ Forget(kept)[x] = run[x]
                         \/ run[x].phase = "over" /\ Forget(kept)[x] = Forgotten(run[x].status)
  BY ForgetFacts
<1>5. run[r] \in ActiveRun /\ run[r].aborted \in BOOLEAN /\ run[r].child \in Runs \cup {NoRun}
  BY TypeFacts, RunFields
<1>6. PICK g : g = child(saved)
  OBVIOUS
<1>7. /\ g \in ActiveRun /\ g.phase = (IF saved THEN "working" ELSE "orphan")
      /\ g.status = "running" /\ g.turn = NoRun /\ g.index = 0 /\ g.parent = r
      /\ saved => g.session = NoSession
  <2> DEFINE l == Launched(NoSession, NoRun, 0)
             f == [l EXCEPT !.parent = r]
  <2>1. /\ l \in ActiveRun /\ l.phase = "working" /\ l.status = "running" /\ l.turn = NoRun
        /\ l.index = 0 /\ l.session = NoSession
    BY Bounds, LaunchedFacts
  <2>2. g = IF saved THEN [f EXCEPT !.aborted = run[r].aborted] ELSE Orphan(f)
    BY <1>6
  <2> HIDE DEF l
  <2>3. /\ f \in ActiveRun /\ f.phase = "working" /\ f.status = "running" /\ f.turn = NoRun
        /\ f.index = 0 /\ f.session = NoSession /\ f.parent = r
    BY <2>1 DEF ActiveRun
  <2> HIDE DEF f, child
  <2>4. CASE saved
    BY <1>5, <2>2, <2>3, <2>4 DEF ActiveRun
  <2>5. CASE ~saved
    BY <2>2, <2>3, <2>5, LostFacts
  <2> QED
    BY <2>4, <2>5
<1>8. PICK f : f = [run[r] EXCEPT !.phase = phase(saved), !.child = next(saved)]
  OBVIOUS
<1>9. /\ f \in ActiveRun /\ f.phase = phase(saved) /\ f.child = next(saved)
      /\ f.status = run[r].status /\ f.session = run[r].session /\ f.turn = run[r].turn
      /\ f.index = run[r].index /\ f.parent = run[r].parent
  <2>1. phase(saved) \in Phases /\ next(saved) \in Runs \cup {NoRun}
    BY <1>5 DEF Phases
  <2> QED
    BY <1>5, <1>8, <2>1 DEF ActiveRun
<1>10. Forget(kept)[r] = run[r]
  BY <1>2, <1>4
<1>11. run' = [Forget(kept) EXCEPT ![r] = f, ![c] = g]
  BY <1>1, <1>3, <1>4, <1>5, <1>6, <1>8, <1>10 DEF ActiveRun
<1>12. f.phase \in {"delegating", "working"} /\ (saved => f.phase = "delegating" /\ f.child = c)
  BY <1>9
<1> HIDE DEF child, phase, next
<1>13. /\ run' \in [Runs -> ActiveRun] /\ run'[r] = f /\ run'[c] = g
       /\ \A x \in Runs \ {r, c} : Stays(x)
  BY <1>3, <1>4, <1>7, <1>9, <1>11 DEF Stays
<1>14. /\ failures' \in 0..MaxFailures
       /\ failures' = 0 => saved /\ failures = 0
  BY <1>1, WrittenFacts
<1>15. Tables'
  BY <1>1, <1>2, <1>4, <1>13, <1>14, TypeFacts DEF Tables
<1>16. /\ Alive(r) /\ Alive(r)' /\ Busy(r) /\ KeepsPlace(r)
       /\ OutOfTurn(c) /\ (Busy(c)' => run'[c].session = NoSession)
  BY <1>2, <1>7, <1>9, <1>12, <1>13 DEF Alive, Busy, Live, KeepsPlace, OutOfTurn
<1>17. \A x \in Runs \ {r, c} :
         /\ run'[x].phase = run[x].phase
         /\ (Alive(x)' <=> Alive(x)) /\ (Busy(x)' <=> Busy(x))
         /\ Busy(x) \/ run'[x].turn # NoRun => run'[x] = run[x]
         /\ run'[x].turn = NoRun => run'[x].index = 0 /\ run'[x].phase # "queued"
         /\ KeepsPlace(x) \/ OutOfTurn(x)
  BY <1>13, StaysFacts
<1>18. \A x \in Runs \ {c} : Busy(x)' =>
         /\ Busy(x) /\ (Alive(x)' <=> Alive(x))
         /\ run'[x].session = run[x].session /\ run'[x].parent = run[x].parent
         /\ run'[x].turn = run[x].turn /\ run'[x].index = run[x].index
         /\ run'[x].phase = "abandoned" <=> run[x].phase = "abandoned"
  BY <1>2, <1>9, <1>12, <1>13, <1>16, <1>17
<1>19. ASSUME NEW x \in Runs PROVE Registered(x)'
  <2>1. CASE x = c
    BY <1>1, <1>7, <1>13, <2>1 DEF Registered, Finished
  <2>2. CASE x = r
    <3>1. Registered(r) /\ run[r].phase \in Live /\ r \in Open
      BY <1>2, OpenFacts DEF IInv, Live
    <3> QED
      BY <1>1, <1>4, <1>9, <1>12, <1>13, <2>2, <3>1 DEF Registered, Finished
  <2>3. CASE x # c /\ x # r
    BY <1>1, <1>4, <1>13, <2>3, StaysRegistered
  <2> QED
    BY <2>1, <2>2, <2>3
<1>20. ASSUME NEW x \in Runs PROVE InTurn(x)'
  <2>1. CASE x = c
    BY <1>7, <1>13, <2>1 DEF InTurn
  <2>2. CASE x # c /\ run'[x].turn # NoRun
    <3>1. /\ run'[x].turn = run[x].turn /\ InTurn(x)
          /\ run[x].turn \in Runs \cup {NoRun}
      BY <1>9, <1>13, <1>17, <2>2, PhaseFacts, RunFields DEF IInv
    <3>2. \A y \in Runs : run[y].phase # "none" => run'[y].phase # "none"
      BY <1>2, <1>12, <1>13, <1>17
    <3> QED
      BY <2>2, <3>1, <3>2 DEF InTurn
  <2>3. CASE x # c /\ run'[x].turn = NoRun
    <3>1. InTurn(r)
      BY DEF IInv
    <3> QED
      BY <1>9, <1>12, <1>13, <1>17, <2>3, <3>1 DEF InTurn
  <2> QED
    BY <2>1, <2>2, <2>3
<1>21. ASSUME NEW x \in Runs PROVE Seated(x)'
  <2>1. CASE x = c
    BY <1>7, <1>13, <2>1 DEF Seated
  <2>2. CASE x # c
    <3>1. Seated(x)
      BY DEF IInv
    <3> QED
      BY <1>2, <1>18, <2>2, <3>1 DEF Seated
  <2> QED
    BY <2>1, <2>2
<1>22. ASSUME NEW x \in Runs PROVE x \in parked' <=> run'[x].phase \in {"asking", "clarifying"}
  BY <1>2, <1>7, <1>12, <1>13, <1>17, ParkedFacts
<1>23. ASSUME NEW x \in Runs, NEW y \in Runs PROVE InOrder(x, y)'
  BY <1>16, <1>17, PlaceKept
<1>24. ASSUME NEW x \in Runs, NEW y \in Runs PROVE ~Clash(x, y)'
  <2> SUFFICES ASSUME Clash(x, y)' PROVE FALSE
    OBVIOUS
  <2>1. x # c /\ y # c
    BY <1>16 DEF Clash
  <2>2. ~Clash(x, y)
    BY DEF IInv
  <2> QED
    BY <1>18, <2>1, <2>2 DEF Clash
<1>25. ASSUME failures' = 0 PROVE Unharmed'
  <2>1. Unharmed /\ saved
    BY <1>14, <1>25 DEF IInv
  <2>2. \A x \in Runs : run'[x].phase \notin Lost
    BY <1>7, <1>12, <1>13, <1>17, <2>1 DEF Unharmed, Lost
  <2>3. ASSUME NEW d \in Runs PROVE InFamily(d)'
    <3> SUFFICES ASSUME Alive(d)', run'[d].parent # NoRun
                 PROVE  /\ run'[d].parent \in Runs
                        /\ run'[run'[d].parent].phase = "delegating"
                        /\ run'[run'[d].parent].child = d
      BY DEF InFamily
    <3>1. CASE d = c
      BY <1>7, <1>12, <1>13, <2>1, <3>1
    <3>2. CASE d # c
      <4>1. Alive(d) /\ run'[d].parent = run[d].parent
        BY <1>18, <3>2 DEF Busy
      <4>2. PICK p \in Runs : p = run[d].parent /\ run[p].phase = "delegating" /\ run[p].child = d
        BY <2>1, <4>1 DEF Unharmed, InFamily
      <4>3. p # r /\ p # c /\ run'[p] = run[p]
        BY <1>2, <1>17, <4>2 DEF Busy, Alive, Live
      <4> QED
        BY <4>1, <4>2, <4>3
    <3> QED
      BY <3>1, <3>2
  <2> QED
    BY <2>2, <2>3 DEF Unharmed
<1> QED
  BY <1>15, <1>19, <1>20, <1>21, <1>22, <1>23, <1>24, <1>25 DEF IInv

---------------------------------------------------------------------------
(* The end of a run.                                                        *)

Next1(r) == Launched(run[r].session, run[r].turn, run[r].index + 1)

(* What a handoff does of others: the next speaker is launched, or stranded *)
(* by a write that failed, and one launched before is replaced.             *)
Launches(n, r) == run[n].phase = "none" /\ run'[n] = Next1(r)
Strands(n, r) == run[n].phase = "none" /\ run'[n] = Orphan(Next1(r)) /\ failures' # 0
Replaces(n, r) == n \in NextSpeaker(r) /\ run'[n] = Orphan(run[n])

LEMMA Next1Facts ==
  ASSUME NEW r \in Runs, run[r] \in ActiveRun,
         run[r].index + 1 \in 0..MaxSpeakers, run[r].index + 1 # 0
  PROVE  /\ Next1(r) \in ActiveRun /\ Next1(r).phase = "queued" /\ Next1(r).status = "running"
         /\ Next1(r).turn = run[r].turn /\ Next1(r).index = run[r].index + 1
         /\ Next1(r).session = run[r].session /\ Next1(r).parent = NoRun
<1> DEFINE s == run[r].session
           t == run[r].turn
           i == run[r].index + 1
<1>1. /\ s \in Sessions \cup {NoSession} /\ t \in Runs \cup {NoRun}
      /\ i \in 0..MaxSpeakers /\ i # 0 /\ Next1(r) = Launched(s, t, i)
  BY RunFields DEF Next1
<1> HIDE DEF s, t, i
<1>2. /\ Next1(r) \in ActiveRun /\ Next1(r).phase = (IF i = 0 THEN "working" ELSE "queued")
      /\ Next1(r).status = "running" /\ Next1(r).turn = t
      /\ Next1(r).index = i /\ Next1(r).session = s /\ Next1(r).parent = NoRun
  BY <1>1, LaunchedFacts
<1> QED
  BY <1>1, <1>2 DEF s, t, i

(* A runner is left, in whichever way, or the report of that fails.         *)
LEMMA LeavesKeeps ==
  ASSUME IInv, UNCHANGED <<turn, parked, closed>>,
         NEW r \in Runs,
         run[r].phase \in {"working", "assessing", "executing", "delegating", "stopping", "abandoned"},
         NEW e \in ActiveRun, e.phase \in Closing, e.phase = "ended" <=> e.status # "running",
         e.turn = run[r].turn, e.index = run[r].index,
         e.phase = "abandoned" => e.session = run[r].session,
         failures' \in 0..MaxFailures,
         failures' = 0 => failures = 0 /\ e.phase = "ended" /\ run[r].phase # "delegating",
         NEW N \in SUBSET (Runs \ {r}), known' = known \cup N,
         run' \in [Runs -> ActiveRun], run'[r] = e,
         \A x \in Runs \ ({r} \cup N) : run'[x] = run[x] \/ Replaces(x, r),
         \A n \in N : Launches(n, r) \/ Strands(n, r),
         \A n \in N : Launches(n, r) => N = {n} /\ \A x \in NextSpeaker(r) : Replaces(x, r),
         N # {} => /\ run[r].turn # NoRun /\ turn[run[r].turn].saved
                   /\ run[r].index + 1 \in 0..MaxSpeakers
  PROVE  IInv'
<1>1. /\ run[r] \in ActiveRun /\ run[r].turn \in Runs \cup {NoRun}
      /\ run[r].session \in Sessions \cup {NoSession} /\ run[r].index \in Nat
  BY PhaseFacts, RunFields, Bounds
<1>2. /\ ~Alive(r)' /\ run'[r].phase \notin {"none", "queued", "orphan", "asking", "clarifying"}
      /\ Busy(r)' => run'[r].phase = "abandoned" /\ run'[r].session = run[r].session
      /\ Busy(r) /\ r \in Open
      /\ run[r].phase \in (Live \cup Closing) \ {"queued"}
      /\ run[r].phase \in (Live \ {"queued"}) \cup {"abandoned"}
      /\ run[r].phase \notin {"none", "orphan", "asking", "clarifying"}
  <2>1. run[r].phase \in Live \cup {"abandoned"}
    BY DEF Live
  <2>2. Busy(r) /\ r \in Open
    BY <2>1, OpenFacts DEF Busy, Alive
  <2> QED
    BY <2>2 DEF Busy, Alive, Live, Closing
<1>3. ASSUME NEW n \in N
      PROVE  /\ n \in Runs /\ n # r /\ run[n].phase = "none" /\ run[n] = NotRun /\ n \notin known
             /\ run'[n].status = "running" /\ run'[n].turn = run[r].turn /\ run[r].turn # NoRun
             /\ run'[n].index = run[r].index + 1 /\ run'[n].parent = NoRun
             /\ Launches(n, r) => run'[n].phase = "queued" /\ run'[n].session = run[r].session
             /\ ~Launches(n, r) => run'[n].phase = "orphan" /\ failures' # 0
  <2>1. /\ N # {} /\ run[r].turn # NoRun /\ run[r].index + 1 \in 0..MaxSpeakers
    OBVIOUS
  <2>2. run[r].index + 1 # 0
    BY <1>1
  <2>3. /\ Next1(r) \in ActiveRun /\ Next1(r).phase = "queued" /\ Next1(r).status = "running"
        /\ Next1(r).turn = run[r].turn /\ Next1(r).index = run[r].index + 1
        /\ Next1(r).session = run[r].session /\ Next1(r).parent = NoRun
    BY <1>1, <2>1, <2>2, Next1Facts
  <2>4. /\ Orphan(Next1(r)).phase = "orphan" /\ Orphan(Next1(r)).status = "running"
        /\ Orphan(Next1(r)).turn = run[r].turn /\ Orphan(Next1(r)).index = run[r].index + 1
        /\ Orphan(Next1(r)).parent = NoRun
    BY <2>3, LostFacts
  <2>5. run[n].phase = "none" /\ run[n] = NotRun /\ n \notin known
    BY DEF Launches, Strands, IInv, Registered
  <2> QED
    BY <2>1, <2>3, <2>4, <2>5 DEF Launches, Strands
<1>4. ASSUME NEW x \in Runs \ ({r} \cup N), Replaces(x, r)
      PROVE  /\ run'[x].phase = "orphan" /\ run'[x].status = run[x].status
             /\ run'[x].turn = run[x].turn /\ run'[x].parent = run[x].parent
             /\ run[r].phase = "abandoned" /\ run[x].phase = "queued" /\ ~Busy(x)'
  <2>1. x \in NextSpeaker(r) /\ run'[x] = Orphan(run[x]) /\ run[x] \in ActiveRun
    BY <1>4, PhaseFacts DEF Replaces
  <2>2. run[r].phase \in Closing /\ run[x].phase = "queued"
    BY <1>2, <2>1, NextSpeakerFacts, OthersOfTurn
  <2>3. run[r].phase = "abandoned"
    BY <2>2 DEF Closing
  <2>4. /\ run'[x].phase = "orphan" /\ run'[x].status = run[x].status
        /\ run'[x].turn = run[x].turn /\ run'[x].parent = run[x].parent
    BY <2>1, LostFacts
  <2> QED
    BY <2>2, <2>3, <2>4 DEF Busy, Alive, Live
<1>5. ASSUME NEW x \in Runs \ ({r} \cup N)
      PROVE  /\ run'[x].turn = run[x].turn /\ run'[x].status = run[x].status
             /\ run'[x].phase = "orphan" \/ run'[x] = run[x]
             /\ KeepsPlace(x) \/ OutOfTurn(x)
             /\ Busy(x)' => run'[x] = run[x] /\ Busy(x) /\ (Alive(x)' <=> Alive(x))
  BY <1>4 DEF Busy, Alive, KeepsPlace, OutOfTurn
<1>6. Tables'
  <2>1. known' \subseteq Runs
    BY TypeFacts
  <2> QED
    BY <2>1, TypeFacts DEF Tables
<1>7. ASSUME NEW x \in Runs PROVE Registered(x)'
  <2>1. Registered(x)
    BY DEF IInv
  <2>2. CASE x = r
    <3>1. r \in known'
      BY <1>2 DEF Open
    <3> QED
      BY <2>2, <3>1 DEF Registered, Finished, Closing, Live, Lost
  <2>3. CASE x \in N
    BY <1>3, <2>3 DEF Registered, Finished
  <2>4. CASE x \notin {r} \cup N /\ Replaces(x, r)
    <3>1. run'[x].phase = "orphan" /\ run'[x].status = run[x].status /\ run[x].phase = "queued"
      BY <1>4, <2>4
    <3> QED
      BY <2>1, <3>1 DEF Registered, Finished, Live
  <2>5. CASE x \notin {r} \cup N /\ run'[x] = run[x]
    BY <2>1, <2>5 DEF Registered, Finished
  <2> QED
    BY <2>2, <2>3, <2>4, <2>5
<1>8. ASSUME NEW x \in Runs PROVE InTurn(x)'
  <2>1. InTurn(x) /\ InTurn(r) /\ run[x].turn \in Runs \cup {NoRun}
    BY PhaseFacts, RunFields DEF IInv
  <2>2. \A y \in Runs : run[y].phase # "none" => run'[y].phase # "none"
    BY <1>2, <1>3, <1>5
  <2>3. CASE x = r
    BY <1>1, <1>2, <2>1, <2>2, <2>3 DEF InTurn
  <2>4. CASE x \in N
    BY <1>1, <1>3, <2>1, <2>2, <2>4 DEF InTurn
  <2>5. CASE x \notin {r} \cup N /\ Replaces(x, r)
    <3>1. run[x].turn # NoRun /\ run'[x].turn = run[x].turn
      BY <1>4, <2>5, NextSpeakerFacts DEF Replaces
    <3> QED
      BY <2>1, <2>2, <3>1 DEF InTurn
  <2>6. CASE x \notin {r} \cup N /\ run'[x] = run[x]
    BY <2>1, <2>2, <2>6 DEF InTurn
  <2> QED
    BY <2>3, <2>4, <2>5, <2>6
<1>9. ASSUME NEW x \in Runs PROVE Seated(x)'
  <2>1. Seated(x) /\ Seated(r)
    BY DEF IInv
  <2>2. CASE x = r
    BY <1>2, <2>1, <2>2 DEF Seated
  <2>3. CASE x \in N
    <3>1. run'[x].turn = run[r].turn /\ run[r].turn # NoRun /\ turn[run[r].turn].saved
      BY <1>3, <2>3
    <3>2. turn[run[r].turn].held
      BY <1>2, <2>1, <3>1 DEF Seated
    <3> QED
      BY <3>1, <3>2 DEF Seated
  <2>4. CASE x \notin {r} \cup N
    BY <1>5, <2>1, <2>4 DEF Seated
  <2> QED
    BY <2>2, <2>3, <2>4
<1>10. ASSUME NEW x \in Runs PROVE x \in parked' <=> run'[x].phase \in {"asking", "clarifying"}
  <2>1. x \in parked <=> run[x].phase \in {"asking", "clarifying"}
    BY ParkedFacts
  <2>2. CASE x = r
    BY <1>2, <2>1, <2>2
  <2>3. CASE x \in N
    <3>1. run[x].phase = "none" /\ run'[x].phase \in {"queued", "orphan"}
      BY <1>3, <2>3
    <3> QED
      BY <2>1, <3>1
  <2>4. CASE x \notin {r} \cup N
    BY <1>4, <2>1, <2>4
  <2> QED
    BY <2>2, <2>3, <2>4
<1>11. ASSUME NEW x \in Runs \ ({r} \cup N), run'[x].turn = run[r].turn, run[r].turn # NoRun,
              run'[x].phase # "orphan"
       PROVE  /\ run'[x] = run[x]
              /\ \/ /\ x \in NextSpeaker(r) /\ run[x].phase = "queued" /\ Alive(x)'
                    /\ run'[x].index = run[r].index + 1
                    /\ \A n \in N : ~Launches(n, r)
                 \/ run'[x].phase \in Resting /\ run'[x].index < run[r].index /\ ~Alive(x)'
  <2>1. run'[x] = run[x] /\ ~Replaces(x, r)
    BY <1>4, <1>5, <1>11
  <2>2. SameTurn(x, r)
    BY <1>2, <1>11, <2>1 DEF SameTurn
  <2>3. CASE x \in NextSpeaker(r) /\ Alive(x) /\ run[x].phase = "queued"
    BY <2>1, <2>3, NextSpeakerFacts DEF Alive
  <2>4. CASE run[x].phase \in Resting /\ run[x].index < run[r].index
    BY <2>1, <2>4 DEF Alive, Live, Resting
  <2> QED
    BY <1>2, <2>2, <2>3, <2>4, OthersOfTurn
<1>12. ASSUME NEW x \in Runs, NEW y \in Runs PROVE InOrder(x, y)'
  <2> SUFFICES ASSUME SameTurn(x, y)' PROVE InOrder(x, y)'
    BY DEF InOrder
  <2>1. /\ x # y /\ run'[y].turn # NoRun /\ run'[x].turn = run'[y].turn
        /\ run'[x].phase # "orphan" /\ run'[y].phase # "orphan"
    BY DEF SameTurn
  <2>2. \A n \in N : n \in {x, y} => /\ Launches(n, r) /\ N = {n} /\ Alive(n)'
                                     /\ run'[n].phase = "queued"
    BY <1>3, <2>1 DEF Alive, Live
  <2>3. CASE x \notin {r} \cup N /\ y \notin {r} \cup N
    BY <1>5, <2>3, PlaceKept
  <2>4. CASE x = r /\ y \notin N
    <3>1. \/ /\ run'[y].phase = "queued" /\ run'[y].index = run'[r].index + 1
          \/ run'[y].phase \in Resting /\ ~Alive(y)'
      BY <1>11, <2>1, <2>4
    <3>2. run'[r].index < run'[r].index + 1
      BY <1>1
    <3> QED
      BY <2>4, <3>1, <3>2 DEF InOrder, Closing, Resting
  <2>5. CASE y = r /\ x \notin N
    <3>1. Alive(x)' \/ (run'[x].phase \in Resting /\ run'[x].index < run'[r].index)
      BY <1>11, <2>1, <2>5
    <3> QED
      BY <1>2, <2>5, <3>1 DEF InOrder
  <2>6. CASE x = r /\ y \in N
    <3>1. /\ run'[y].phase = "queued" /\ run'[y].index = run'[r].index + 1
          /\ run'[r].index < run'[r].index + 1
      BY <1>1, <1>3, <2>2, <2>6
    <3> QED
      BY <2>6, <3>1 DEF InOrder, Closing
  <2>7. CASE y = r /\ x \in N
    BY <1>2, <2>2, <2>7 DEF InOrder
  <2>8. CASE y \in N /\ x \notin {r} \cup N
    <3>1. /\ Launches(y, r) /\ run'[y].phase = "queued" /\ run'[y].turn = run[r].turn
          /\ run'[y].index = run[r].index + 1 /\ run[r].turn # NoRun
      BY <1>3, <2>2, <2>8
    <3>2. run'[x].phase \in Resting /\ run'[x].index < run[r].index
      BY <1>11, <2>1, <2>8, <3>1
    <3>3. run'[x].index < run'[y].index
      <4>1. run'[x].index \in Nat
        BY Bounds, RunFields
      <4> QED
        BY <1>1, <3>1, <3>2, <4>1
    <3> QED
      BY <3>1, <3>2, <3>3 DEF InOrder, Closing, Resting
  <2>9. CASE x \in N /\ y \notin {r} \cup N
    <3>1. Launches(x, r) /\ run'[x].turn = run[r].turn /\ run[r].turn # NoRun
      BY <1>3, <2>2, <2>9
    <3>2. run'[y].phase \in Resting /\ ~Alive(y)'
      BY <1>11, <2>1, <2>9, <3>1
    <3> QED
      BY <3>2 DEF InOrder, Closing, Resting
  <2>10. ~(x \in N /\ y \in N)
    BY <2>1, <2>2
  <2> QED
    BY <2>1, <2>3, <2>4, <2>5, <2>6, <2>7, <2>8, <2>9, <2>10
<1>13. ASSUME NEW x \in Runs, NEW y \in Runs \ ({r} \cup N), x \in {r} \cup N, Clash(x, y)' PROVE FALSE
  <2>1. /\ Busy(x)' /\ Busy(y)' /\ run'[x].session # NoSession /\ run'[x].session = run'[y].session
        /\ ~(run'[y].turn # NoRun /\ run'[x].turn = run'[y].turn /\ run'[x].phase = "abandoned")
    BY <1>13 DEF Clash
  <2>2. run'[y] = run[y] /\ Busy(y)
    BY <1>5, <2>1
  <2>3. run'[x].session = run[r].session /\ run'[x].turn = run[r].turn
    BY <1>2, <1>3, <1>13, <2>1 DEF Busy, Alive, Live
  <2>4. y \in NextSpeaker(r)
    BY <1>2, <2>1, <2>2, <2>3, Alone
  <2>5. CASE x = r
    BY <1>2, <2>1, <2>2, <2>3, <2>4, <2>5, NextSpeakerFacts
  <2>6. CASE x \in N
    <3>1. Launches(x, r)
      BY <1>3, <2>1, <2>6 DEF Busy, Alive, Live
    <3>2. Replaces(y, r)
      BY <2>4, <2>6, <3>1
    <3> QED
      BY <1>4, <2>1, <3>2
  <2> QED
    BY <1>13, <2>5, <2>6
<1>14. ASSUME NEW x \in Runs, NEW y \in Runs PROVE ~Clash(x, y)'
  <2> SUFFICES ASSUME Clash(x, y)' PROVE FALSE
    OBVIOUS
  <2>1. Clash(y, x)' /\ x # y
    BY DEF Clash
  <2>2. CASE x \in {r} \cup N /\ y \notin {r} \cup N
    BY <1>13, <2>2
  <2>3. CASE y \in {r} \cup N /\ x \notin {r} \cup N
    BY <1>13, <2>1, <2>3
  <2>4. CASE x \notin {r} \cup N /\ y \notin {r} \cup N
    <3>1. run'[x] = run[x] /\ run'[y] = run[y] /\ Busy(x) /\ Busy(y)
      BY <1>5, <2>4 DEF Clash
    <3>2. ~Clash(x, y)
      BY DEF IInv
    <3> QED
      BY <3>1, <3>2 DEF Clash
  <2>5. CASE x \in {r} \cup N /\ y \in {r} \cup N
    <3>1. \A n \in N : n \in {x, y} => Launches(n, r) /\ N = {n}
      BY <1>3 DEF Clash, Busy, Alive, Live
    <3>2. r \in {x, y} /\ \E n \in N : n \in {x, y}
      BY <2>1, <2>5, <3>1
    <3>3. Busy(r)'
      BY <3>2 DEF Clash
    <3>4. "abandoned" \in {run'[x].phase, run'[y].phase}
      BY <1>2, <3>2, <3>3
    <3>5. run'[x].turn = run[r].turn /\ run'[y].turn = run[r].turn /\ run[r].turn # NoRun
      BY <1>3, <2>5, <3>2
    <3> QED
      BY <3>4, <3>5 DEF Clash
  <2> QED
    BY <2>2, <2>3, <2>4, <2>5
<1>15. ASSUME failures' = 0 PROVE Unharmed'
  <2>1. Unharmed /\ e.phase = "ended" /\ run[r].phase # "delegating" /\ run[r].phase # "abandoned"
    BY <1>15 DEF IInv, Unharmed, Lost
  <2>2. \A x \in Runs \ ({r} \cup N) : run'[x] = run[x]
    BY <1>4, <2>1
  <2>3. \A x \in Runs : run'[x].phase \notin Lost
    BY <1>3, <1>15, <2>1, <2>2 DEF Unharmed, Lost
  <2>4. ASSUME NEW c \in Runs PROVE InFamily(c)'
    <3> SUFFICES ASSUME Alive(c)', run'[c].parent # NoRun
                 PROVE  /\ run'[c].parent \in Runs
                        /\ run'[run'[c].parent].phase = "delegating"
                        /\ run'[run'[c].parent].child = c
      BY DEF InFamily
    <3>1. c \notin {r} \cup N
      BY <1>2, <1>3
    <3>2. run'[c] = run[c] /\ Alive(c)
      BY <2>2, <3>1 DEF Alive
    <3>3. PICK p \in Runs : p = run[c].parent /\ run[p].phase = "delegating" /\ run[p].child = c
      BY <2>1, <3>2 DEF Unharmed, InFamily
    <3>4. p \notin {r} \cup N
      BY <1>3, <2>1, <3>3
    <3> QED
      BY <2>2, <3>2, <3>3, <3>4
  <2> QED
    BY <2>3, <2>4 DEF Unharmed
<1> QED
  BY <1>6, <1>7, <1>8, <1>9, <1>10, <1>12, <1>14, <1>15 DEF IInv

(* How a run may leave its runner: e is what becomes of it.                 *)
Leaves(r, e) ==
  /\ run[r].phase \in {"working", "assessing", "executing", "delegating", "stopping", "abandoned"}
  /\ e \in ActiveRun /\ e.phase \in Closing /\ (e.phase = "ended" <=> e.status # "running")
  /\ e.turn = run[r].turn /\ e.index = run[r].index
  /\ e.phase = "abandoned" => e.session = run[r].session
  /\ failures' \in 0..MaxFailures
  /\ failures' = 0 => failures = 0 /\ e.phase = "ended" /\ run[r].phase # "delegating"

LEMMA LeftKeeps ==
  ASSUME IInv, UNCHANGED <<known, turn, parked, closed>>,
         NEW r \in Runs, NEW e, Leaves(r, e), run' = [run EXCEPT ![r] = e]
  PROVE  IInv'
<1> DEFINE N == {}
<1>1. /\ run' \in [Runs -> ActiveRun] /\ run'[r] = e
      /\ \A x \in Runs \ ({r} \cup N) : run'[x] = run[x]
  BY TypeFacts DEF Leaves
<1>2. N \in SUBSET (Runs \ {r}) /\ known' = known \cup N
  OBVIOUS
<1>3. \A n \in N : FALSE
  OBVIOUS
<1> HIDE DEF N
<1> QED
  BY <1>1, <1>2, <1>3, LeavesKeeps DEF Leaves

LEMMA HandedKeeps ==
  ASSUME IInv, UNCHANGED <<turn, parked, closed>>,
         NEW r \in Runs, NEW e, Leaves(r, e),
         run[r].turn # NoRun, turn[run[r].turn].saved, run[r].index + 1 < turn[run[r].turn].speakers,
         NEW n \in Fresh, NEW next \in {"orphan", "queued"}, next = "orphan" => failures' # 0,
         run' = Handed(r, e, n, next), known' = known \cup {n}
  PROVE  IInv'
<1>1. run[r] \in ActiveRun /\ run[r].turn \in Runs /\ run[r].index \in Nat
  BY PhaseFacts, RunFields, Bounds
<1>2. run[r].index + 1 \in 0..MaxSpeakers /\ run[r].index + 1 # 0
  <2>1. turn[run[r].turn].speakers \in 0..MaxSpeakers
    BY <1>1, TypeFacts DEF ProjectTurn
  <2> QED
    BY <1>1, <2>1, Bounds
<1>3. n \in Runs /\ n # r /\ run[n].phase = "none"
  BY DEF Fresh, Leaves
<1>4. n \notin NextSpeaker(r)
  <2> SUFFICES ASSUME n \in NextSpeaker(r) PROVE FALSE
    OBVIOUS
  <2>1. run[n].turn # NoRun /\ run[n] = NotRun
    BY <1>3, NextSpeakerFacts DEF IInv, Registered
  <2> QED
    BY <2>1, NotRunFacts
<1>5. PICK l : l = [Next1(r) EXCEPT !.phase = next]
  OBVIOUS
<1>6. /\ l \in ActiveRun
      /\ next = "queued" => l = Next1(r)
      /\ next = "orphan" => l = Orphan(Next1(r))
  <2>1. Next1(r) \in ActiveRun /\ Next1(r).phase = "queued"
    BY <1>1, <1>2, Next1Facts
  <2>2. next \in Phases
    BY DEF Phases, Lost
  <2>3. l \in ActiveRun
    BY <1>5, <2>1, <2>2 DEF ActiveRun
  <2>4. next = "queued" => l = Next1(r)
    BY <1>5, <2>1 DEF ActiveRun
  <2> QED
    BY <1>5, <2>3, <2>4 DEF Orphan
<1>7. run' = [x \in Runs |->
         IF x = r THEN e ELSE IF x = n THEN l
         ELSE IF next = "queued" /\ x \in NextSpeaker(r) THEN Orphan(run[x]) ELSE run[x]]
  BY <1>5 DEF Handed, Next1
<1> DEFINE N == {n}
<1>8. run' \in [Runs -> ActiveRun]
  <2>1. \A x \in Runs : run[x] \in ActiveRun /\ Orphan(run[x]) \in ActiveRun
    BY PhaseFacts, LostFacts
  <2>2. e \in ActiveRun
    BY DEF Leaves
  <2> QED
    BY <1>6, <1>7, <2>1, <2>2
<1>9. /\ run'[r] = e /\ run'[n] = l
      /\ \A x \in Runs \ ({r} \cup N) :
           run'[x] = IF next = "queued" /\ x \in NextSpeaker(r) THEN Orphan(run[x]) ELSE run[x]
  BY <1>3, <1>7
<1>10. \A x \in Runs \ ({r} \cup N) :
         /\ run'[x] = run[x] \/ Replaces(x, r)
         /\ next = "queued" /\ x \in NextSpeaker(r) => Replaces(x, r)
  BY <1>9 DEF Replaces
<1>11. \A x \in N : Launches(x, r) \/ Strands(x, r)
  BY <1>3, <1>6, <1>9 DEF Launches, Strands
<1>12. \A x \in N : Launches(x, r) => N = {x} /\ \A y \in NextSpeaker(r) : Replaces(y, r)
  <2> SUFFICES ASSUME Launches(n, r), NEW y \in NextSpeaker(r) PROVE Replaces(y, r)
    OBVIOUS
  <2>1. next = "queued"
    <3> SUFFICES ASSUME next = "orphan" PROVE FALSE
      OBVIOUS
    <3>1. Next1(r) \in ActiveRun /\ Next1(r).phase = "queued" /\ run'[n] = Next1(r)
      BY <1>1, <1>2, Next1Facts DEF Launches
    <3>2. run'[n].phase = "orphan"
      BY <1>6, <1>9, <3>1, LostFacts
    <3> QED
      BY <3>1, <3>2
  <2>2. y \in Runs \ ({r} \cup N)
    BY <1>4, NextSpeakerFacts
  <2> QED
    BY <1>10, <2>1, <2>2
<1>13. N \in SUBSET (Runs \ {r}) /\ known' = known \cup N
  BY <1>3
<1> HIDE DEF N
<1>14. /\ run' \in [Runs -> ActiveRun] /\ run'[r] = e
       /\ \A x \in Runs \ ({r} \cup N) : run'[x] = run[x] \/ Replaces(x, r)
       /\ \A x \in N : Launches(x, r) \/ Strands(x, r)
       /\ \A x \in N : Launches(x, r) => N = {x} /\ \A y \in NextSpeaker(r) : Replaces(y, r)
       /\ N # {} => /\ run[r].turn # NoRun /\ turn[run[r].turn].saved
                    /\ run[r].index + 1 \in 0..MaxSpeakers
  BY <1>2, <1>8, <1>9, <1>10, <1>11, <1>12
<1>15. /\ run[r].phase \in {"working", "assessing", "executing", "delegating", "stopping", "abandoned"}
       /\ e \in ActiveRun /\ e.phase \in Closing /\ (e.phase = "ended" <=> e.status # "running")
       /\ e.turn = run[r].turn /\ e.index = run[r].index
       /\ e.phase = "abandoned" => e.session = run[r].session
       /\ failures' \in 0..MaxFailures
       /\ failures' = 0 => failures = 0 /\ e.phase = "ended" /\ run[r].phase # "delegating"
  BY DEF Leaves
<1> QED
  BY <1>13, <1>14, <1>15, LeavesKeeps

LEMMA ContinuesFacts ==
  ASSUME NEW r \in Runs, NEW status, Continues(r, status)
  PROVE  /\ run[r].turn # NoRun /\ turn[run[r].turn].saved
         /\ run[r].index + 1 < turn[run[r].turn].speakers
BY DEF Continues

LEMMA EndsKeeps ==
  ASSUME IInv, UNCHANGED failures, NEW r \in Runs, NEW status \in Statuses \ {"running"},
         run[r].phase \in {"working", "assessing", "stopping", "abandoned"}, Ends(r, status)
  PROVE  IInv'
<1> DEFINE e == [Past(run[r], status) EXCEPT !.phase = "ended"]
<1>1. UNCHANGED <<turn, parked, closed>>
  BY DEF Ends
<1>2. IF Continues(r, status)
      THEN \E n \in Fresh : run' = Handed(r, e, n, "queued") /\ known' = known \cup {n}
      ELSE run' = [run EXCEPT ![r] = e] /\ UNCHANGED known
  BY DEF Ends
<1>3. /\ e \in ActiveRun /\ e.phase = "ended" /\ e.status = status
      /\ e.turn = run[r].turn /\ e.index = run[r].index
  BY PhaseFacts, PastFacts
<1> HIDE DEF e
<1>4. Leaves(r, e)
  BY <1>3, TypeFacts DEF Leaves, Closing
<1>5. CASE Continues(r, status)
  <2>1. PICK n \in Fresh : run' = Handed(r, e, n, "queued") /\ known' = known \cup {n}
    BY <1>2, <1>5
  <2> QED
    BY <1>1, <1>4, <1>5, <2>1, ContinuesFacts, HandedKeeps
<1>6. CASE ~Continues(r, status)
  BY <1>1, <1>2, <1>4, <1>6, LeftKeeps
<1> QED
  BY <1>5, <1>6

LEMMA DoneKeeps == \A r \in Runs, status \in Statuses : IInv /\ Done(r, status) => IInv'
BY EndsKeeps DEF Done, MayEnd

LEMMA CatchKeeps == \A r \in Runs : IInv /\ Catch(r) => IInv'
BY EndsKeeps DEF Catch, Statuses

LEMMA AbandonedLeaves ==
  ASSUME IInv, Fails, NEW r \in Runs,
         run[r].phase \in {"working", "assessing", "executing", "delegating", "stopping"}
  PROVE  Leaves(r, Abandoned(run[r]))
<1>1. run[r] \in ActiveRun /\ failures' \in 0..MaxFailures /\ failures' # 0
  BY PhaseFacts, FailsFacts
<1>2. run[r].status = "running"
  BY OpenFacts DEF Finished
<1>3. /\ Abandoned(run[r]) \in ActiveRun /\ Abandoned(run[r]).phase = "abandoned"
      /\ Abandoned(run[r]).status = run[r].status /\ Abandoned(run[r]).turn = run[r].turn
      /\ Abandoned(run[r]).index = run[r].index /\ Abandoned(run[r]).session = run[r].session
  BY <1>1, LostFacts
<1> QED
  BY <1>1, <1>2, <1>3 DEF Leaves, Closing

LEMMA WriteFailsKeeps == \A r \in Runs : IInv /\ WriteFails(r) => IInv'
<1> SUFFICES ASSUME NEW r \in Runs, IInv, WriteFails(r) PROVE IInv'
  OBVIOUS
<1>1. /\ run[r].phase \in {"working", "assessing", "executing", "delegating", "stopping"}
      /\ Fails /\ UNCHANGED <<known, turn, parked, closed>>
      /\ run' = [run EXCEPT ![r] = Abandoned(run[r])]
  BY DEF WriteFails
<1> QED
  BY <1>1, AbandonedLeaves, LeftKeeps

LEMMA HandoffThrowsKeeps ==
  ASSUME IInv, Fails, UNCHANGED <<turn, parked, closed>>, NEW r \in Runs, NEW e, Leaves(r, e),
         NEW status, Continues(r, status), HandoffThrows(r, e)
  PROVE  IInv'
<1>1. PICK n \in Fresh, next \in {"orphan", "queued"} :
        run' = Handed(r, e, n, next) /\ known' = known \cup {n}
  BY DEF HandoffThrows
<1>2. failures' # 0
  BY FailsFacts
<1> QED
  BY <1>1, <1>2, ContinuesFacts, HandedKeeps

LEMMA HandoffFailsKeeps == \A r \in Runs, status \in Statuses : IInv /\ HandoffFails(r, status) => IInv'
<1> SUFFICES ASSUME NEW r \in Runs, NEW status \in Statuses, IInv, HandoffFails(r, status) PROVE IInv'
  OBVIOUS
<1>1. /\ run[r].phase \in {"working", "assessing", "stopping"} /\ Continues(r, status)
      /\ Fails /\ UNCHANGED <<turn, parked, closed>> /\ HandoffThrows(r, Abandoned(run[r]))
  BY DEF HandoffFails, MayEnd
<1>2. Leaves(r, Abandoned(run[r]))
  BY <1>1, AbandonedLeaves
<1> QED
  BY <1>1, <1>2, HandoffThrowsKeeps

LEMMA CatchFailsKeeps == \A r \in Runs : IInv /\ CatchFails(r) => IInv'
<1> SUFFICES ASSUME NEW r \in Runs, IInv, CatchFails(r) PROVE IInv'
  OBVIOUS
<1> DEFINE e == [run[r] EXCEPT !.phase = "broken"]
<1>1. /\ run[r].phase = "abandoned" /\ Fails /\ UNCHANGED <<turn, parked, closed>>
      /\ \/ run' = [run EXCEPT ![r] = e] /\ UNCHANGED known
         \/ Continues(r, "failed") /\ HandoffThrows(r, e)
  BY DEF CatchFails
<1>2. Leaves(r, e)
  <2>1. run[r] \in ActiveRun /\ failures' \in 0..MaxFailures /\ failures' # 0
    BY <1>1, PhaseFacts, FailsFacts
  <2>2. run[r].status = "running"
    BY <1>1, OpenFacts DEF Finished
  <2>3. /\ e \in ActiveRun /\ e.phase = "broken" /\ e.status = run[r].status
        /\ e.turn = run[r].turn /\ e.index = run[r].index
    BY <2>1 DEF ActiveRun, Phases, Lost
  <2> QED
    BY <1>1, <2>1, <2>2, <2>3 DEF Leaves, Closing
<1> HIDE DEF e
<1>3. CASE run' = [run EXCEPT ![r] = e] /\ UNCHANGED known
  BY <1>1, <1>2, <1>3, LeftKeeps
<1>4. CASE Continues(r, "failed") /\ HandoffThrows(r, e)
  BY <1>1, <1>2, <1>4, HandoffThrowsKeeps
<1> QED
  BY <1>1, <1>3, <1>4

---------------------------------------------------------------------------
(* The end of a pump.                                                       *)

(* The next speaker starts; other runs have come to rest, where they were   *)
(* in their turn or out of it.                                              *)
Advances(x, r) == x \in NextSpeaker(r) /\ run'[x] = [run[x] EXCEPT !.phase = "working"]

Rests(x) ==
  /\ run[x].phase \in Closing \cup Resting \cup {"queued", "orphan"}
  /\ \/ run'[x].phase = "over" /\ run'[x].status # "running"
     \/ run'[x].phase \in {"dead", "orphan"} /\ run'[x].status = "running" /\ run[x].phase \in Lost
  /\ \/ run'[x].turn = NoRun /\ run'[x].index = 0
     \/ run'[x].turn = run[x].turn /\ run'[x].index = run[x].index /\ run[x].phase # "queued"

LEMMA AdvancesFacts ==
  ASSUME IInv, NEW r \in Runs, run[r].phase \in Closing, NEW x \in Runs, Advances(x, r)
  PROVE  /\ x # r /\ SameTurn(x, r) /\ run[x].phase = "queued" /\ Alive(x) /\ run'[x].phase = "working"
         /\ run'[x].status = run[x].status /\ run'[x].session = run[x].session
         /\ run'[x].turn = run[x].turn /\ run'[x].index = run[x].index /\ run'[x].parent = run[x].parent
         /\ run[x].turn = run[r].turn /\ run[x].index = run[r].index + 1
<1>1. /\ x # r /\ SameTurn(x, r) /\ x \in NextSpeaker(r)
      /\ run[x].turn = run[r].turn /\ run[x].index = run[r].index + 1
  BY NextSpeakerFacts DEF Advances
<1>2. run[r].phase \in (Live \cup Closing) \ {"queued"}
  BY DEF Closing
<1>3. run[x].phase = "queued" /\ Alive(x)
  BY <1>1, <1>2, OthersOfTurn
<1>4. run[x] \in ActiveRun
  BY PhaseFacts
<1>5. /\ run'[x].phase = "working"
      /\ run'[x].status = run[x].status /\ run'[x].session = run[x].session
      /\ run'[x].turn = run[x].turn /\ run'[x].index = run[x].index /\ run'[x].parent = run[x].parent
  BY <1>4 DEF Advances, ActiveRun
<1> QED
  BY <1>1, <1>3, <1>5

LEMMA RestsFacts ==
  ASSUME NEW x \in Runs, Rests(x)
  PROVE  /\ ~Alive(x)' /\ ~Busy(x)'
         /\ run[x].phase \notin {"none", "asking", "clarifying", "delegating"}
         /\ run'[x].phase \notin {"none", "queued", "asking", "clarifying"} \cup Closing
BY DEF Rests, Alive, Busy, Live, Closing, Resting

LEMMA PumpKeeps ==
  ASSUME IInv, UNCHANGED <<known, parked, closed>>,
         NEW r \in Runs, run[r].phase \in Closing, Rests(r), run'[r].phase # "orphan",
         run' \in [Runs -> ActiveRun], turn' \in [Runs -> ProjectTurn],
         failures' \in 0..MaxFailures, failures' = 0 => failures = 0,
         \A x \in Runs \ {r} : \/ run'[x] = run[x] /\ x \notin NextSpeaker(r)
                               \/ Advances(x, r)
                               \/ Rests(x) /\ OutOfTurn(x),
         \A t \in Runs : \/ turn'[t].held = turn[t].held /\ turn'[t].saved = turn[t].saved
                         \/ \A x \in Runs : run[x].turn = t => Rests(x)
  PROVE  IInv'
<1>1. \A x \in Runs : run[x] \in ActiveRun /\ run[x].index \in Nat /\ run[x].turn \in Runs \cup {NoRun}
  BY PhaseFacts, RunFields, Bounds
<1>2. ASSUME NEW x \in Runs
      PROVE  /\ run[x].phase = "none" <=> run'[x].phase = "none"
             /\ run[x].phase = "none" => run'[x] = run[x]
             /\ Busy(x)' => /\ Busy(x) /\ run'[x].session = run[x].session /\ run'[x].turn = run[x].turn
                            /\ run'[x].index = run[x].index /\ run'[x].parent = run[x].parent
                            /\ run'[x].phase = "abandoned" => run'[x] = run[x]
             /\ Alive(x)' => Alive(x)
  <2>1. CASE Rests(x)
    BY <2>1, RestsFacts DEF Busy
  <2>2. CASE Advances(x, r)
    BY <2>2, AdvancesFacts DEF Busy
  <2>3. CASE run'[x] = run[x]
    BY <2>3 DEF Busy, Alive
  <2> QED
    BY <2>1, <2>2, <2>3
<1>3. Tables'
  BY TypeFacts DEF Tables
<1>4. ASSUME NEW x \in Runs PROVE Registered(x)'
  <2>1. Registered(x)
    BY DEF IInv
  <2>2. CASE Rests(x)
    BY <2>1, <2>2, RestsFacts DEF Rests, Registered, Finished, Live, Lost
  <2>3. CASE Advances(x, r)
    BY <2>1, <2>3, AdvancesFacts DEF Registered, Finished, Live
  <2>4. CASE run'[x] = run[x]
    BY <2>1, <2>4 DEF Registered, Finished
  <2> QED
    BY <2>2, <2>3, <2>4
<1>5. ASSUME NEW x \in Runs PROVE InTurn(x)'
  <2>1. InTurn(x) /\ run[x].turn \in Runs \cup {NoRun}
    BY <1>1 DEF IInv
  <2>2. CASE Rests(x)
    <3>1. run'[x].phase # "queued"
      BY <2>2, RestsFacts
    <3> QED
      BY <1>2, <2>1, <2>2, <3>1 DEF Rests, InTurn
  <2>3. CASE Advances(x, r)
    <3>1. run[x].turn # NoRun /\ run'[x].turn = run[x].turn
      BY <2>3, AdvancesFacts DEF SameTurn
    <3> QED
      BY <1>2, <2>1, <3>1 DEF InTurn
  <2>4. CASE run'[x] = run[x]
    BY <1>2, <2>1, <2>4 DEF InTurn
  <2> QED
    BY <2>2, <2>3, <2>4
<1>6. ASSUME NEW x \in Runs PROVE Seated(x)'
  <2> SUFFICES ASSUME Busy(x)' PROVE Seated(x)'
    BY DEF Seated
  <2>1. Seated(x) /\ Busy(x) /\ run'[x].turn = run[x].turn /\ run'[x].index = run[x].index /\ ~Rests(x)
    BY <1>2, RestsFacts DEF IInv
  <2>2. run[x].turn # NoRun => /\ turn'[run[x].turn].held = turn[run[x].turn].held
                               /\ turn'[run[x].turn].saved = turn[run[x].turn].saved
    BY <1>1, <2>1
  <2>3. run[x].index > 0 => run[x].turn # NoRun
    <3>1. InTurn(x)
      BY DEF IInv
    <3> QED
      BY <1>1, <3>1 DEF InTurn
  <2> QED
    BY <2>1, <2>2, <2>3 DEF Seated
<1>7. ASSUME NEW x \in Runs PROVE x \in parked' <=> run'[x].phase \in {"asking", "clarifying"}
  <2>1. x \in parked <=> run[x].phase \in {"asking", "clarifying"}
    BY ParkedFacts
  <2>2. CASE Rests(x)
    BY <2>1, <2>2, RestsFacts
  <2>3. CASE Advances(x, r)
    BY <2>1, <2>3, AdvancesFacts
  <2>4. CASE run'[x] = run[x]
    BY <2>1, <2>4
  <2> QED
    BY <2>2, <2>3, <2>4
<1>8. ASSUME NEW x \in Runs, NEW y \in Runs PROVE ~Clash(x, y)'
  <2>1. ~Clash(x, y)
    BY DEF IInv
  <2>2. Busy(x)' /\ Busy(y)' => /\ run'[x].phase = "abandoned" => run[x].phase = "abandoned"
                                /\ run'[y].phase = "abandoned" => run[y].phase = "abandoned"
                                /\ run[x].phase = "abandoned" => run'[x].phase = "abandoned"
                                /\ run[y].phase = "abandoned" => run'[y].phase = "abandoned"
    <3>1. ASSUME NEW z \in Runs, Busy(z)', run[z].phase = "abandoned" PROVE run'[z].phase = "abandoned"
      <4>1. ~Rests(z) /\ ~Advances(z, r)
        BY <3>1, RestsFacts, AdvancesFacts
      <4> QED
        BY <3>1, <4>1
    <3> QED
      BY <1>2, <3>1
  <2> QED
    BY <1>2, <2>1, <2>2 DEF Clash
<1>9. ASSUME NEW x \in Runs, x # r, run'[x].turn = run[r].turn, run[r].turn # NoRun, run'[x].phase # "orphan"
      PROVE  /\ run'[x].turn = run[x].turn /\ run'[x].index = run[x].index
             /\ \/ Advances(x, r) /\ run'[x].phase = "working" /\ run[x].index = run[r].index + 1
                \/ /\ run'[x] = run[x] /\ run[x].phase \in Resting /\ run[x].index < run[r].index
  <2>1. ~OutOfTurn(x)
    BY <1>9 DEF OutOfTurn
  <2>2. CASE Advances(x, r)
    BY <2>2, AdvancesFacts
  <2>3. CASE run'[x] = run[x] /\ x \notin NextSpeaker(r)
    <3>1. SameTurn(x, r) /\ run[r].phase \in (Live \cup Closing) \ {"queued"}
      BY <1>9, <2>3 DEF SameTurn, Closing
    <3> QED
      BY <2>3, <3>1, OthersOfTurn
  <2> QED
    BY <1>9, <2>1, <2>2, <2>3
<1>10. run'[r].phase \in Resting
  BY DEF Rests, Resting
<1>11. ASSUME NEW x \in Runs, NEW y \in Runs PROVE InOrder(x, y)'
  <2> SUFFICES ASSUME SameTurn(x, y)' PROVE InOrder(x, y)'
    BY DEF InOrder
  <2>1. /\ x # y /\ run'[y].turn # NoRun /\ run'[x].turn = run'[y].turn
        /\ run'[x].phase # "orphan" /\ run'[y].phase # "orphan"
    BY DEF SameTurn
  <2>2. run'[r].turn # NoRun => run'[r].turn = run[r].turn /\ run'[r].index = run[r].index
    BY DEF Rests
  <2>3. CASE y = r
    BY <1>10, <2>3 DEF InOrder, Alive, Live, Closing, Resting
  <2>4. CASE x = r
    <3>1. \/ /\ run'[y].phase = "working" /\ run'[y].index = run[r].index + 1
          \/ run'[y].phase \in Resting
      BY <1>9, <2>1, <2>2, <2>4
    <3>2. run[r].index < run[r].index + 1 /\ run'[r].index = run[r].index
      BY <1>1, <2>1, <2>2, <2>4
    <3> QED
      BY <1>10, <2>4, <3>1, <3>2 DEF InOrder, Alive, Live, Closing, Resting
  <2>5. CASE x # r /\ y # r /\ (Advances(x, r) \/ Advances(y, r))
    <3>1. run'[x].turn = run[r].turn /\ run'[y].turn = run[r].turn /\ run[r].turn # NoRun
      BY <2>1, <2>5, AdvancesFacts
    <3>2. ~(Advances(x, r) /\ Advances(y, r))
      <4> SUFFICES ASSUME Advances(x, r), Advances(y, r) PROVE FALSE
        OBVIOUS
      <4>1. Alive(x) /\ Alive(y) /\ SameTurn(x, y)
        BY <2>1, AdvancesFacts DEF SameTurn
      <4>2. InOrder(x, y)
        BY DEF IInv
      <4> QED
        BY <4>1, <4>2 DEF InOrder, Alive, Live, Closing, Resting
    <3>3. CASE Advances(y, r)
      <4>1. run'[x] = run[x] /\ run[x].phase \in Resting /\ run[x].index < run[r].index
        BY <1>9, <2>1, <2>5, <3>1, <3>2, <3>3
      <4>2. run'[y].phase = "working" /\ run'[y].index = run[r].index + 1
        BY <3>3, AdvancesFacts
      <4>3. run'[x].index < run'[y].index
        BY <1>1, <4>1, <4>2
      <4> QED
        BY <4>1, <4>2, <4>3 DEF InOrder, Closing, Resting
    <3>4. CASE Advances(x, r)
      <4>1. run'[y] = run[y] /\ run[y].phase \in Resting
        BY <1>9, <2>1, <2>5, <3>1, <3>2, <3>4
      <4> QED
        BY <4>1 DEF InOrder, Alive, Live, Closing, Resting
    <3> QED
      BY <2>5, <3>3, <3>4
  <2>6. CASE x # r /\ y # r /\ ~Advances(x, r) /\ ~Advances(y, r)
    <3>1. (KeepsPlace(x) \/ OutOfTurn(x)) /\ (KeepsPlace(y) \/ OutOfTurn(y))
      BY <2>6 DEF KeepsPlace
    <3> QED
      BY <3>1, PlaceKept
  <2> QED
    BY <2>3, <2>4, <2>5, <2>6
<1>12. ASSUME failures' = 0 PROVE Unharmed'
  <2>1. Unharmed
    BY <1>12 DEF IInv
  <2>2. ASSUME NEW x \in Runs PROVE run'[x].phase \notin Lost
    <3>1. run[x].phase \notin Lost
      BY <2>1 DEF Unharmed
    <3>2. CASE Rests(x)
      BY <3>1, <3>2 DEF Rests, Lost
    <3>3. CASE Advances(x, r)
      BY <3>3, AdvancesFacts DEF Lost
    <3> QED
      BY <3>1, <3>2, <3>3
  <2>3. ASSUME NEW c \in Runs PROVE InFamily(c)'
    <3> SUFFICES ASSUME Alive(c)', run'[c].parent # NoRun
                 PROVE  /\ run'[c].parent \in Runs
                        /\ run'[run'[c].parent].phase = "delegating"
                        /\ run'[run'[c].parent].child = c
      BY DEF InFamily
    <3>1. Alive(c) /\ run'[c].parent = run[c].parent
      BY <1>2 DEF Busy
    <3>2. PICK p \in Runs : p = run[c].parent /\ run[p].phase = "delegating" /\ run[p].child = c
      BY <2>1, <3>1 DEF Unharmed, InFamily
    <3>3. run'[p] = run[p]
      <4>1. ~Rests(p) /\ ~Advances(p, r)
        BY <3>2, RestsFacts, AdvancesFacts
      <4> QED
        BY <4>1
    <3> QED
      BY <3>1, <3>2, <3>3
  <2> QED
    BY <2>2, <2>3 DEF Unharmed
<1> QED
  BY <1>3, <1>4, <1>5, <1>6, <1>7, <1>8, <1>11, <1>12 DEF IInv

(* What comes to rest.                                                      *)
LEMMA NoTurnFacts == NoTurn \in ProjectTurn
BY Bounds DEF NoTurn, ProjectTurn

LEMMA DroppedFacts ==
  ASSUME IInv, NEW r \in Runs, run[r].phase \in Closing, NEW x \in NextSpeaker(r),
         run'[x] = Forgotten("cancelled")
  PROVE  x # r /\ Rests(x) /\ OutOfTurn(x) /\ run'[x] \in ActiveRun
<1>1. x \in Runs /\ x # r /\ SameTurn(x, r) /\ run[r].phase \in (Live \cup Closing) \ {"queued"}
  BY NextSpeakerFacts DEF Closing
<1>2. run[x].phase = "queued"
  BY <1>1, OthersOfTurn
<1>3. /\ run'[x] \in ActiveRun /\ run'[x].phase = "over" /\ run'[x].status = "cancelled"
      /\ run'[x].turn = NoRun /\ run'[x].index = 0
  BY ForgottenFacts DEF Statuses
<1> QED
  BY <1>1, <1>2, <1>3 DEF Rests, OutOfTurn

LEMMA ReturnedFacts ==
  ASSUME IInv, NEW r \in Runs, run[r].phase \in {"ended", "broken"}, run'[r] = Returned(r)
  PROVE  Rests(r) /\ run'[r].phase # "orphan" /\ run'[r] \in ActiveRun
<1>1. run[r] \in ActiveRun /\ (Finished(r) <=> run[r].phase = "ended")
  BY PhaseFacts, OpenFacts
<1>2. /\ run'[r] \in ActiveRun /\ run'[r].phase = (IF Finished(r) THEN "over" ELSE "dead")
      /\ run'[r].status = run[r].status /\ run'[r].turn = run[r].turn /\ run'[r].index = run[r].index
  BY <1>1 DEF Returned, ActiveRun, Phases, Lost
<1> QED
  BY <1>1, <1>2 DEF Rests, Closing, Lost, Finished

LEMMA AtRestFacts ==
  ASSUME IInv, NEW x \in Runs, run[x].phase \in {"ended", "broken", "over", "dead", "orphan"},
         run'[x] = AtRest(x)
  PROVE  /\ Rests(x) /\ OutOfTurn(x) /\ run'[x] \in ActiveRun
         /\ run'[x].phase = "orphan" => run[x].phase = "orphan"
<1>1. /\ run[x] \in ActiveRun /\ run[x].status \in Statuses
      /\ Finished(x) <=> run[x].phase \in {"ended", "over"}
  BY PhaseFacts, RunFields, OpenFacts
<1>2. CASE Finished(x)
  <2>1. /\ run'[x] \in ActiveRun /\ run'[x].phase = "over" /\ run'[x].status = run[x].status
        /\ run'[x].turn = NoRun /\ run'[x].index = 0
    BY <1>1, <1>2, ForgottenFacts DEF AtRest
  <2> QED
    BY <1>1, <1>2, <2>1 DEF Rests, OutOfTurn, Closing, Resting, Finished
<1>3. CASE ~Finished(x)
  <2>1. PICK phase \in {"dead", "orphan"} :
          /\ run'[x] = [run[x] EXCEPT !.phase = phase, !.turn = NoRun, !.index = 0]
          /\ phase = "orphan" => run[x].phase = "orphan"
    BY <1>3 DEF AtRest
  <2>2. phase \in Phases
    BY DEF Phases, Lost
  <2>3. /\ run'[x] \in ActiveRun /\ run'[x].phase = phase /\ run'[x].status = run[x].status
        /\ run'[x].turn = NoRun /\ run'[x].index = 0
    BY <1>1, <2>1, <2>2, Bounds DEF ActiveRun
  <2>4. run[x].phase \in {"broken", "dead", "orphan"} /\ run[x].status = "running"
    BY <1>1, <1>3 DEF Finished
  <2> QED
    BY <2>1, <2>3, <2>4 DEF Rests, OutOfTurn, Closing, Resting, Lost
<1> QED
  BY <1>2, <1>3

(* Those of a turn but its next speaker.                                    *)
LEMMA InTurnOf ==
  ASSUME IInv, NEW r \in Runs, run[r].phase \in {"ended", "broken"}, run[r].turn # NoRun,
         NEW x \in Runs \ NextSpeaker(r), run[x].turn = run[r].turn
  PROVE  run[x].phase \in {"ended", "broken", "over", "dead", "orphan"}
<1>1. CASE x = r
  BY <1>1
<1>2. CASE run[x].phase = "orphan"
  BY <1>2
<1>3. CASE x # r /\ run[x].phase # "orphan"
  <2>1. SameTurn(x, r) /\ run[r].phase \in (Live \cup Closing) \ {"queued"}
    BY <1>3 DEF SameTurn, Closing
  <2>2. run[x].phase \in Resting
    BY <2>1, OthersOfTurn
  <2> QED
    BY <2>2 DEF Resting
<1> QED
  BY <1>1, <1>2, <1>3

LEMMA PumpReturnsKeeps == \A r \in Runs : IInv /\ PumpReturns(r) => IInv'
<1> SUFFICES ASSUME NEW r \in Runs, IInv, PumpReturns(r) PROVE IInv'
  OBVIOUS
<1>1. run[r].phase \in {"ended", "broken"} /\ run[r].phase \in Closing
  BY DEF PumpReturns, Closing
<1>2. UNCHANGED <<known, parked, closed, failures>> /\ failures' \in 0..MaxFailures
  BY TypeFacts DEF PumpReturns
<1>3. run' = [x \in Runs |->
        IF x \in Going(r) THEN [run[x] EXCEPT !.phase = "working"]
        ELSE IF x \in NextSpeaker(r) THEN Forgotten("cancelled")
        ELSE IF EndsTurn(r) /\ (x = r \/ run[x].turn = run[r].turn) THEN AtRest(x)
        ELSE IF x = r THEN Returned(r)
        ELSE run[x]]
  BY DEF PumpReturns
<1>4. turn' = IF EndsTurn(r) THEN [turn EXCEPT ![run[r].turn] = NoTurn] ELSE turn
  BY DEF PumpReturns
<1>5. /\ Going(r) \subseteq NextSpeaker(r) /\ NextSpeaker(r) \subseteq Runs /\ r \notin NextSpeaker(r)
      /\ EndsTurn(r) => run[r].turn # NoRun /\ Going(r) = {}
  BY NextSpeakerFacts DEF Going, EndsTurn, NextSpeaker
<1>6. /\ turn \in [Runs -> ProjectTurn] /\ run \in [Runs -> ActiveRun]
      /\ run[r].turn \in Runs \cup {NoRun}
  BY TypeFacts, PhaseFacts, RunFields
<1>7. ASSUME NEW x \in Going(r) PROVE Advances(x, r) /\ run'[x] \in ActiveRun
  <2>1. run'[x] = [run[x] EXCEPT !.phase = "working"] /\ x \in NextSpeaker(r)
    BY <1>3, <1>5
  <2>2. run'[x] \in ActiveRun
    BY <1>5, <1>6, <2>1 DEF ActiveRun, Phases
  <2> QED
    BY <2>1, <2>2 DEF Advances
<1>8. ASSUME NEW x \in NextSpeaker(r) \ Going(r) PROVE x # r /\ Rests(x) /\ OutOfTurn(x) /\ run'[x] \in ActiveRun
  BY <1>1, <1>3, <1>5, DroppedFacts
<1>9. ASSUME NEW x \in Runs \ NextSpeaker(r), EndsTurn(r), run[x].turn = run[r].turn
      PROVE  /\ Rests(x) /\ OutOfTurn(x) /\ run'[x] \in ActiveRun
             /\ run'[x].phase = "orphan" => run[x].phase = "orphan"
  <2>1. run'[x] = AtRest(x) /\ run[r].turn # NoRun
    BY <1>3, <1>5, <1>9
  <2> QED
    BY <1>1, <1>9, <2>1, InTurnOf, AtRestFacts
<1>10. Rests(r) /\ run'[r].phase # "orphan" /\ run'[r] \in ActiveRun
  <2>1. CASE EndsTurn(r)
    BY <1>1, <1>5, <1>9, <2>1
  <2>2. CASE ~EndsTurn(r)
    <3>1. run'[r] = Returned(r)
      BY <1>3, <1>5, <2>2
    <3> QED
      BY <1>1, <3>1, ReturnedFacts
  <2> QED
    BY <2>1, <2>2
<1>11. ASSUME NEW x \in Runs \ {r}
       PROVE  /\ \/ run'[x] = run[x] /\ x \notin NextSpeaker(r)
                 \/ Advances(x, r)
                 \/ Rests(x) /\ OutOfTurn(x)
              /\ run'[x] \in ActiveRun
  <2>1. CASE x \in NextSpeaker(r)
    BY <1>7, <1>8, <2>1
  <2>2. CASE x \notin NextSpeaker(r) /\ EndsTurn(r) /\ run[x].turn = run[r].turn
    BY <1>9, <2>2
  <2>3. CASE x \notin NextSpeaker(r) /\ ~(EndsTurn(r) /\ run[x].turn = run[r].turn)
    BY <1>3, <1>5, <1>6, <2>3
  <2> QED
    BY <2>1, <2>2, <2>3
<1>12. run' \in [Runs -> ActiveRun]
  BY <1>3, <1>10, <1>11
<1>13. turn' \in [Runs -> ProjectTurn]
  BY <1>4, <1>6, NoTurnFacts
<1>14. ASSUME NEW t \in Runs
       PROVE  \/ turn'[t].held = turn[t].held /\ turn'[t].saved = turn[t].saved
              \/ \A x \in Runs : run[x].turn = t => Rests(x)
  <2>1. CASE ~EndsTurn(r) \/ t # run[r].turn
    BY <1>4, <1>6, <2>1
  <2>2. CASE EndsTurn(r) /\ t = run[r].turn
    BY <1>5, <1>8, <1>9, <2>2
  <2> QED
    BY <2>1, <2>2
<1> QED
  BY <1>1, <1>2, <1>10, <1>11, <1>12, <1>13, <1>14, PumpKeeps

LEMMA PumpFailsKeeps == \A r \in Runs : IInv /\ PumpFails(r) => IInv'
<1> SUFFICES ASSUME NEW r \in Runs, IInv, PumpFails(r) PROVE IInv'
  OBVIOUS
<1>1. run[r].phase \in {"ended", "broken"} /\ run[r].phase \in Closing
  BY DEF PumpFails, Closing
<1>2. UNCHANGED <<known, parked, closed>> /\ failures' \in 0..MaxFailures /\ failures' # 0
  BY FailsFacts DEF PumpFails
<1>3. run' = [x \in Runs |-> IF x \in NextSpeaker(r) THEN Forgotten("cancelled")
                             ELSE IF x = r THEN Returned(r)
                             ELSE run[x]]
  BY DEF PumpFails
<1>4. turn' = [turn EXCEPT ![run[r].turn].lost = TRUE] /\ run[r].turn # NoRun
  BY DEF PumpFails, EndsTurn
<1>5. NextSpeaker(r) \subseteq Runs /\ r \notin NextSpeaker(r)
  BY NextSpeakerFacts DEF NextSpeaker
<1>6. /\ turn \in [Runs -> ProjectTurn] /\ run \in [Runs -> ActiveRun]
      /\ run[r].turn \in Runs \cup {NoRun}
  BY TypeFacts, PhaseFacts, RunFields
<1>7. ASSUME NEW x \in NextSpeaker(r) PROVE Rests(x) /\ OutOfTurn(x) /\ run'[x] \in ActiveRun
  BY <1>1, <1>3, <1>5, DroppedFacts
<1>8. Rests(r) /\ run'[r].phase # "orphan" /\ run'[r] \in ActiveRun
  BY <1>1, <1>3, <1>5, ReturnedFacts
<1>9. \A x \in Runs \ {r} : \/ run'[x] = run[x] /\ x \notin NextSpeaker(r)
                            \/ Advances(x, r)
                            \/ Rests(x) /\ OutOfTurn(x)
  BY <1>3, <1>7
<1>10. run' \in [Runs -> ActiveRun]
  BY <1>3, <1>6, <1>7, <1>8
<1>11. /\ turn' \in [Runs -> ProjectTurn]
       /\ \A t \in Runs : turn'[t].held = turn[t].held /\ turn'[t].saved = turn[t].saved
  BY <1>4, <1>6 DEF ProjectTurn
<1> QED
  BY <1>1, <1>2, <1>8, <1>9, <1>10, <1>11, PumpKeeps

---------------------------------------------------------------------------
(* The registry.                                                            *)

LEMMA EvictKeeps == \A r \in Runs : IInv /\ Evict(r) => IInv'
<1> SUFFICES ASSUME NEW r \in Runs, IInv, Evict(r) PROVE IInv'
  OBVIOUS
<1>1. /\ run[r].phase = "over" /\ known' = known \ {r}
      /\ UNCHANGED <<run, turn, parked, closed, failures>>
  BY DEF Evict
<1>2. Tables'
  BY <1>1, TypeFacts DEF Tables
<1>3. ASSUME NEW x \in Runs PROVE Registered(x)'
  <2>1. Registered(x) /\ (x = r => run[x].phase \notin Live \cup Lost /\ run[x].phase # "none")
    BY <1>1 DEF IInv, Live, Lost
  <2> QED
    BY <1>1, <2>1 DEF Registered, Finished
<1>4. /\ \A x \in Runs : InTurn(x)' /\ Seated(x)'
      /\ \A x \in Runs : x \in parked' <=> run'[x].phase \in {"asking", "clarifying"}
  BY <1>1 DEF IInv, InTurn, Seated, Busy, Alive
<1>5. \A x, y \in Runs : InOrder(x, y)' /\ ~Clash(x, y)'
  <2>1. ASSUME NEW x \in Runs, NEW y \in Runs PROVE InOrder(x, y)'
    <3>1. InOrder(x, y)
      BY DEF IInv
    <3> QED
      BY <1>1, <3>1 DEF InOrder, SameTurn, Alive
  <2>2. ASSUME NEW x \in Runs, NEW y \in Runs PROVE ~Clash(x, y)'
    <3>1. ~Clash(x, y)
      BY DEF IInv
    <3> QED
      BY <1>1, <3>1 DEF Clash, Busy, Alive
  <2> QED
    BY <2>1, <2>2
<1>6. failures' = 0 => Unharmed'
  BY <1>1 DEF IInv, Unharmed, InFamily, Alive
<1> QED
  BY <1>2, <1>3, <1>4, <1>5, <1>6 DEF IInv

LEMMA RestartKeeps == IInv /\ Restart => IInv'
<1> SUFFICES ASSUME IInv, Restart PROVE IInv'
  OBVIOUS
<1>1. /\ known' = known /\ turn' = [r \in Runs |-> NoTurn] /\ parked' = {} /\ closed' = FALSE
      /\ failures' = failures
      /\ run' = [r \in Runs |-> IF run[r].phase = "none" THEN run[r] ELSE Forgotten(Loaded(r))]
  BY DEF Restart
<1>2. \A r \in Runs : Loaded(r) \in Statuses /\ Loaded(r) # "running"
  BY TypeFacts, RunFields DEF Loaded, Finished, Statuses
<1>3. ASSUME NEW r \in Runs
      PROVE  /\ run'[r] \in ActiveRun /\ run'[r].turn = NoRun /\ run'[r].index = 0
             /\ \/ run'[r].phase = "none" /\ run'[r] = NotRun /\ r \notin known
                \/ run'[r].phase = "over" /\ run'[r].status # "running"
  <2>1. CASE run[r].phase = "none"
    <3>1. run'[r] = NotRun /\ r \notin known
      BY <1>1, <2>1 DEF IInv, Registered
    <3> QED
      BY <3>1, NotRunFacts
  <2>2. CASE run[r].phase # "none"
    <3>1. run'[r] = Forgotten(Loaded(r))
      BY <1>1, <2>2
    <3> QED
      BY <1>2, <3>1, ForgottenFacts
  <2> QED
    BY <2>1, <2>2
<1>4. \A r \in Runs : /\ run'[r].phase \notin {"queued", "asking", "clarifying", "ended"} \cup Live \cup Lost
                      /\ ~Alive(r)' /\ ~Busy(r)'
  BY <1>3 DEF Alive, Busy, Live, Lost
<1>5. Tables'
  <2>1. run' \in [Runs -> ActiveRun]
    <3>1. run' = [r \in Runs |-> run'[r]]
      BY <1>1
    <3> QED
      BY <1>3, <3>1
  <2>2. turn' \in [Runs -> ProjectTurn]
    BY <1>1, NoTurnFacts
  <2> QED
    BY <1>1, <2>1, <2>2, TypeFacts DEF Tables
<1>6. \A r \in Runs : Registered(r)' /\ InTurn(r)' /\ Seated(r)'
  BY <1>1, <1>3, <1>4 DEF Registered, Finished, InTurn, Seated
<1>7. \A q, r \in Runs : InOrder(q, r)' /\ ~Clash(q, r)'
  BY <1>3, <1>4 DEF InOrder, SameTurn, Clash
<1>8. Unharmed'
  BY <1>4 DEF Unharmed, InFamily
<1> QED
  BY <1>1, <1>4, <1>5, <1>6, <1>7, <1>8 DEF IInv

LEMMA InitKeeps == Init => IInv
<1> SUFFICES ASSUME Init PROVE IInv
  OBVIOUS
<1>1. /\ known = {} /\ parked = {} /\ closed = FALSE /\ failures = 0
      /\ \A r \in Runs : run[r] = NotRun
  BY DEF Init
<1>2. Tables
  BY NoTurnFacts, NotRunFacts, Bounds DEF Init, Tables
<1>3. \A r \in Runs : /\ run[r].phase = "none" /\ run[r].turn = NoRun /\ run[r].index = 0
                      /\ run[r].phase \notin Live \cup Lost /\ ~Alive(r) /\ ~Busy(r)
  BY <1>1, NotRunFacts DEF Alive, Busy, Live, Lost
<1>4. \A r \in Runs : Registered(r) /\ InTurn(r) /\ Seated(r)
  BY <1>1, <1>3 DEF Registered, InTurn, Seated
<1>5. \A q, r \in Runs : InOrder(q, r) /\ ~Clash(q, r)
  BY <1>3 DEF InOrder, SameTurn, Clash
<1>6. Unharmed
  BY <1>3 DEF Unharmed, InFamily
<1> QED
  BY <1>1, <1>2, <1>3, <1>4, <1>5, <1>6 DEF IInv

LEMMA StutterKeeps == IInv /\ UNCHANGED vars => IInv'
<1> SUFFICES ASSUME IInv, UNCHANGED vars PROVE IInv'
  OBVIOUS
<1>1. UNCHANGED <<known, run, turn, parked, closed, failures>>
  BY DEF vars
<1> QED
  BY <1>1, TypeFacts, ParkedFacts, GoingOnKeeps

LEMMA NextKeeps == IInv /\ [Next]_vars => IInv'
<1> SUFFICES ASSUME IInv, [Next]_vars PROVE IInv'
  OBVIOUS
<1>1. CASE Request
  <2>1. CASE \E r \in Runs, s \in Sessions \cup {NoSession}, n \in 0..MaxSpeakers,
               replaces \in BOOLEAN : Start(r, s, n, replaces)
    BY <2>1, StartKeeps
  <2>2. CASE \E r \in Runs, action \in Answers : Answer(r, action)
    BY <2>2, AnswerKeeps
  <2>3. CASE \E r \in Runs : AnswerInput(r) \/ Cancel(r)
    BY <2>3, AnswerInputKeeps, CancelKeeps
  <2> QED
    BY <1>1, <2>1, <2>2, <2>3 DEF Request
<1>2. ASSUME NEW r \in Runs, Runner(r) PROVE IInv'
  <2>1. CASE SavePrompt(r)
    BY <2>1, SavePromptKeeps
  <2>2. CASE Assessed(r)
    BY <2>2, AssessedKeeps
  <2>3. CASE \E c \in Runs : StartChild(r, c)
    BY <2>3, StartChildKeeps
  <2>4. CASE \E status \in Statuses : Done(r, status)
    BY <2>4, DoneKeeps
  <2>5. CASE AskUser(r) \/ ChildReturns(r) \/ (\E c \in Calls : CallTool(r, c))
             \/ \E certain \in BOOLEAN : ToolReturns(r, certain)
    BY <2>5, MovesKeep
  <2> QED
    BY <1>2, <2>1, <2>2, <2>3, <2>4, <2>5 DEF Runner
<1>3. ASSUME NEW r \in Runs, Timers(r) PROVE IInv'
  BY <1>3, ApprovalTimesOutKeeps, AnswerInputKeeps DEF Timers, InputTimesOut
<1>4. ASSUME NEW r \in Runs, Pump(r) PROVE IInv'
  BY <1>4, CatchKeeps, PumpReturnsKeeps DEF Pump
<1>5. ASSUME NEW r \in Runs, JournalFails(r) PROVE IInv'
  BY <1>5, WriteFailsKeeps, CatchFailsKeeps, PumpFailsKeeps, HandoffFailsKeeps DEF JournalFails
<1>6. ASSUME NEW r \in Runs, Evict(r) PROVE IInv'
  BY <1>6, EvictKeeps
<1> QED
  BY <1>1, <1>2, <1>3, <1>4, <1>5, <1>6, CloseKeeps, RestartKeeps, StutterKeeps DEF Next

THEOREM Invariance == Spec => []IInv
<1> QED
  BY InitKeeps, NextKeeps, PTL DEF Spec

---------------------------------------------------------------------------
(* What a step may do: a tool starts only for a run nobody cancelled, for a *)
(* call that was not denied, asked about where it must be approved singly,  *)
(* and a speaker only in a turn nobody cancelled.                           *)

Starts(x) ==
  /\ run'[x].phase = "executing" =>
       \/ run[x].phase = "executing"
       \/ /\ ~run[x].aborted
          /\ ~Risk[run'[x].call].persistable => x \in parked
          /\ run'[x].call \notin allowed[x].denied
  /\ run[x].phase = "queued" /\ run'[x].phase = "working" => ~turn[run[x].turn].cancelled

Heedful == allowed' \in [Runs -> Allowance] /\ \A x \in Runs : Heeds(x)' /\ Starts(x)

(* Most runs start nothing.                                                 *)
Quiet(x) ==
  \/ run'[x].phase = run[x].phase /\ run'[x].call = run[x].call /\ allowed'[x] = allowed[x]
  \/ run'[x].phase \notin {"working", "assessing", "asking", "executing"}
  \/ run'[x].phase = "working" /\ run[x].phase # "queued"

LEMMA QuietStarts ==
  ASSUME Settled, NEW x \in Runs, Quiet(x) PROVE Heeds(x)' /\ Starts(x)
<1>1. Heeds(x)
  BY DEF Settled
<1> QED
  BY <1>1 DEF Quiet, Heeds, Starts

LEMMA AllQuiet ==
  ASSUME Settled, allowed' \in [Runs -> Allowance], \A x \in Runs : Quiet(x) PROVE Heedful
BY QuietStarts DEF Heedful

(* What a run is allowed.                                                   *)
LEMMA RiskFacts ==
  ASSUME NEW c \in Calls
  PROVE  /\ Risk[c] \in ToolRiskAssessment
         /\ Risk[c].root \in Roots \cup {NoRoot} /\ Risk[c].folder \in Places \cup {Nowhere}
<1>1. Risk[c] \in ToolRiskAssessment
  BY RegistryConstants
<1> QED
  BY <1>1 DEF ToolRiskAssessment

LEMMA NothingFacts == Nothing \in Allowance
BY DEF Nothing, Allowance, Modes

LEMMA ConfiguredFacts == ASSUME NEW p \in Profiles PROVE Configured(p) \in Allowance
<1>1. p.mode \in [Kinds -> Modes] /\ p.roots \in SUBSET Roots
  BY RegistryConstants
<1>2. Nothing \in Allowance
  BY NothingFacts
<1> QED
  BY <1>1, <1>2 DEF Configured, Allowance

LEMMA AnsweredFacts ==
  ASSUME NEW a \in Allowance, NEW c \in Calls, NEW action \in Answers, Takes(Risk[c], action)
  PROVE  Answered(a, c, action) \in Allowance
<1>1. Risk[c].root \in Roots \cup {NoRoot} /\ Risk[c].folder \in Places \cup {Nowhere} /\ Kind[c] \in Kinds
  BY RiskFacts DEF Kinds
<1>2. CASE action = "run"
  <2>1. Risk[c].folder \in Places
    BY <1>1, <1>2 DEF Takes
  <2>2. Answered(a, c, action) = [a EXCEPT !.folders = a.folders \cup {Risk[c].folder}]
    BY <1>2 DEF Answered, Allowance
  <2> QED
    BY <2>1, <2>2 DEF Allowance
<1>3. CASE action = "trust" /\ Risk[c].root # NoRoot
  <2>1. Answered(a, c, action) = [a EXCEPT !.roots = a.roots \cup {Risk[c].root}]
    BY <1>3 DEF Answered, Allowance
  <2> QED
    BY <1>1, <1>3, <2>1 DEF Allowance
<1>4. CASE action = "trust" /\ Risk[c].root = NoRoot
  <2>1. Risk[c].folder \in Places
    BY <1>1, <1>4 DEF Takes
  <2>2. Answered(a, c, action) = [a EXCEPT !.trusted = a.trusted \cup {Risk[c].folder}]
    BY <1>4 DEF Answered, Allowance
  <2> QED
    BY <2>1, <2>2 DEF Allowance
<1>5. CASE action = "always"
  <2>1. Answered(a, c, action) = [a EXCEPT !.kinds = a.kinds \cup {Kind[c]}]
    BY <1>5 DEF Answered, Allowance
  <2> QED
    BY <1>1, <2>1 DEF Allowance
<1>6. CASE action = "deny"
  <2>1. Answered(a, c, action) = [a EXCEPT !.denied = a.denied \cup {c}]
    BY <1>6 DEF Answered, Allowance
  <2> QED
    BY <2>1 DEF Allowance
<1>7. CASE action = "once"
  <2>1. Answered(a, c, action) = a
    BY <1>7 DEF Answered
  <2> QED
    BY <2>1
<1> QED
  BY <1>2, <1>3, <1>4, <1>5, <1>6, <1>7 DEF Answers

(* No policy and no earlier answer covers what must be approved singly.     *)
LEMMA NeverAllowed ==
  ASSUME Settled, NEW r \in Runs, run[r].call \in Calls, ~Risk[run[r].call].persistable
  PROVE  Verdict(r) # "allow"
<1> DEFINE c == run[r].call
           risk == Risk[c]
           a == allowed[r]
<1>1. CASE risk.blocked
  BY <1>1 DEF Verdict
<1>2. CASE ~risk.blocked
  <2>1. risk.escalate /\ ~risk.trusted /\ risk.root = NoRoot /\ risk.folder = Nowhere
    BY <1>2, ApprovedSingly
  <2>2. a.roots \subseteq Roots
    BY DEF Settled, Allowance
  <2>3. ~(risk.root \in a.roots)
    BY <2>1, <2>2, RegistryConstants
  <2>4. ~PreApproved(risk, a.mode[Kind[c]], a)
    BY <2>1, <2>3 DEF PreApproved
  <2>5. ~Covered(risk, Kind[c], a)
    BY <2>1, <2>3 DEF Covered
  <2> QED
    BY <1>2, <2>1, <2>4, <2>5 DEF Verdict
<1> QED
  BY <1>1, <1>2

LEMMA AssessedStarts == \A r \in Runs : IInv /\ Settled /\ Assessed(r) => Heedful
<1> SUFFICES ASSUME NEW r \in Runs, IInv, Settled, Assessed(r) PROVE Heedful
  OBVIOUS
<1>1. /\ run \in [Runs -> ActiveRun] /\ run[r] \in ActiveRun /\ run[r].phase = "assessing"
      /\ allowed \in [Runs -> Allowance] /\ allowed[r] \in Allowance
  BY TypeFacts DEF Assessed, Settled
<1>2. run[r].call \in Calls /\ run[r].call \notin allowed[r].denied
  BY <1>1 DEF Settled, Heeds
<1>3. \E phase \in Phases : run' = [run EXCEPT ![r].phase = phase]
  <2>1. {"working", "executing", "asking"} \subseteq Phases
    BY DEF Phases
  <2> QED
    BY <2>1 DEF Assessed, RunTool
<1>4. /\ \A x \in Runs \ {r} : run'[x] = run[x]
      /\ run'[r].call = run[r].call
  BY <1>1, <1>3 DEF ActiveRun
<1>5. CASE /\ run' = [run EXCEPT ![r].phase = "working"]
           /\ allowed' = [allowed EXCEPT ![r].denied = @ \cup {run[r].call}]
  <2>1. run'[r].phase = "working"
    BY <1>1, <1>5 DEF ActiveRun
  <2>2. allowed' \in [Runs -> Allowance] /\ \A x \in Runs \ {r} : allowed'[x] = allowed[x]
    <3>1. [allowed[r] EXCEPT !.denied = allowed[r].denied \cup {run[r].call}] \in Allowance
      BY <1>1, <1>2 DEF Allowance
    <3> QED
      BY <1>1, <1>5, <3>1 DEF Allowance
  <2> QED
    BY <1>1, <1>4, <2>1, <2>2, AllQuiet DEF Quiet
<1>6. CASE /\ Verdict(r) = "allow" /\ UNCHANGED allowed
           /\ run' = [run EXCEPT ![r].phase = IF run[r].aborted THEN "working" ELSE "executing"]
  <2>1. run'[r].phase = IF run[r].aborted THEN "working" ELSE "executing"
    BY <1>1, <1>6 DEF ActiveRun
  <2>2. Risk[run[r].call].persistable
    BY <1>2, <1>6, NeverAllowed
  <2>3. Heeds(r)' /\ Starts(r)
    BY <1>1, <1>2, <1>4, <1>6, <2>1, <2>2 DEF Heeds, Starts
  <2>4. \A x \in Runs \ {r} : Heeds(x)' /\ Starts(x)
    BY <1>4, <1>6, QuietStarts DEF Quiet
  <2> QED
    BY <1>1, <1>6, <2>3, <2>4 DEF Heedful
<1>7. CASE run' = [run EXCEPT ![r].phase = "asking"] /\ UNCHANGED allowed
  <2>1. run'[r].phase = "asking"
    BY <1>1, <1>7 DEF ActiveRun
  <2>2. Heeds(r)' /\ Starts(r)
    BY <1>2, <1>4, <1>7, <2>1 DEF Heeds, Starts
  <2>3. \A x \in Runs \ {r} : Heeds(x)' /\ Starts(x)
    BY <1>4, <1>7, QuietStarts DEF Quiet
  <2> QED
    BY <1>1, <1>7, <2>2, <2>3 DEF Heedful
<1> QED
  BY <1>5, <1>6, <1>7 DEF Assessed, RunTool

LEMMA AnswerStarts == \A r \in Runs, action \in Answers : IInv /\ Settled /\ Answer(r, action) => Heedful
<1> SUFFICES ASSUME NEW r \in Runs, NEW action \in Answers, IInv, Settled, Answer(r, action) PROVE Heedful
  OBVIOUS
<1> DEFINE phase == IF action = "deny" \/ run[r].aborted THEN "working" ELSE "executing"
           c == run[r].call
<1>1. /\ r \in parked /\ run[r].phase = "asking" /\ Takes(Risk[c], action)
      /\ run' = [run EXCEPT ![r].phase = phase]
      /\ allowed' = [allowed EXCEPT ![r] = Answered(allowed[r], c, action)]
  BY DEF Answer
<1>2. run \in [Runs -> ActiveRun] /\ allowed \in [Runs -> Allowance] /\ allowed[r] \in Allowance
  BY TypeFacts DEF Settled
<1>3. c \in Calls /\ c \notin allowed[r].denied
  BY <1>1 DEF Settled, Heeds
<1>4. Answered(allowed[r], c, action) \in Allowance
  BY <1>1, <1>2, <1>3, AnsweredFacts
<1>5. phase \in {"working", "executing"} /\ (phase = "executing" => ~run[r].aborted)
  OBVIOUS
<1> HIDE DEF phase
<1>6. /\ run'[r].phase = phase /\ run'[r].call = c
      /\ \A x \in Runs \ {r} : run'[x] = run[x] /\ allowed'[x] = allowed[x]
  BY <1>1, <1>2 DEF ActiveRun
<1>7. Heeds(r)' /\ Starts(r)
  BY <1>1, <1>3, <1>5, <1>6 DEF Heeds, Starts
<1>8. \A x \in Runs \ {r} : Heeds(x)' /\ Starts(x)
  BY <1>6, QuietStarts DEF Quiet
<1>9. allowed' \in [Runs -> Allowance]
  BY <1>1, <1>2, <1>4
<1> QED
  BY <1>7, <1>8, <1>9 DEF Heedful

LEMMA AbortStarts ==
  ASSUME IInv, Settled, UNCHANGED allowed, NEW targets, Abort(targets) PROVE Heedful
<1> DEFINE told == Signalled(AndChildren(targets))
<1>1. run' = [r \in Runs |->
        IF r \in told
        THEN [run[r] EXCEPT !.aborted = TRUE, !.phase = IF r \in parked THEN "working" ELSE @]
        ELSE run[r]]
  BY DEF Abort
<1> HIDE DEF told
<1>2. ASSUME NEW x \in Runs PROVE Quiet(x)
  <2>1. run[x] \in ActiveRun
    BY TypeFacts
  <2>2. CASE x \in told /\ x \in parked
    <3>1. run'[x] = [run[x] EXCEPT !.aborted = TRUE, !.phase = "working"]
      BY <1>1, <2>2
    <3>2. run'[x].phase = "working" /\ run[x].phase # "queued"
      BY <2>1, <2>2, <3>1, ParkedFacts DEF ActiveRun
    <3> QED
      BY <3>2 DEF Quiet
  <2>3. CASE x \in told /\ x \notin parked
    <3>1. run'[x] = [run[x] EXCEPT !.aborted = TRUE, !.phase = run[x].phase]
      BY <1>1, <2>3
    <3>2. run'[x].phase = run[x].phase /\ run'[x].call = run[x].call
      BY <2>1, <3>1 DEF ActiveRun
    <3> QED
      BY <3>2 DEF Quiet
  <2>4. CASE x \notin told
    BY <1>1, <2>4 DEF Quiet
  <2> QED
    BY <2>2, <2>3, <2>4
<1> QED
  BY <1>2, AllQuiet DEF Settled

LEMMA StartStarts ==
  \A r \in Runs, s \in Sessions \cup {NoSession}, n \in 0..MaxSpeakers, replaces \in BOOLEAN :
    IInv /\ Settled /\ Start(r, s, n, replaces) => Heedful
<1> SUFFICES ASSUME NEW r \in Runs, NEW s \in Sessions \cup {NoSession}, NEW n \in 0..MaxSpeakers,
                    NEW replaces \in BOOLEAN, IInv, Settled, Start(r, s, n, replaces)
             PROVE  Heedful
  OBVIOUS
<1> DEFINE t == IF n > 0 THEN r ELSE NoRun
           f == Launched(s, t, 0)
<1>1. PICK kept \in Kept, saved \in BOOLEAN, p \in Profiles :
        /\ run' = [Forget(kept) EXCEPT ![r] = IF saved THEN f ELSE Orphan(f)]
        /\ allowed' = [allowed EXCEPT ![r] = IF saved THEN Configured(p) ELSE @]
  BY DEF Start
<1>2. run[r].phase = "none"
  BY DEF Start
<1>3. t \in Runs \cup {NoRun} /\ 0 \in 0..MaxSpeakers
  BY Bounds
<1>4. PICK g : g = IF saved THEN f ELSE Orphan(f)
  OBVIOUS
<1>5. g.phase \in {"working", "orphan"}
  BY <1>3, <1>4, BeginsFacts
<1>6. Forget(kept) \in [Runs -> ActiveRun] /\ run' = [Forget(kept) EXCEPT ![r] = g]
  BY <1>1, <1>4, ForgetFacts
<1>7. run'[r] = g /\ \A x \in Runs \ {r} : Stays(x)
  BY <1>6, ForgetFacts DEF Stays
<1>8. /\ allowed' \in [Runs -> Allowance]
      /\ \A x \in Runs \ {r} : allowed'[x] = allowed[x]
  BY <1>1, ConfiguredFacts DEF Settled
<1>9. \A x \in Runs \ {r} : Quiet(x)
  <2>1. \A x \in Runs \ {r} : run'[x] = run[x] \/ run'[x].phase = "over"
    BY <1>7, StaysFacts DEF Stays
  <2> QED
    BY <1>8, <2>1 DEF Quiet
<1>10. Quiet(r)
  BY <1>2, <1>5, <1>7 DEF Quiet
<1> QED
  BY <1>8, <1>9, <1>10, AllQuiet

LEMMA StartChildStarts == \A r, c \in Runs : IInv /\ Settled /\ StartChild(r, c) => Heedful
<1> SUFFICES ASSUME NEW r \in Runs, NEW c \in Runs, IInv, Settled, StartChild(r, c) PROVE Heedful
  OBVIOUS
<1> DEFINE f == [Launched(NoSession, NoRun, 0) EXCEPT !.parent = r]
<1>1. PICK kept \in Kept, saved \in BOOLEAN, p \in Profiles :
        /\ run' = [Forget(kept) EXCEPT
             ![r].phase = IF saved THEN "delegating" ELSE "working",
             ![r].child = IF saved THEN c ELSE @,
             ![c] = IF saved THEN [f EXCEPT !.aborted = run[r].aborted] ELSE Orphan(f)]
        /\ allowed' = [allowed EXCEPT ![c] = IF saved THEN Configured(p) ELSE @]
  BY DEF StartChild
<1>2. run[r].phase = "executing" /\ run[c].phase = "none" /\ r # c
  BY DEF StartChild
<1>3. f \in ActiveRun /\ f.phase = "working" /\ Orphan(f).phase = "orphan"
  <2>1. Launched(NoSession, NoRun, 0) \in ActiveRun /\ Launched(NoSession, NoRun, 0).phase = "working"
    BY Bounds, LaunchedFacts
  <2>2. f \in ActiveRun /\ f.phase = "working"
    BY <2>1 DEF ActiveRun
  <2> QED
    BY <2>2, LostFacts
<1> HIDE DEF f
<1>4. PICK g : g = IF saved THEN [f EXCEPT !.aborted = run[r].aborted] ELSE Orphan(f)
  OBVIOUS
<1>5. g.phase \in {"working", "orphan"}
  BY <1>3, <1>4 DEF ActiveRun
<1>6. PICK phase, child : /\ phase = IF saved THEN "delegating" ELSE "working"
                          /\ child = IF saved THEN c ELSE Forget(kept)[r].child
  OBVIOUS
<1>7. /\ Forget(kept) \in [Runs -> ActiveRun]
      /\ run' = [Forget(kept) EXCEPT ![r].phase = phase, ![r].child = child, ![c] = g]
  BY <1>1, <1>4, <1>6, ForgetFacts
<1>8. /\ run'[r].phase = phase /\ run'[c] = g
      /\ \A x \in Runs \ {r, c} : run'[x] = Forget(kept)[x]
  BY <1>2, <1>7 DEF ActiveRun
<1>9. \A x \in Runs \ {r, c} : Stays(x)
  BY <1>8, ForgetFacts DEF Stays
<1>10. /\ allowed' \in [Runs -> Allowance]
       /\ \A x \in Runs \ {c} : allowed'[x] = allowed[x]
  BY <1>1, ConfiguredFacts DEF Settled
<1>11. \A x \in Runs \ {r, c} : Quiet(x)
  <2>1. \A x \in Runs \ {r, c} : run'[x] = run[x] \/ run'[x].phase = "over"
    BY <1>9, StaysFacts DEF Stays
  <2> QED
    BY <1>10, <2>1 DEF Quiet
<1>12. Quiet(r) /\ Quiet(c)
  BY <1>2, <1>5, <1>6, <1>8 DEF Quiet
<1> QED
  BY <1>10, <1>11, <1>12, AllQuiet

(* A run that leaves its runner, and what it hands over.                    *)
LEMMA HandedQuiet ==
  ASSUME IInv, NEW r \in Runs, NEW e, e.phase \in Closing, NEW n \in Fresh,
         NEW next \in {"orphan", "queued"}, run' = Handed(r, e, n, next),
         \A x \in Runs \ {r} : allowed'[x] = allowed[x]
  PROVE  \A x \in Runs : Quiet(x)
<1>1. ASSUME NEW x \in Runs PROVE Quiet(x)
  <2>1. run[x] \in ActiveRun /\ Orphan(run[x]).phase = "orphan"
    BY PhaseFacts, LostFacts
  <2>2. PICK l : l = [Launched(run[r].session, run[r].turn, run[r].index + 1) EXCEPT !.phase = next]
    OBVIOUS
  <2>3. l.phase = next
    BY <2>2 DEF Launched, NotRun
  <2>4. run'[x] = IF x = r THEN e ELSE IF x = n THEN l
                  ELSE IF next = "queued" /\ x \in NextSpeaker(r) THEN Orphan(run[x]) ELSE run[x]
    BY <2>2 DEF Handed
  <2>5. \/ x # r /\ run'[x] = run[x] /\ allowed'[x] = allowed[x]
        \/ run'[x].phase \in Closing \cup {"queued", "orphan"}
    BY <2>1, <2>3, <2>4
  <2> QED
    BY <2>5 DEF Quiet, Closing
<1> QED
  BY <1>1

LEMMA EndsStarts ==
  ASSUME IInv, Settled, NEW r \in Runs, NEW status \in Statuses, Ends(r, status)
  PROVE  Heedful
<1> DEFINE e == [Past(run[r], status) EXCEPT !.phase = "ended"]
<1>1. /\ allowed' = [allowed EXCEPT ![r] = Nothing]
      /\ \/ run' = [run EXCEPT ![r] = e]
         \/ \E n \in Fresh : run' = Handed(r, e, n, "queued")
  BY DEF Ends
<1>2. e.phase \in Closing
  BY PhaseFacts, PastFacts DEF Closing
<1> HIDE DEF e
<1>3. allowed' \in [Runs -> Allowance] /\ \A x \in Runs \ {r} : allowed'[x] = allowed[x]
  BY <1>1, NothingFacts DEF Settled
<1>4. CASE run' = [run EXCEPT ![r] = e]
  <2>1. \A x \in Runs : Quiet(x)
    BY <1>2, <1>3, <1>4, TypeFacts DEF Quiet, Closing
  <2> QED
    BY <1>3, <2>1, AllQuiet
<1>5. CASE \E n \in Fresh : run' = Handed(r, e, n, "queued")
  BY <1>2, <1>3, <1>5, HandedQuiet, AllQuiet
<1> QED
  BY <1>1, <1>4, <1>5

LEMMA FailsStarts ==
  \A r \in Runs : /\ IInv /\ Settled
                  /\ \/ WriteFails(r) \/ CatchFails(r)
                     \/ \E status \in Statuses : HandoffFails(r, status)
                  => Heedful
<1> SUFFICES ASSUME NEW r \in Runs, IInv, Settled,
                    \/ WriteFails(r) \/ CatchFails(r)
                    \/ \E status \in Statuses : HandoffFails(r, status)
             PROVE  Heedful
  OBVIOUS
<1>1. PICK e : /\ e \in {Abandoned(run[r]), [run[r] EXCEPT !.phase = "broken"]}
               /\ \/ run' = [run EXCEPT ![r] = e]
                  \/ HandoffThrows(r, e)
  BY DEF WriteFails, CatchFails, HandoffFails
<1>2. e.phase \in Closing
  <2>1. run[r] \in ActiveRun
    BY PhaseFacts
  <2>2. [run[r] EXCEPT !.phase = "broken"].phase = "broken"
    BY <2>1 DEF ActiveRun
  <2> QED
    BY <1>1, <2>1, <2>2, LostFacts DEF Closing
<1>3. allowed' \in [Runs -> Allowance] /\ \A x \in Runs \ {r} : allowed'[x] = allowed[x]
  <2>1. allowed' = [allowed EXCEPT ![r] = Nothing] \/ UNCHANGED allowed
    BY DEF WriteFails, CatchFails, HandoffFails
  <2> QED
    BY <2>1, NothingFacts DEF Settled
<1>4. CASE run' = [run EXCEPT ![r] = e]
  <2>1. \A x \in Runs : Quiet(x)
    BY <1>2, <1>3, <1>4, TypeFacts DEF Quiet, Closing
  <2> QED
    BY <1>3, <2>1, AllQuiet
<1>5. CASE HandoffThrows(r, e)
  <2>1. \E n \in Fresh, next \in {"orphan", "queued"} : run' = Handed(r, e, n, next)
    BY <1>5 DEF HandoffThrows
  <2> QED
    BY <1>2, <1>3, <2>1, HandedQuiet, AllQuiet
<1> QED
  BY <1>1, <1>4, <1>5

LEMMA PumpReturnsStarts == \A r \in Runs : IInv /\ Settled /\ PumpReturns(r) => Heedful
<1> SUFFICES ASSUME NEW r \in Runs, IInv, Settled, PumpReturns(r) PROVE Heedful
  OBVIOUS
<1>1. PICK p \in Profiles :
        allowed' = [x \in Runs |-> IF x \in Going(r) THEN Configured(p) ELSE allowed[x]]
  BY DEF PumpReturns
<1>2. allowed' \in [Runs -> Allowance]
  BY <1>1, ConfiguredFacts DEF Settled
<1>3. ASSUME NEW x \in Runs PROVE Heeds(x)' /\ Starts(x)
  <2>1. run'[x] = IF x \in Going(r) THEN [run[x] EXCEPT !.phase = "working"]
                  ELSE IF x \in NextSpeaker(r) THEN Forgotten("cancelled")
                  ELSE IF EndsTurn(r) /\ (x = r \/ run[x].turn = run[r].turn) THEN AtRest(x)
                  ELSE IF x = r THEN Returned(r)
                  ELSE run[x]
    BY DEF PumpReturns
  <2>2. run[x] \in ActiveRun /\ run[x].status \in Statuses /\ "cancelled" \in Statuses
    BY TypeFacts, RunFields DEF Statuses
  <2>3. CASE x \in Going(r)
    <3>1. run'[x].phase = "working" /\ ~turn[run[x].turn].cancelled
      BY <2>1, <2>2, <2>3 DEF ActiveRun, Going, StopsHere
    <3> QED
      BY <3>1 DEF Heeds, Starts
  <2>4. CASE x \notin Going(r)
    <3>1. Forgotten("cancelled").phase = "over" /\ Forgotten(run[x].status).phase = "over"
      BY <2>2, ForgottenFacts
    <3>2. AtRest(x).phase \in {"over", "dead", "orphan"} /\ Returned(x).phase \in {"over", "dead"}
      BY <2>2, <3>1 DEF AtRest, Returned, ActiveRun
    <3>3. \/ run'[x].phase \in {"over", "dead", "orphan"}
          \/ run'[x] = run[x]
      BY <2>1, <2>4, <3>1, <3>2
    <3>4. allowed'[x] = allowed[x]
      BY <1>1, <2>4
    <3> QED
      BY <3>3, <3>4, QuietStarts DEF Quiet
  <2> QED
    BY <2>3, <2>4
<1> QED
  BY <1>2, <1>3 DEF Heedful

LEMMA PumpFailsStarts == \A r \in Runs : IInv /\ Settled /\ PumpFails(r) => Heedful
<1> SUFFICES ASSUME NEW r \in Runs, IInv, Settled, PumpFails(r) PROVE Heedful
  OBVIOUS
<1>1. UNCHANGED allowed
  BY DEF PumpFails
<1>2. ASSUME NEW x \in Runs PROVE Quiet(x)
  <2>1. run'[x] = IF x \in NextSpeaker(r) THEN Forgotten("cancelled")
                  ELSE IF x = r THEN Returned(r) ELSE run[x]
    BY DEF PumpFails
  <2>2. run[x] \in ActiveRun /\ "cancelled" \in Statuses
    BY TypeFacts DEF Statuses
  <2>3. Forgotten("cancelled").phase = "over" /\ Returned(x).phase \in {"over", "dead"}
    BY <2>2, ForgottenFacts DEF Returned, ActiveRun
  <2>4. run'[x].phase \in {"over", "dead"} \/ run'[x] = run[x]
    BY <2>1, <2>3
  <2> QED
    BY <1>1, <2>4 DEF Quiet
<1> QED
  BY <1>1, <1>2, AllQuiet DEF Settled

LEMMA RestartStarts == IInv /\ Settled /\ Restart => Heedful
<1> SUFFICES ASSUME IInv, Settled, Restart PROVE Heedful
  OBVIOUS
<1>1. allowed' \in [Runs -> Allowance]
  BY NothingFacts DEF Restart
<1>2. ASSUME NEW x \in Runs PROVE Quiet(x)
  <2>1. run'[x] = IF run[x].phase = "none" THEN run[x] ELSE Forgotten(Loaded(x))
    BY DEF Restart
  <2>2. Loaded(x) \in Statuses
    BY TypeFacts, RunFields DEF Loaded, Statuses
  <2>3. run'[x].phase \in {"none", "over"}
    BY <2>1, <2>2, ForgottenFacts
  <2> QED
    BY <2>3 DEF Quiet
<1> QED
  BY <1>1, <1>2, AllQuiet

LEMMA CallToolStarts == \A r \in Runs, c \in Calls : IInv /\ Settled /\ CallTool(r, c) => Heedful
<1> SUFFICES ASSUME NEW r \in Runs, NEW c \in Calls, IInv, Settled, CallTool(r, c) PROVE Heedful
  OBVIOUS
<1> DEFINE phase == IF c \in allowed[r].denied THEN "working" ELSE "assessing"
<1>1. /\ run[r].phase = "working" /\ UNCHANGED allowed
      /\ run' = [run EXCEPT ![r].phase = phase, ![r].call = c, ![r].calls = @ + 1]
  BY DEF CallTool
<1>2. phase = "assessing" => c \notin allowed[r].denied
  OBVIOUS
<1>3. phase \in {"working", "assessing"}
  OBVIOUS
<1> HIDE DEF phase
<1>4. run'[r].phase = phase /\ run'[r].call = c /\ \A x \in Runs \ {r} : run'[x] = run[x]
  BY <1>1, TypeFacts DEF ActiveRun
<1>5. Heeds(r)' /\ Starts(r)
  BY <1>1, <1>2, <1>3, <1>4 DEF Heeds, Starts
<1>6. \A x \in Runs \ {r} : Heeds(x)' /\ Starts(x)
  BY <1>1, <1>4, QuietStarts DEF Quiet
<1> QED
  BY <1>1, <1>5, <1>6 DEF Heedful, Settled

(* The other steps of a runner, and its timers.                             *)
LEMMA MovesStart ==
  \A r \in Runs : /\ IInv /\ Settled
                  /\ \/ AskUser(r) \/ ChildReturns(r) \/ ApprovalTimesOut(r) \/ AnswerInput(r)
                     \/ \E certain \in BOOLEAN : ToolReturns(r, certain)
                  => Heedful
<1> SUFFICES ASSUME NEW r \in Runs, IInv, Settled,
                    \/ AskUser(r) \/ ChildReturns(r) \/ ApprovalTimesOut(r) \/ AnswerInput(r)
                    \/ \E certain \in BOOLEAN : ToolReturns(r, certain)
             PROVE  Heedful
  OBVIOUS
<1>1. run \in [Runs -> ActiveRun]
  BY TypeFacts
<1>2. /\ run[r].phase \in {"working", "delegating", "asking", "clarifying", "executing"}
      /\ run'[r].phase \in {"clarifying", "working", "stopping"}
      /\ \A x \in Runs \ {r} : run'[x] = run[x]
      /\ UNCHANGED allowed
  <2>1. CASE AskUser(r)
    BY <1>1, <2>1 DEF AskUser, ActiveRun
  <2>2. CASE ChildReturns(r)
    BY <1>1, <2>2 DEF ChildReturns, ActiveRun
  <2>3. CASE ApprovalTimesOut(r)
    BY <1>1, <2>3 DEF ApprovalTimesOut, ActiveRun
  <2>4. CASE AnswerInput(r)
    BY <1>1, <2>4 DEF AnswerInput, ActiveRun
  <2>5. CASE \E certain \in BOOLEAN : ToolReturns(r, certain)
    BY <1>1, <2>5 DEF ToolReturns, ActiveRun
  <2> QED
    BY <2>1, <2>2, <2>3, <2>4, <2>5
<1>3. \A x \in Runs : Quiet(x)
  BY <1>2 DEF Quiet
<1> QED
  BY <1>2, <1>3, AllQuiet DEF Settled

LEMMA NextStarts == IInv /\ Settled /\ [Next]_vars => Heedful
<1> SUFFICES ASSUME IInv, Settled, [Next]_vars PROVE Heedful
  OBVIOUS
<1>1. UNCHANGED <<run, allowed>> => Heedful
  <2> SUFFICES ASSUME UNCHANGED <<run, allowed>> PROVE Heedful
    OBVIOUS
  <2>1. \A x \in Runs : Quiet(x)
    BY DEF Quiet
  <2> QED
    BY <2>1, AllQuiet DEF Settled
<1>2. CASE Request
  <2>1. CASE \E r \in Runs, s \in Sessions \cup {NoSession}, n \in 0..MaxSpeakers,
               replaces \in BOOLEAN : Start(r, s, n, replaces)
    BY <2>1, StartStarts
  <2>2. CASE \E r \in Runs, action \in Answers : Answer(r, action)
    BY <2>2, AnswerStarts
  <2>3. CASE \E r \in Runs : AnswerInput(r)
    BY <2>3, MovesStart
  <2>4. CASE \E r \in Runs : Cancel(r)
    BY <2>4, AbortStarts DEF Cancel
  <2> QED
    BY <1>2, <2>1, <2>2, <2>3, <2>4 DEF Request
<1>3. ASSUME NEW r \in Runs, Runner(r) PROVE Heedful
  <2>1. CASE SavePrompt(r)
    BY <1>1, <2>1 DEF SavePrompt
  <2>2. CASE Assessed(r)
    BY <2>2, AssessedStarts
  <2>3. CASE \E c \in Runs : StartChild(r, c)
    BY <2>3, StartChildStarts
  <2>4. CASE \E status \in Statuses : Done(r, status)
    BY <2>4, EndsStarts DEF Done
  <2>5. CASE \E c \in Calls : CallTool(r, c)
    BY <2>5, CallToolStarts
  <2>6. CASE AskUser(r) \/ ChildReturns(r) \/ \E certain \in BOOLEAN : ToolReturns(r, certain)
    BY <2>6, MovesStart
  <2> QED
    BY <1>3, <2>1, <2>2, <2>3, <2>4, <2>5, <2>6 DEF Runner
<1>4. ASSUME NEW r \in Runs, Timers(r) PROVE Heedful
  BY <1>4, MovesStart DEF Timers, InputTimesOut
<1>5. ASSUME NEW r \in Runs, Pump(r) PROVE Heedful
  BY <1>5, EndsStarts, PumpReturnsStarts DEF Pump, Catch, Statuses
<1>6. ASSUME NEW r \in Runs, JournalFails(r) PROVE Heedful
  BY <1>6, FailsStarts, PumpFailsStarts DEF JournalFails
<1>7. ASSUME NEW r \in Runs, Evict(r) PROVE Heedful
  BY <1>1, <1>7 DEF Evict
<1>8. CASE Close
  BY <1>8, AbortStarts DEF Close
<1>9. CASE UNCHANGED vars
  BY <1>1, <1>9 DEF vars
<1> QED
  BY <1>2, <1>3, <1>4, <1>5, <1>6, <1>7, <1>8, <1>9, RestartStarts DEF Next

(* What is asked about was never denied.                                    *)
THEOREM Settling == Spec => [](IInv /\ Settled)
<1>1. Init => Settled
  <2> SUFFICES ASSUME Init PROVE Settled
    OBVIOUS
  <2>1. allowed = [r \in Runs |-> Nothing] /\ \A r \in Runs : run[r].phase = "none"
    BY NotRunFacts DEF Init
  <2> QED
    BY <2>1, NothingFacts DEF Settled, Heeds
<1>2. Heedful => Settled'
  BY DEF Heedful, Settled, Heeds
<1>3. IInv /\ Settled /\ [Next]_vars => Settled'
  BY <1>2, NextStarts
<1> QED
  BY <1>1, <1>3, InitKeeps, NextKeeps, PTL DEF Spec

---------------------------------------------------------------------------
(* The results.                                                             *)

(* The tables of the registry hold what their types say, whatever fails.    *)
THEOREM Types == Spec => []TypeOK
<1>1. IInv /\ Settled => TypeOK
  BY DEF IInv, Tables, Settled, TypeOK
<1> QED
  BY <1>1, Settling, PTL

(* However runs start, end, chain their speakers, are cancelled and fail to *)
(* be written, no two of them work in one session.                          *)
THEOREM OneRun == Spec => []OneRunPerSession
<1>1. IInv => OneRunPerSession
  BY Properties
<1> QED
  BY <1>1, Invariance, PTL

(* A turn's hold outlives each speaker that still does something.           *)
THEOREM Held == Spec => []TurnHeldThroughout
<1>1. IInv => TurnHeldThroughout
  BY Properties
<1> QED
  BY <1>1, Invariance, PTL

(* No speaker answers a prompt that is not in the transcript.               *)
THEOREM Messages == Spec => []RepliesHaveMessage
<1>1. IInv => RepliesHaveMessage
  BY Properties
<1> QED
  BY <1>1, Invariance, PTL

(* A delegated run never outlives the run that waits for it, as long as the *)
(* journal can be written.                                                  *)
THEOREM Children == Spec => []ChildrenEndFirst
<1>1. IInv => ChildrenEndFirst
  BY Properties
<1> QED
  BY <1>1, Invariance, PTL

(* A prompt is open exactly as long as a live runner awaits its answer.     *)
THEOREM Prompts == Spec => []PromptsHaveRunner
<1>1. IInv => PromptsHaveRunner
  BY Properties
<1> QED
  BY <1>1, Invariance, PTL

(* A cancel keeps every tool from starting.                                 *)
THEOREM Cancelled == Spec => NoToolAfterCancel
<1>1. Heedful => \A r \in Runs : run[r].aborted /\ run'[r].phase = "executing"
                                   => run[r].phase = "executing"
  BY DEF Heedful, Starts
<1>2. IInv /\ Settled /\ [Next]_vars =>
        [\A r \in Runs : run[r].aborted /\ run'[r].phase = "executing"
           => run[r].phase = "executing"]_vars
  BY <1>1, NextStarts
<1> QED
  BY <1>2, Settling, PTL DEF Spec, NoToolAfterCancel

(* A call that must be approved singly runs only on an answer to that call, *)
(* whatever settings and answers allow, and a denied call not at all.       *)
THEOREM Asked == Spec => AskedEachTime
<1> DEFINE A == \A r \in Runs : run'[r].phase = "executing" /\ run[r].phase # "executing" =>
                  LET c == run'[r].call IN
                  /\ ~Risk[c].persistable => r \in parked
                  /\ c \notin allowed[r].denied
<1>1. Heedful => A
  BY DEF Heedful, Starts
<1>2. IInv /\ Settled /\ [Next]_vars => [A]_vars
  BY <1>1, NextStarts
<1>3. AskedEachTime <=> [][A]_vars
  BY DEF AskedEachTime
<1> HIDE DEF A
<1> QED
  BY <1>2, <1>3, Settling, PTL DEF Spec

(* A cancelled turn starts no speaker.                                      *)
THEOREM NoSpeaker == Spec => NoSpeakerAfterCancel
<1>1. Heedful => \A r \in Runs : run[r].phase = "queued" /\ turn[run[r].turn].cancelled
                                   => run'[r].phase \notin {"working"}
  BY DEF Heedful, Starts
<1>2. IInv /\ Settled /\ [Next]_vars =>
        [\A r \in Runs : run[r].phase = "queued" /\ turn[run[r].turn].cancelled
           => run'[r].phase \notin {"working"}]_vars
  BY <1>1, NextStarts
<1> QED
  BY <1>2, Settling, PTL DEF Spec, NoSpeakerAfterCancel

===========================================================================
