---------------------------- MODULE PromptQueue ----------------------------
(***************************************************************************)
(* What a page of the web app types while a reply is in progress           *)
(* (apps/web/src/screens/agent/usePromptQueue.ts, state/promptQueue.ts),   *)
(* with the parts of the page it depends on: the open session and its      *)
(* thread, loads and sends under way, and the loops that follow runs       *)
(* (useAgentController.ts, state/runEvents.ts, state/followers.ts); and on *)
(* the service the steering notes of a run and the log of its events       *)
(* (RunRegistry.ts, AgentRunner.ts).                                       *)
(*                                                                         *)
(* Every request is three steps: sent, served, answered.  React runs the   *)
(* effects of the queue some time after the state they read has changed:   *)
(* Render is that moment, and several changes may come before it.          *)
(***************************************************************************)
EXTENDS Integers, Sequences, FiniteSets, SequencesExt

CONSTANTS Sessions,
          Home,         \* the session the page opens with
          Runs,
          NoRun,
          Prompts,      \* what the user types, each once
          Text,         \* the words of a prompt: two may be the same
          Withdrawable, \* bound: the prompts the user may take back
          MaxEdits,     \* bound: messages sent again with another text
          MaxRequests,  \* bound: requests of the user under way at once
          MaxSwitches   \* bound: how often the user opens another session

ASSUME QueueConstants ==
  /\ Home \in Sessions
  /\ NoRun \notin Runs
  /\ DOMAIN Text = Prompts
  /\ Withdrawable \subseteq Prompts
  /\ MaxEdits \in Nat
  /\ MaxRequests \in Nat
  /\ MaxSwitches \in Nat

VARIABLES
  run,       \* the service: each run, its unread notes and its events
  open,      \* sessionId: the conversation the page is on
  thread,    \* the thread on screen: its session, and the cards of runs
  load,      \* the latest loadSession
  followed,  \* RunFollowers.loops
  position,  \* how far each loop has read
  queue,     \* queued
  requests,  \* steer, withdraw and start requests under way
  sending,   \* sending: a send is known to be under way
  edits,     \* editedRunIdsRef, and how many edits were sent
  rendered,  \* what the effects saw last
  typed      \* where the user typed each prompt

vars == <<run, open, thread, load, followed, position, queue, requests, sending, edits,
          rendered, typed>>

NotRun == [session |-> Home, status |-> "none", asked |-> <<>>, notes |-> <<>>, log |-> <<>>]
NoCard == [shown |-> FALSE, seq |-> 0, steering |-> <<>>, running |-> TRUE]
NewCard == [NoCard EXCEPT !.shown = TRUE]
Blank(s) == [session |-> s, card |-> [r \in Runs |-> NoCard]]

Init ==
  /\ run = [r \in Runs |-> NotRun]
  /\ open = Home
  /\ thread = Blank(Home)
  /\ load = [session |-> Home, step |-> "done", switches |-> 0]
  /\ followed = {}
  /\ position = [r \in Runs |-> 0]
  /\ queue = <<>>
  /\ requests = {}
  /\ sending = FALSE
  /\ edits = [runs |-> {}, sent |-> 0]
  /\ rendered = [session |-> Home, busy |-> FALSE, queue |-> <<>>]
  /\ typed = [p \in {} |-> Home]

---------------------------------------------------------------------------
(* What the page reads off its state.                                       *)

(* activeRun: a card that still runs.  Cards are not kept in the order they *)
(* are shown; of several running ones any may be the last.                  *)
ActiveRuns == {r \in Runs : thread.card[r].shown /\ thread.card[r].running}

Sends == {q \in requests : q.kind = "start"}
Busy == sending \/ ActiveRuns # {}

(* The composer takes a prompt once the turns of the session are loaded,    *)
(* and while a run is replying even if another send is under way.           *)
ComposerOpen == load.step # "turns" /\ (~sending \/ ActiveRuns # {})

Spare == Cardinality(requests) < MaxRequests

InQueue(q, p) == \E i \in DOMAIN q : q[i].prompt = p

(* loadSession: every loop stops, the thread is blank until the turns come. *)
Load(s) ==
  /\ thread' = Blank(s)
  /\ load' = [session |-> s, step |-> "turns",
              switches |-> load.switches + (IF s = load.session THEN 0 ELSE 1)]
  /\ followed' = {}
  /\ UNCHANGED position

(* attach: a run that is followed already keeps its loop.                   *)
Attach(rs) ==
  /\ followed' = followed \cup rs
  /\ position' = [r \in Runs |-> IF r \in rs \ followed THEN 0 ELSE position[r]]

Show(cards, rs) ==
  [r \in Runs |-> IF r \in rs /\ ~cards[r].shown THEN NewCard ELSE cards[r]]

---------------------------------------------------------------------------
(* The user.                                                                *)

Type(p) ==
  /\ p \notin DOMAIN typed
  /\ ComposerOpen
  /\ Spare
  /\ typed' = [q \in DOMAIN typed \cup {p} |-> IF q = p THEN open ELSE typed[q]]
  /\ IF ActiveRuns = {}
     THEN requests' = requests \cup
            {[kind |-> "start", prompts |-> <<p>>, session |-> open,
              replaces |-> FALSE, flush |-> FALSE, answer |-> "none", run |-> NoRun]}
     ELSE \E r \in ActiveRuns :
            requests' = requests \cup
              {[kind |-> "steer", prompts |-> <<p>>, run |-> r,
                baseline |-> Len(thread.card[r].steering), answer |-> "none"]}
  /\ UNCHANGED <<run, open, thread, load, followed, position, queue, sending, edits, rendered>>

(* resendEdited: an earlier message is answered again with another text.    *)
Edit(p) ==
  /\ p \notin DOMAIN typed
  /\ edits.sent < MaxEdits
  /\ Spare
  /\ load.step # "turns" /\ ~Busy
  /\ \E r \in Runs : run[r].session = open /\ run[r].status = "ended"
  /\ typed' = [q \in DOMAIN typed \cup {p} |-> IF q = p THEN open ELSE typed[q]]
  /\ sending' = TRUE
  /\ edits' = [edits EXCEPT !.sent = @ + 1]
  /\ requests' = requests \cup
       {[kind |-> "start", prompts |-> <<p>>, session |-> open,
         replaces |-> TRUE, flush |-> FALSE, answer |-> "none", run |-> NoRun]}
  /\ UNCHANGED <<run, open, thread, load, followed, position, queue, rendered>>

(* withdraw: guidance on a run is asked back, anything else just goes.      *)
Withdraw(i) ==
  /\ queue[i].prompt \in Withdrawable
  /\ Spare
  /\ \A q \in requests : q.kind = "withdraw" => q.prompts # <<queue[i].prompt>>
  /\ IF queue[i].run = NoRun
     THEN queue' = RemoveAt(queue, i) /\ UNCHANGED requests
     ELSE /\ requests' = requests \cup
               {[kind |-> "withdraw", prompts |-> <<queue[i].prompt>>,
                 run |-> queue[i].run, answer |-> "none"]}
          /\ UNCHANGED queue
  /\ UNCHANGED <<run, open, thread, load, followed, position, sending, edits, rendered, typed>>

(* selectSession                                                            *)
Select(s) ==
  /\ s # open
  /\ load.switches < MaxSwitches
  /\ open' = s
  /\ Load(s)
  /\ UNCHANGED <<run, queue, requests, sending, edits, rendered, typed>>

---------------------------------------------------------------------------
(* The service.                                                             *)

Answered(q, answer) == requests' = (requests \ {q}) \cup {[q EXCEPT !.answer = answer]}

(* RunRegistry.steer                                                        *)
ServeSteer(q) ==
  /\ q.kind = "steer" /\ q.answer = "none"
  /\ IF run[q.run].status = "running"
     THEN /\ run' = [run EXCEPT ![q.run].notes = @ \o q.prompts]
          /\ Answered(q, "taken")
     ELSE /\ Answered(q, "refused")
          /\ UNCHANGED run
  /\ UNCHANGED <<open, thread, load, followed, position, queue, sending, edits, rendered, typed>>

(* RunRegistry.withdrawSteering                                             *)
ServeWithdraw(q) ==
  /\ q.kind = "withdraw" /\ q.answer = "none"
  /\ IF run[q.run].status = "running" /\ Contains(run[q.run].notes, q.prompts[1])
     THEN /\ \E i \in DOMAIN run[q.run].notes :
               /\ run[q.run].notes[i] = q.prompts[1]
               /\ run' = [run EXCEPT ![q.run].notes = RemoveAt(@, i)]
          /\ Answered(q, "withdrawn")
     ELSE /\ Answered(q, "kept")
          /\ UNCHANGED run
  /\ UNCHANGED <<open, thread, load, followed, position, queue, sending, edits, rendered, typed>>

(* POST /v1/runs: a session has one run at a time, and a request may fail.  *)
ServeStart(q) ==
  /\ q.kind = "start" /\ q.answer = "none"
  /\ \/ /\ \A r \in Runs : ~(run[r].session = q.session /\ run[r].status = "running")
        /\ \E r \in Runs :
             /\ run[r].status = "none"
             /\ run' = [run EXCEPT ![r] = [NotRun EXCEPT
                  !.session = q.session, !.status = "running", !.asked = q.prompts]]
             /\ requests' = (requests \ {q}) \cup {[q EXCEPT !.answer = "started", !.run = r]}
     \/ /\ Answered(q, "failed")
        /\ UNCHANGED run
  /\ UNCHANGED <<open, thread, load, followed, position, queue, sending, edits, rendered, typed>>

(* drainSteering, before each model turn: all notes, each a steering event. *)
ReadNotes(r) ==
  /\ run[r].status = "running"
  /\ run[r].notes # <<>>
  /\ run' = [run EXCEPT ![r].notes = <<>>,
       ![r].log = @ \o [i \in 1..Len(run[r].notes) |->
                          [kind |-> "steering", note |-> run[r].notes[i], next |-> NoRun]]]
  /\ UNCHANGED <<open, thread, load, followed, position, queue, requests, sending, edits,
                 rendered, typed>>

DoneEvent == [kind |-> "done", note |-> <<>>, next |-> NoRun]

(* The run ends, its unread notes with it; in a project turn the next       *)
(* speaker may take over.                                                   *)
EndRun(r, n) ==
  /\ run[r].status = "running"
  /\ IF n = NoRun
     THEN run' = [run EXCEPT ![r].status = "ended", ![r].log = Append(@, DoneEvent)]
     ELSE /\ run[n].status = "none"
          /\ run' = [run EXCEPT
               ![r].status = "ended",
               ![r].log = @ \o <<[kind |-> "handoff", note |-> <<>>, next |-> n], DoneEvent>>,
               ![n] = [NotRun EXCEPT !.session = run[r].session, !.status = "running"]]
  /\ UNCHANGED <<open, thread, load, followed, position, queue, requests, sending, edits,
                 rendered, typed>>

---------------------------------------------------------------------------
(* Answers and events reach the page.                                       *)

(* A note the run took waits for it to be read; one it refused, the run     *)
(* having ended, waits to be the next message.                              *)
SteerAnswered(q) ==
  /\ q.kind = "steer" /\ q.answer # "none"
  /\ requests' = requests \ {q}
  /\ queue' = Append(queue, [prompt |-> q.prompts[1],
                             run |-> IF q.answer = "taken" THEN q.run ELSE NoRun,
                             baseline |-> q.baseline])
  /\ UNCHANGED <<run, open, thread, load, followed, position, sending, edits, rendered, typed>>

WithdrawAnswered(q) ==
  /\ q.kind = "withdraw" /\ q.answer # "none"
  /\ requests' = requests \ {q}
  /\ IF q.answer = "withdrawn" /\ InQueue(queue, q.prompts[1])
     THEN \E i \in DOMAIN queue : queue[i].prompt = q.prompts[1] /\ queue' = RemoveAt(queue, i)
     ELSE UNCHANGED queue
  /\ UNCHANGED <<run, open, thread, load, followed, position, sending, edits, rendered, typed>>

(* The lease of the session is taken, and the page knows that it sends.     *)
Sending ==
  /\ ~sending
  /\ \E q \in Sends : q.answer = "none"
  /\ sending' = TRUE
  /\ UNCHANGED <<run, open, thread, load, followed, position, queue, requests, edits,
                 rendered, typed>>

(* startRun's answer goes to the thread on screen, whichever that is.  An   *)
(* edit that failed loads its own session again.                            *)
StartAnswered(q) ==
  /\ q.kind = "start" /\ q.answer # "none"
  /\ requests' = requests \ {q}
  /\ sending' = FALSE
  /\ IF q.answer = "started"
     THEN /\ thread' = [thread EXCEPT !.card = Show(@, {q.run})]
          /\ Attach({q.run})
          /\ edits' = [edits EXCEPT !.runs = IF q.replaces THEN @ \cup {q.run} ELSE @]
          /\ UNCHANGED load
     ELSE /\ IF q.replaces THEN Load(q.session)
             ELSE UNCHANGED <<thread, load, followed, position>>
          /\ UNCHANGED edits
  /\ UNCHANGED <<run, open, queue, rendered, typed>>

(* getSession, then listRuns: the turns replace what the thread shows, the  *)
(* running runs of the session are shown and followed.                      *)
TurnsLoaded ==
  /\ load.step = "turns"
  /\ thread' = [thread EXCEPT !.card = [r \in Runs |-> NoCard]]
  /\ load' = [load EXCEPT !.step = "runs"]
  /\ UNCHANGED <<run, open, followed, position, queue, requests, sending, edits, rendered, typed>>

RunsListed ==
  /\ load.step = "runs"
  /\ LET live == {r \in Runs : run[r].session = load.session /\ run[r].status = "running"} IN
     /\ thread' = [thread EXCEPT !.card = Show(@, live)]
     /\ Attach(live)
  /\ load' = [load EXCEPT !.step = "done"]
  /\ UNCHANGED <<run, open, queue, requests, sending, edits, rendered, typed>>

\* Mutant: an event the card has had is applied again.
AppliedAgain(cards, r, n) ==
  LET event == run[r].log[n]
      card == Show(cards, {r})
  IN CASE event.kind = "steering" ->
             [card EXCEPT ![r].seq = n, ![r].steering = Append(@, Text[event.note])]
        [] event.kind = "handoff" ->
             Show([card EXCEPT ![r].seq = n], {event.next})
        [] OTHER ->
             [card EXCEPT ![r].seq = n, ![r].running = FALSE]

(* applyRunEvent: a card is made where there is none, an event it has had   *)
(* is dropped.                                                              *)
Applied(cards, r, n) ==
  LET event == run[r].log[n]
      card == Show(cards, {r})
  IN IF n <= card[r].seq THEN cards
     ELSE CASE event.kind = "steering" ->
                 [card EXCEPT ![r].seq = n, ![r].steering = Append(@, Text[event.note])]
            [] event.kind = "handoff" ->
                 Show([card EXCEPT ![r].seq = n], {event.next})
            [] OTHER ->
                 [card EXCEPT ![r].seq = n, ![r].running = FALSE]

(* RunFollowers.pump, an event at a time: a handoff is followed on, and an  *)
(* edited message reloads its session when its last speaker is done.        *)
EventArrives(r) ==
  LET n == position[r] + 1
      event == run[r].log[n]
      cards == Applied(thread.card, r, n)
  IN
  /\ r \in followed
  /\ n <= Len(run[r].log)
  /\ CASE event.kind = "done" /\ r \in edits.runs ->
            /\ edits' = [edits EXCEPT !.runs = @ \ {r}]
            /\ Load(open)
       [] event.kind = "done" /\ r \notin edits.runs ->
            /\ thread' = [thread EXCEPT !.card = cards]
            /\ followed' = followed \ {r}
            /\ position' = [position EXCEPT ![r] = n]
            /\ UNCHANGED <<load, edits>>
       [] event.kind = "handoff" ->
            /\ thread' = [thread EXCEPT !.card = cards]
            /\ edits' = [edits EXCEPT !.runs = IF r \in @ THEN (@ \ {r}) \cup {event.next} ELSE @]
            /\ followed' = followed \cup {event.next}
            /\ position' = [position EXCEPT ![r] = n,
                              ![event.next] = IF event.next \in followed THEN @ ELSE 0]
            /\ UNCHANGED load
       [] OTHER ->
            /\ thread' = [thread EXCEPT !.card = cards]
            /\ position' = [position EXCEPT ![r] = n]
            /\ UNCHANGED <<followed, load, edits>>
  /\ UNCHANGED <<run, open, queue, requests, sending, rendered, typed>>

---------------------------------------------------------------------------
(* The effects of the queue.                                                *)

(* Where in a card's guidance an item is looked for: after what stood there *)
(* when it was typed and after what earlier items were found to be.         *)
ReadsOf(item, cursor, card) ==
  {i \in DOMAIN card.steering :
     i > item.baseline /\ i > cursor[item.run] /\ card.steering[i] = Text[item.prompt]}

\* Mutant: a prompt whose run ended without reading it is dropped.
SettleItemDrops(acc, item, cards) ==
  IF item.run = NoRun THEN [acc EXCEPT !.kept = Append(@, item)]
  ELSE LET card == cards[item.run]
           reads == ReadsOf(item, acc.cursor, card)
       IN IF ~card.shown THEN [acc EXCEPT !.kept = Append(@, item)]
          ELSE IF reads # {}
               THEN [acc EXCEPT !.cursor[item.run] = CHOOSE i \in reads : \A j \in reads : i <= j]
          ELSE IF ~card.running THEN acc
          ELSE [acc EXCEPT !.kept = Append(@, item)]

\* Mutant: what a run has not read yet becomes the next message at once.
SettleItemEarly(acc, item, cards) ==
  IF item.run = NoRun THEN [acc EXCEPT !.kept = Append(@, item)]
  ELSE LET card == cards[item.run]
           reads == ReadsOf(item, acc.cursor, card)
       IN IF ~card.shown THEN [acc EXCEPT !.kept = Append(@, [item EXCEPT !.run = NoRun])]
          ELSE IF reads # {}
               THEN [acc EXCEPT !.cursor[item.run] = CHOOSE i \in reads : \A j \in reads : i <= j]
          ELSE IF ~card.running THEN [acc EXCEPT !.kept = Append(@, [item EXCEPT !.run = NoRun])]
          ELSE [acc EXCEPT !.kept = Append(@, item)]

(* settleQueue, one item: guidance the run has read goes, what an ended run *)
(* did not read becomes the next message; a text counts once for each time  *)
(* the run read it.                                                         *)
SettleItem(acc, item, cards) ==
  IF item.run = NoRun THEN [acc EXCEPT !.kept = Append(@, item)]
  ELSE LET card == cards[item.run]
           reads == ReadsOf(item, acc.cursor, card)
       IN IF ~card.shown THEN [acc EXCEPT !.kept = Append(@, item)]
          ELSE IF reads # {}
               THEN [acc EXCEPT !.cursor[item.run] = CHOOSE i \in reads : \A j \in reads : i <= j]
          ELSE IF ~card.running THEN [acc EXCEPT !.kept = Append(@, [item EXCEPT !.run = NoRun])]
          ELSE [acc EXCEPT !.kept = Append(@, item)]

(* settleQueue: the items one after the other.                              *)
Settling(items, cards) ==
  LET after[n \in 0..Len(items)] ==
        IF n = 0 THEN [kept |-> <<>>, cursor |-> [r \in Runs |-> 0]]
        ELSE SettleItem(after[n-1], items[n], cards)
  IN after

Settle(items, cards) == Settling(items, cards)[Len(items)].kept

(* The queue goes out as one message when nothing is under way and no part  *)
(* of it waits on a run.                                                    *)
Flushes ==
  /\ ~Busy
  /\ queue # <<>>
  /\ \A i \in DOMAIN queue : queue[i].run = NoRun
  /\ \A q \in Sends : ~q.flush
  /\ <<rendered.busy, rendered.queue>> # <<Busy, queue>>

(* A render, and its effects in their order: a new session clears the       *)
(* queue, the queue is settled, and the queue of this very render, not the  *)
(* cleared or settled one, goes out.                                        *)
Render ==
  /\ rendered' = [session |-> thread.session, busy |-> Busy, queue |-> queue]
  /\ rendered' # rendered \/ Settle(queue, thread.card) # queue
  /\ queue' = IF Flushes THEN <<>>
              ELSE Settle(IF thread.session # rendered.session THEN <<>> ELSE queue, thread.card)
  /\ requests' = IF Flushes
       THEN requests \cup
              {[kind |-> "start", prompts |-> [i \in DOMAIN queue |-> queue[i].prompt],
                session |-> open, replaces |-> FALSE, flush |-> TRUE,
                answer |-> "none", run |-> NoRun]}
       ELSE requests
  /\ UNCHANGED <<run, open, thread, load, followed, position, sending, edits, typed>>

---------------------------------------------------------------------------
User ==
  \/ \E p \in Prompts : Type(p) \/ Edit(p)
  \/ \E i \in DOMAIN queue : Withdraw(i)
  \/ \E s \in Sessions : Select(s)

Service ==
  \/ \E q \in requests : ServeSteer(q) \/ ServeWithdraw(q) \/ ServeStart(q)
  \/ \E r \in Runs : ReadNotes(r) \/ (\E n \in Runs \cup {NoRun} : EndRun(r, n))

Page ==
  \/ \E q \in requests : SteerAnswered(q) \/ WithdrawAnswered(q) \/ StartAnswered(q)
  \/ Sending \/ TurnsLoaded \/ RunsListed
  \/ \E r \in Runs : EventArrives(r)
  \/ Render

Next == User \/ Service \/ Page

Spec == Init /\ [][Next]_vars

---------------------------------------------------------------------------
(* How a prompt reaches a model: as guidance a run has read, or in the      *)
(* message of a run.                                                        *)
ReadAt(p, r, i) ==
  i \in DOMAIN run[r].log /\ run[r].log[i].kind = "steering" /\ run[r].log[i].note = p
SentAt(p, r, i) == i \in DOMAIN run[r].asked /\ run[r].asked[i] = p
Guided(p) == \E r \in Runs : \E i \in DOMAIN run[r].log : ReadAt(p, r, i)
Sent(p) == \E r \in Runs : \E i \in DOMAIN run[r].asked : SentAt(p, r, i)
GoesOut(p) == \E q \in requests : q.kind = "start" /\ q.answer = "none" /\ Contains(q.prompts, p)

(* No prompt is read twice as guidance, none is in two messages, and none   *)
(* that went out in a message can still be read as guidance.                *)
NeverAgain ==
  \A p \in Prompts :
    /\ \A r, s \in Runs : \A i \in DOMAIN run[r].log, j \in DOMAIN run[s].log :
         ReadAt(p, r, i) /\ ReadAt(p, s, j) => r = s /\ i = j
    /\ \A r, s \in Runs : \A i \in DOMAIN run[r].asked, j \in DOMAIN run[s].asked :
         SentAt(p, r, i) /\ SentAt(p, s, j) => r = s /\ i = j
    /\ Sent(p) => ~GoesOut(p)
    /\ Sent(p) \/ GoesOut(p) =>
         \A r \in Runs : run[r].status = "running" => ~Contains(run[r].notes, p)

(* A prompt leaves the queue because its run has read it, because it goes   *)
(* out, because the user took it back, or because another session opened.   *)
LeavesForAReason ==
  [][\A p \in Prompts :
       InQueue(queue, p) /\ ~InQueue(queue', p) =>
         \/ \E i \in DOMAIN queue : \E r \in Runs : \E x \in Prompts : \E j \in DOMAIN run[r].log :
              queue[i].prompt = p /\ queue[i].run = r /\ Text[x] = Text[p] /\ ReadAt(x, r, j)
         \/ \E q \in requests' : q.kind = "start" /\ Contains(q.prompts, p)
         \/ \E i \in DOMAIN queue : queue[i].prompt = p /\ Withdraw(i)
         \/ \E q \in requests \ requests' : q.prompts = <<p>> /\ q.answer = "withdrawn"
         \/ thread.session # rendered.session]_vars

(* The card of a run shows guidance in the order the run read it, each once *)
(* and with none left out since the first it shows.                         *)
Shows(card, log) ==
  /\ card.seq <= Len(log)
  /\ \E at \in [DOMAIN card.steering -> 1..card.seq] :
       /\ \A i, j \in DOMAIN at : i < j => at[i] < at[j]
       /\ \A i \in DOMAIN at :
            log[at[i]].kind = "steering" /\ Text[log[at[i]].note] = card.steering[i]
       /\ \A i \in DOMAIN at : \A k \in at[i]..card.seq :
            log[k].kind = "steering" => \E j \in DOMAIN at : at[j] = k
CardShowsReads ==
  \A r \in Runs : thread.card[r].shown => Shows(thread.card[r], run[r].log)

(* A prompt reaches a model once, as guidance or in a message.  The code    *)
(* does not keep this: see the README.                                      *)
DeliveredOnce == \A p \in Prompts : ~(Guided(p) /\ Sent(p))

(* A card shows all the guidance its run has read.  The code does not keep  *)
(* this: see the README.                                                    *)
CardShowsAll ==
  \A r \in Runs :
    LET card == thread.card[r]
        reads == {k \in 1..card.seq : run[r].log[k].kind = "steering"}
    IN card.shown => Len(card.steering) = Cardinality(reads)

(* A prompt goes to the conversation it was typed in.                       *)
PromptsStayInSession ==
  \A r \in Runs : \A i \in DOMAIN run[r].asked :
    run[r].session = typed[run[r].asked[i]]

(* A prompt the service gave back is not sent.  The code does not keep      *)
(* this: see the README.                                                    *)
WithdrawnNotSent ==
  \A q \in requests : q.kind = "withdraw" /\ q.answer = "withdrawn" =>
    ~Sent(q.prompts[1])
===========================================================================
