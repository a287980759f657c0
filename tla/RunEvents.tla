------------------------------ MODULE RunEvents ------------------------------
(***************************************************************************)
(* The events of one run and the clients that follow it.  The registry     *)
(* numbers the events, keeps the newest in a buffer and writes each to a   *)
(* journal (core RunRegistry.ts, WorkspaceStore.ts); clients read them as  *)
(* a stream that may break anywhere and resume after the last number they  *)
(* have (service RunRoutes.ts, client followRun.ts), or through another    *)
(* device that polls the host for them (service WorkspaceRoutes.ts).       *)
(*                                                                         *)
(* Numbers are kept, what an event says is not, but for its end: the run's *)
(* own, or the one a restart writes for a run it interrupted.              *)
(***************************************************************************)
EXTENDS Integers, Sequences, FiniteSets

CONSTANTS Local,        \* readers of the service's own stream
          Remote,       \* readers through another device
          Window,       \* maxBufferedEvents, and what the journal keeps
          Batch,        \* events in the answer to a poll
          HasArtifacts, \* the run has artifacts, which outlive it
          MaxEvents,    \* bound: events of the run, its end included
          MaxCuts,      \* bound: streams that break
          MaxCrashes,   \* bound: restarts of the service
          MaxFailures   \* bound: failed writes to the journal

ASSUME EventConstants ==
  /\ Local \cap Remote = {}
  /\ Window \in Nat \ {0} /\ Batch \in Nat \ {0}
  /\ HasArtifacts \in BOOLEAN
  /\ MaxEvents \in Nat /\ MaxCuts \in Nat /\ MaxCrashes \in Nat /\ MaxFailures \in Nat

Readers == Local \cup Remote

VARIABLES
  run,      \* ActiveRun: buffer, firstSeq, lastSeq, finished; pump is what runs it,
            \* "dead" when it threw and the run has not ended
  held,     \* the registry has the run
  journal,  \* run_records, run_events and run_artifacts
  reader,   \* the clients, with their streams and what serves them
  faults,   \* how many cuts, crashes and failures there were
  lost      \* history: events that left the buffer or the journal

vars == <<run, held, journal, reader, faults, lost>>

Event(n) == [seq |-> n, what |-> "event"]
Done(n) == [seq |-> n, what |-> "done"]
Interrupted(n) == [seq |-> n, what |-> "interrupted"]
Nothing == [seq |-> 0, what |-> "nothing"]

IsEnd(e) == e.what \in {"done", "interrupted"}

Init ==
  /\ run = [buffer |-> <<>>, first |-> 1, last |-> 0, finished |-> FALSE, pump |-> "runs"]
  /\ held = TRUE
  /\ journal = [events |-> {}, last |-> 0, finished |-> FALSE]
  /\ reader = [r \in Readers |-> [stage |-> "away", after |-> 0, from |-> "run", next |-> 1,
                 record |-> [finished |-> FALSE, last |-> 0],
                 batch |-> <<>>, holed |-> FALSE, cursor |-> 0, pipe |-> <<>>, got |-> {}]]
  /\ faults = [cuts |-> 0, crashes |-> 0, failures |-> 0]
  /\ lost = {}

---------------------------------------------------------------------------
(* The registry.                                                            *)

Newest(n, events) == {e \in events : e.seq > n - Window}

\* Mutant: the journal is written when a run starts and when it ends.
SavedAtEnds(e) ==
  IF e.seq = 1 \/ IsEnd(e)
  THEN journal' = [events |-> Newest(e.seq, journal.events \cup {e}), last |-> e.seq, finished |-> IsEnd(e)]
  ELSE UNCHANGED journal

(* journal.save: the record and the event, in one transaction.              *)
Saved(e) ==
  journal' = [events |-> Newest(e.seq, journal.events \cup {e}),
              last |-> e.seq, finished |-> IsEnd(e)]

(* append: the event is numbered and buffered, the oldest one dropped.      *)
Buffered(e) ==
  LET all == Append(run.buffer, e)
      kept == IF Len(all) > Window THEN Tail(all) ELSE all
  IN /\ run' = [run EXCEPT !.buffer = kept, !.first = e.seq - Len(kept) + 1,
                  !.last = e.seq, !.finished = IsEnd(e),
                  !.pump = IF IsEnd(e) THEN "ended"
                          ELSE IF run.pump = "runs" THEN "runs" ELSE "closing"]
     /\ lost' = IF Len(all) > Window THEN lost \cup {Head(all).seq} ELSE lost

AppendEvent ==
  /\ run.pump \in {"runs", "closing"}
  /\ \/ run.pump = "runs" /\ run.last < MaxEvents - 1 /\ Buffered(Event(run.last + 1)) /\ Saved(Event(run.last + 1))
     \/ Buffered(Done(run.last + 1)) /\ Saved(Done(run.last + 1))
  /\ UNCHANGED <<held, reader, faults>>

(* What a write that fails may be of: an event or the end; in pump's catch  *)
(* the error event first, and the end only once that is written.            *)
Unwritten ==
  {e \in {Event(run.last + 1), Done(run.last + 1)} :
     \/ IsEnd(e) /\ run.pump # "failing"
     \/ ~IsEnd(e) /\ run.pump = "runs" /\ run.last < MaxEvents - 2
     \/ ~IsEnd(e) /\ run.pump = "failing"}

(* save throws: the event is in the buffer and not in the journal.  The     *)
(* pump ends the run, with an error and its end, if these can be written:   *)
(* when the error cannot, nothing runs the run, and nothing ends it.        *)
JournalFails ==
  /\ run.pump \in {"runs", "failing", "closing"}
  /\ faults.failures < MaxFailures
  /\ faults' = [faults EXCEPT !.failures = @ + 1]
  /\ \E e \in Unwritten :
       LET all == Append(run.buffer, e)
           kept == IF Len(all) > Window THEN Tail(all) ELSE all
       IN /\ run' = [buffer |-> kept, first |-> e.seq - Len(kept) + 1, last |-> e.seq,
                     finished |-> IsEnd(e),
                     pump |-> IF IsEnd(e) THEN "ended"
                              ELSE IF run.pump = "runs" THEN "failing" ELSE "dead"]
          /\ lost' = IF Len(all) > Window THEN lost \cup {Head(all).seq} ELSE lost
  /\ UNCHANGED <<held, journal, reader>>

(* pump's catch: the error event; the end after it is AppendEvent's.        *)
PumpFails ==
  /\ run.pump = "failing"
  /\ Buffered(Event(run.last + 1)) /\ Saved(Event(run.last + 1))
  /\ UNCHANGED <<held, reader, faults>>

(* evictTimer, sweepFinished: its events are gone, but for what a restart   *)
(* finds in the journal.                                                    *)
Evict ==
  /\ held /\ run.finished
  /\ held' = FALSE
  /\ lost' = lost \cup 1..run.last
  /\ UNCHANGED <<run, journal, reader, faults>>

(* journal.load: the events of the run in the order of their numbers.       *)
InOrder(events) ==
  [i \in 1..Cardinality(events) |->
     CHOOSE e \in events : Cardinality({f \in events : f.seq <= e.seq}) = i]

(* A crash and the constructor after it: the runs of the journal are back,  *)
(* one that had not ended has failed.  Streams close; what was sent may     *)
(* still be read.                                                           *)
Restart ==
  /\ faults.crashes < MaxCrashes
  /\ faults' = [faults EXCEPT !.crashes = @ + 1]
  /\ LET end == journal.last + 1
         loaded == InOrder(journal.events)
         first == IF loaded = <<>> THEN journal.last + 1 ELSE loaded[1].seq
     IN
     /\ run' = [buffer |-> IF journal.finished THEN loaded ELSE Append(loaded, Interrupted(end)),
                first |-> first, last |-> IF journal.finished THEN journal.last ELSE end,
                finished |-> TRUE, pump |-> "ended"]
     /\ IF journal.finished THEN UNCHANGED journal ELSE Saved(Interrupted(end))
     /\ lost' = lost \cup (1..journal.last \ {e.seq : e \in journal.events})
  /\ held' = TRUE
  /\ reader' = [r \in Readers |->
       IF reader[r].stage = "open" THEN [reader[r] EXCEPT !.stage = "closed"] ELSE reader[r]]

---------------------------------------------------------------------------
(* Serving a reader.                                                        *)

(* What outlives a run: its record with its artifacts, if it has any.       *)
Archived == journal.finished /\ HasArtifacts
Known == held \/ Archived

\* Mutant: the stream resumes with the event the reader has last.
StartAtLastSeen(k, after) ==
  [k EXCEPT !.stage = "open", !.batch = <<>>, !.holed = FALSE, !.cursor = after,
     !.from = IF held THEN "run" ELSE "archive",
     !.next = IF after + 2 > run.first THEN after + 2 ELSE run.first,
     !.record = [finished |-> IF held THEN run.finished ELSE TRUE,
                 last |-> IF held THEN run.last ELSE journal.last]]

(* events: from the next number, or the oldest that is left.  For another   *)
(* device the record is read first.                                         *)
StartAt(k, after) ==
  [k EXCEPT !.stage = "open", !.batch = <<>>, !.holed = FALSE, !.cursor = after,
     !.from = IF held THEN "run" ELSE "archive",
     !.next = IF after + 1 > run.first THEN after + 1 ELSE run.first,
     !.record = [finished |-> IF held THEN run.finished ELSE TRUE,
                 last |-> IF held THEN run.last ELSE journal.last]]

(* followRunEvents opens the stream again after the last number it has; a   *)
(* run nobody knows ends it with RUN_NOT_FOUND.                             *)
Connect(r) ==
  /\ reader[r].stage = "away"
  /\ reader' = [reader EXCEPT ![r] = IF Known THEN StartAt(@, @.after) ELSE [@ EXCEPT !.stage = "gone"]]
  /\ UNCHANGED <<run, held, journal, faults, lost>>

(* The generator's next yield: the slot of the buffer its number is at now, *)
(* or the end of an archived run.                                           *)
Slot(k) ==
  IF k.from = "archive" THEN CHOOSE e \in journal.events : e.seq = journal.last
  ELSE LET i == k.next - run.first + 1 IN
       IF i \in DOMAIN run.buffer THEN run.buffer[i] ELSE Nothing

HasMore(k) ==
  IF k.from = "archive" THEN k.cursor < journal.last /\ k.next <= journal.last
  ELSE k.next <= run.last

AfterYield(k) == [k EXCEPT !.next = IF k.from = "archive" THEN journal.last + 1 ELSE @ + 1]

(* streamRunEvents writes the event; there is nothing to write at a slot    *)
(* that is empty, and the stream fails.                                     *)
Yield(r) ==
  LET k == reader[r] IN
  /\ r \in Local /\ k.stage = "open" /\ HasMore(k)
  /\ reader' = [reader EXCEPT ![r] =
       IF Slot(k) = Nothing THEN [k EXCEPT !.stage = "closed"]
       ELSE [AfterYield(k) EXCEPT !.pipe = Append(k.pipe, Slot(k))]]
  /\ UNCHANGED <<run, held, journal, faults, lost>>

(* The run has finished and all of it is sent.                              *)
StreamEnds(r) ==
  LET k == reader[r] IN
  /\ r \in Local /\ k.stage = "open" /\ ~HasMore(k)
  /\ run.finished \/ k.from = "archive"
  /\ reader' = [reader EXCEPT ![r].stage = "closed"]
  /\ UNCHANGED <<run, held, journal, faults, lost>>

(* run.events collects what comes within a second, up to a batch.  Of these *)
(* the device writes the events beyond its cursor that come before an empty *)
(* slot, at which it fails.                                                 *)
Collect(r) ==
  LET k == reader[r] IN
  /\ r \in Remote /\ k.stage = "open" /\ HasMore(k) /\ Len(k.batch) < Batch /\ ~k.holed
  /\ reader' = [reader EXCEPT ![r] =
       IF Slot(k) = Nothing THEN [AfterYield(k) EXCEPT !.holed = TRUE]
       ELSE [AfterYield(k) EXCEPT !.batch = IF Slot(k).seq > k.cursor THEN Append(@, Slot(k)) ELSE @]]
  /\ UNCHANGED <<run, held, journal, faults, lost>>

(* What a poll has brought is written to the device's own stream.           *)
Written(k) == [k EXCEPT !.pipe = @ \o k.batch]
Reached(k) == IF k.batch = <<>> THEN k.cursor ELSE k.batch[Len(k.batch)].seq

\* Mutant: a stream is closed by the record alone.
PolledByRecord(r) ==
  LET k == reader[r] IN
  /\ r \in Remote /\ k.stage = "open"
  /\ reader' = [reader EXCEPT ![r] =
       IF k.holed \/ k.record.finished \/ ~Known
       THEN [Written(k) EXCEPT !.stage = "closed"] ELSE StartAt(Written(k), Reached(k))]
  /\ UNCHANGED <<run, held, journal, faults, lost>>

(* The device writes the batch and polls again, unless the record it came   *)
(* with says that this was all.  An empty slot or an error closes its       *)
(* stream.                                                                  *)
Polled(r) ==
  LET k == reader[r] IN
  /\ r \in Remote /\ k.stage = "open"
  /\ HasMore(k) => k.batch # <<>> \/ k.holed
  /\ reader' = [reader EXCEPT ![r] =
       IF \/ k.holed
          \/ k.record.finished /\ Reached(k) >= k.record.last
          \/ ~Known
       THEN [Written(k) EXCEPT !.stage = "closed"]
       ELSE StartAt(Written(k), Reached(k))]
  /\ UNCHANGED <<run, held, journal, faults, lost>>

---------------------------------------------------------------------------
(* The client.                                                              *)

(* A number it has had is dropped; the end ends the loop.                   *)
Receive(r) ==
  LET k == reader[r]
      e == Head(k.pipe)
  IN
  /\ k.stage \in {"open", "closed"} /\ k.pipe # <<>>
  /\ reader' = [reader EXCEPT ![r] =
       IF e.seq <= k.after THEN [k EXCEPT !.pipe = Tail(@)]
       ELSE [k EXCEPT !.pipe = IF IsEnd(e) THEN <<>> ELSE Tail(@), !.after = e.seq,
               !.got = @ \cup {e}, !.stage = IF IsEnd(e) THEN "ended" ELSE @]]
  /\ UNCHANGED <<run, held, journal, faults, lost>>

(* The stream is over: after a pause the loop connects again.               *)
Pause(r) ==
  /\ reader[r].stage = "closed" /\ reader[r].pipe = <<>>
  /\ reader' = [reader EXCEPT ![r].stage = "away"]
  /\ UNCHANGED <<run, held, journal, faults, lost>>

(* The stream breaks, and what is in it is lost.                            *)
Cut(r) ==
  /\ reader[r].stage \in {"open", "closed"}
  /\ faults.cuts < MaxCuts
  /\ faults' = [faults EXCEPT !.cuts = @ + 1]
  /\ reader' = [reader EXCEPT ![r].stage = "away", ![r].pipe = <<>>]
  /\ UNCHANGED <<run, held, journal, lost>>

---------------------------------------------------------------------------
Follow(r) == Connect(r) \/ Yield(r) \/ StreamEnds(r) \/ Collect(r) \/ Polled(r) \/ Pause(r)

Next ==
  \/ AppendEvent \/ JournalFails \/ PumpFails \/ Evict \/ Restart
  \/ \E r \in Readers : Follow(r) \/ Receive(r) \/ Cut(r)

(* A run ends, the service serves, clients read and connect again.          *)
Fairness ==
  /\ WF_vars(AppendEvent) /\ WF_vars(PumpFails)
  /\ \A r \in Readers : WF_vars(Follow(r)) /\ WF_vars(Receive(r))

Spec == Init /\ [][Next]_vars /\ Fairness

---------------------------------------------------------------------------
(* A restart loads a journal that lacks nothing the service had.            *)
Undamaged == faults.failures = 0 \/ faults.crashes = 0

(* A reader that goes on misses an event only when the buffer or the        *)
(* journal no longer has it, however often it resumed and whichever way it  *)
(* reads; but for a restart after a failed write to the journal, which      *)
(* loads events that are not where their numbers say.                       *)
NoSilentGap ==
  Undamaged =>
    \A r \in Readers : \A n \in 1..reader[r].after :
      n \in lost \/ \E e \in reader[r].got : e.seq = n

(* A number stands for one event: no two readers, before and after a        *)
(* restart, know different events by it; but for a restart after a failed   *)
(* write, which gives the number of an event it lacks to another.           *)
NumberMeansOneEvent ==
  Undamaged =>
    \A e, f \in UNION {reader[r].got : r \in Readers} : e.seq = f.seq => e = f

(* A client that keeps following learns of the end, or that the run is no   *)
(* longer known; but for such a restart, after which the end may have a     *)
(* number the client had for another event, and but for a run whose pump    *)
(* could write neither an event nor the error it made of that: such a run   *)
(* does not end, and whoever follows it waits until the service restarts.   *)
(* (Who has learned of the end stays there.)                                *)
ReadersEnd ==
  \A r \in Readers :
    []<>(Undamaged => reader[r].stage \in {"ended", "gone"} \/ run.pump = "dead")
==============================================================================
