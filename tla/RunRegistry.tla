---------------------------- MODULE RunRegistry ----------------------------
(***************************************************************************)
(* The service's live runs: packages/core/src/runs/RunRegistry.ts and      *)
(* runs/ProjectTurn.ts, with the stretch of agent/AgentRunner.ts a run     *)
(* goes through between two answers of a client.  A client starts a run    *)
(* and goes away; the registry pumps the runner, parks its questions until *)
(* a later request answers them, chains the speakers of a project turn,    *)
(* cancels, evicts, and after a restart closes what was left open.  Each  *)
(* event is written to a journal, and a write may fail.                    *)
(*                                                                         *)
(* An action is one uninterrupted stretch of the service's event loop.     *)
(* Only the event that ends a run is modelled; the stream of them is       *)
(* another module's.                                                       *)
(***************************************************************************)
EXTENDS Integers, FiniteSets

CONSTANTS Runs,        \* run ids
          Sessions,    \* sessions the clients name
          NoSession,   \* a run without a session
          NoRun,       \* no turn, no parent, no child
          Calls,       \* the tool calls a model may ask for
          NoCall,
          Delegate,    \* the call of delegate_device
          Kind,        \* the tool kind of each call
          Risk,        \* what assessRisk says of each call
          Places,      \* files and folders
          Nowhere,     \* a call without one
          Within,      \* the pairs of a place and a folder it lies in
          Roots,       \* the sensitive roots of a home, such as ~/.ssh
          NoRoot,      \* a call that reads none
          Profiles,    \* the approval settings a run may find in its profile
          MaxActive,   \* maxActiveRuns
          Retained,    \* MAX_RETAINED_FINISHED_RUNS
          MaxSpeakers, \* bound: speakers of a project turn
          MaxCalls,    \* bound: tool calls of each run (its iteration cap)
          MaxFailures  \* bound: writes of the journal that fail

Kinds == {Kind[c] : c \in Calls}

(* ToolRiskAssessment: `path' is its targetPath, `folder' its               *)
(* runGrantFolder, `root' its sensitiveGrant.                               *)
ToolRiskAssessment ==
  [blocked : BOOLEAN, escalate : BOOLEAN, trusted : BOOLEAN, routine : BOOLEAN,
   persistable : BOOLEAN, root : Roots \cup {NoRoot},
   path : Places \cup {Nowhere}, folder : Places \cup {Nowhere}]

Modes == {"allow", "ask", "deny"}

ASSUME RegistryConstants ==
  /\ NoRun \notin Runs
  /\ NoSession \notin Sessions
  /\ NoCall \notin Calls
  /\ Risk \in [Calls -> ToolRiskAssessment]
  /\ Nowhere \notin Places /\ NoRoot \notin Roots
  /\ Within \subseteq Places \X Places
  /\ Profiles \subseteq [mode : [Kinds -> Modes], roots : SUBSET Roots]
  /\ MaxActive \in Nat \ {0}
  /\ Retained \in Nat
  /\ MaxSpeakers \in Nat
  /\ MaxCalls \in [Runs -> Nat]
  /\ MaxFailures \in Nat

(* What the tools' assessments have in common: a call they want approved    *)
(* singly is escalated, and names nothing an answer could cover further     *)
(* calls by.                                                                *)
ASSUME ApprovedSingly ==
  \A c \in Calls : ~Risk[c].persistable /\ ~Risk[c].blocked =>
    /\ Risk[c].escalate /\ ~Risk[c].trusted
    /\ Risk[c].root = NoRoot /\ Risk[c].folder = Nowhere

VARIABLES
  known,   \* this.runs: the ids the registry still answers for
  run,     \* the ActiveRun of every id, and where its runner stands
  allowed, \* what settings and answers let a run do, and what was denied it
  turn,    \* the ProjectTurn, under the id of its first speaker's run
  parked,  \* pending and pendingUserInputs: the runs with an open prompt
  closed,  \* the registry is shutting down
  failures \* the writes of the journal that failed

vars == <<known, run, allowed, turn, parked, closed, failures>>

Statuses == {"running", "completed", "failed", "cancelled"}

(* queued: launched, its pump not started; working: the runner is between   *)
(* tool calls; assessing: it awaits the risk of a call, which a device on   *)
(* the bridge answers; asking, clarifying: it awaits a client's answer;     *)
(* delegating: it awaits a child run; stopping: it can only end; ended: its *)
(* last event is appended; over: its pump has returned.                     *)
(* Where a write failed: orphan: registered, and never pumped; abandoned:   *)
(* the pump left its runner, to report that; broken: this failed as well;   *)
(* dead: then the pump has returned.  None of these is finished.            *)
Lost == {"orphan", "abandoned", "broken", "dead"}
Phases == {"none", "queued", "working", "assessing", "asking", "clarifying",
           "executing", "delegating", "stopping", "ended", "over"} \cup Lost

ActiveRun ==
  [phase : Phases, status : Statuses, aborted : BOOLEAN,
   session : Sessions \cup {NoSession},
   turn : Runs \cup {NoRun}, index : 0..MaxSpeakers,
   parent : Runs \cup {NoRun}, child : Runs \cup {NoRun},
   call : Calls \cup {NoCall}, calls : Nat]

(* lost: held, and the step that should have led to its end() threw.        *)
ProjectTurn ==
  [speakers : 0..MaxSpeakers, replaces : BOOLEAN, saved : BOOLEAN,
   cancelled : BOOLEAN, held : BOOLEAN, lost : BOOLEAN]

(* The profile's settings as the run's runner found them, and the answers   *)
(* of its prompts: grantedKinds, sensitiveGrants (with those of the         *)
(* profile), trustedFolders, runGrants and deniedCalls.  A run grant is for *)
(* writing: only the shell offers one.                                      *)
Allowance ==
  [mode : [Kinds -> Modes], kinds : SUBSET Kinds, roots : SUBSET Roots,
   trusted : SUBSET Places, folders : SUBSET Places, denied : SUBSET Calls]

NotRun == [phase |-> "none", status |-> "running", aborted |-> FALSE,
           session |-> NoSession, turn |-> NoRun, index |-> 0,
           parent |-> NoRun, child |-> NoRun,
           call |-> NoCall, calls |-> 0]

NoTurn == [speakers |-> 0, replaces |-> FALSE, saved |-> FALSE,
           cancelled |-> FALSE, held |-> FALSE, lost |-> FALSE]

Nothing == [mode |-> [k \in Kinds |-> "ask"], kinds |-> {}, roots |-> {},
            trusted |-> {}, folders |-> {}, denied |-> {}]

(* The runner is made with its profile's settings of that moment.           *)
Configured(p) == [Nothing EXCEPT !.mode = p.mode, !.roots = p.roots]

(* What is still read of a run once its last event is appended: its turn,   *)
(* for a later cancel, until it is evicted.                                 *)
Past(f, status) == [f EXCEPT !.status = status, !.aborted = FALSE,
                             !.session = NoSession,
                             !.parent = NoRun, !.child = NoRun,
                             !.call = NoCall, !.calls = 0]
Forgotten(status) ==
  [NotRun EXCEPT !.phase = "over", !.status = status]

Init ==
  /\ known = {}
  /\ run = [r \in Runs |-> NotRun]
  /\ allowed = [r \in Runs |-> Nothing]
  /\ turn = [r \in Runs |-> NoTurn]
  /\ parked = {}
  /\ closed = FALSE
  /\ failures = 0

---------------------------------------------------------------------------
(* What the code reads off its tables.                                      *)

Finished(r) == run[r].status # "running"
Open == {r \in known : ~Finished(r)}

(* Those whose runner may still do something.                               *)
Acting == {r \in Open : run[r].phase \notin Lost}

(* run.next: the speaker launched as this one reported `done'.              *)
NextSpeaker(r) == {n \in Runs : /\ run[r].turn # NoRun
                               /\ run[n].turn = run[r].turn
                               /\ run[n].index = run[r].index + 1
                               /\ "orphan" \notin {run[r].phase, run[n].phase}}

\* Mutant: the session's other runs are not looked at.
SessionFreeAnyway(s) == TRUE

SessionFree(s) == \A r \in Open : s # NoSession => run[r].session # s

Capacity == Cardinality(Open) < MaxActive

(* What sweepFinished leaves: of the finished runs above the cap the oldest *)
(* go; which those are is left open.  (Those whose time is over go in       *)
(* Evict.)  A pump that has not returned keeps its run.                     *)
Kept == {kept \in SUBSET known :
           /\ Open \subseteq kept
           /\ Cardinality(kept \ Open) <= Retained
           /\ kept = known \/ Cardinality(kept \ Open) = Retained}
Forget(kept) ==
  [r \in Runs |-> IF r \in known \ kept /\ run[r].phase = "over"
                 THEN Forgotten(run[r].status) ELSE run[r]]

(* Bound: ids are spared for the speakers of the turns under way.           *)
Fresh == {r \in Runs : run[r].phase = "none"}
Awaited == {a \in Runs \X (1..MaxSpeakers) :
              /\ a[2] < turn[a[1]].speakers
              /\ \E r \in Runs :
                   /\ run[r].turn = a[1] /\ run[r].index < a[2]
                   /\ run[r].phase \notin {"ended", "over", "orphan", "broken", "dead"}}
Spare(n) == Cardinality(Fresh) >= n + Cardinality(Awaited)

(* launch: an unfinished run, registered before anything of it runs.        *)
Launched(s, t, i) ==
  [NotRun EXCEPT !.phase = IF i = 0 THEN "working" ELSE "queued",
                 !.session = s, !.turn = t, !.index = i]

(* A run is registered, and then written to the journal.                    *)
Orphan(f) == [f EXCEPT !.phase = "orphan"]

Fails == failures < MaxFailures /\ failures' = failures + 1

Written(saved) == IF saved THEN UNCHANGED failures ELSE Fails

(* The signals of `targets' fire, and with them their listeners: the one    *)
(* that settles an open prompt, and the one by which a delegating tool      *)
(* cancels its child.  A signal fires once: what is already aborted hears   *)
(* nothing more.                                                            *)
Signalled(targets) == {r \in targets : ~Finished(r) /\ ~run[r].aborted}

AndChildren(targets) ==
  targets \cup {c \in Open : run[c].parent \in Signalled(targets)}

\* Mutant: settling a prompt leaves its entry behind.
AbortKeepsEntry(targets) ==
  LET told == Signalled(AndChildren(targets)) IN
  /\ run' = [r \in Runs |->
       IF r \in told
       THEN [run[r] EXCEPT !.aborted = TRUE,
                           !.phase = IF r \in parked THEN "working" ELSE @]
       ELSE run[r]]
  /\ UNCHANGED parked

Abort(targets) ==
  LET told == Signalled(AndChildren(targets)) IN
  /\ run' = [r \in Runs |->
       IF r \in told
       THEN [run[r] EXCEPT !.aborted = TRUE,
                           !.phase = IF r \in parked THEN "working" ELSE @]
       ELSE run[r]]
  /\ parked' = parked \ told

---------------------------------------------------------------------------
(* Requests of clients.                                                     *)

(* POST /v1/runs: a run, or the first speaker of a project turn, which      *)
(* holds its session until its last speaker has ended.                      *)
Start(r, s, n, replaces) ==
  /\ run[r].phase = "none"
  /\ Spare(IF n > 0 THEN n ELSE 1)
  /\ ~closed
  /\ Capacity
  /\ SessionFree(s)
  /\ n > 0 => s # NoSession
  /\ replaces => n > 0
  /\ \E kept \in Kept, saved \in BOOLEAN, p \in Profiles :
       LET f == Launched(s, IF n > 0 THEN r ELSE NoRun, 0) IN
       /\ Written(saved)
       /\ known' = kept \cup {r}
       /\ run' = [Forget(kept) EXCEPT ![r] = IF saved THEN f ELSE Orphan(f)]
       /\ allowed' = [allowed EXCEPT ![r] = IF saved THEN Configured(p) ELSE @]
       /\ turn' = [turn EXCEPT ![r] = [speakers |-> n, replaces |-> replaces,
                                       saved |-> replaces, cancelled |-> FALSE,
                                       held |-> n > 0, lost |-> n > 0 /\ ~saved]]
  /\ UNCHANGED <<parked, closed>>

(* answerApproval, under the run's id or that of the run it works for:      *)
(* "run" is for a folder and the rest of the run; "trust" for a sensitive   *)
(* root or a folder, and "always" for a kind, are also written to the       *)
(* profile, where later runs find them.                                     *)
Answers == {"once", "run", "trust", "always", "deny"}

Takes(risk, action) ==
  /\ action = "run" => risk.folder # Nowhere
  /\ action \in {"trust", "always"} => risk.persistable
  /\ action = "trust" =>
       \/ risk.root # NoRoot
       \/ risk.escalate /\ risk.path # Nowhere /\ risk.folder # Nowhere

Answered(a, c, action) ==
  LET risk == Risk[c] IN
  CASE action = "run" -> [a EXCEPT !.folders = @ \cup {risk.folder}]
    [] action = "trust" /\ risk.root # NoRoot -> [a EXCEPT !.roots = @ \cup {risk.root}]
    [] action = "trust" /\ risk.root = NoRoot -> [a EXCEPT !.trusted = @ \cup {risk.folder}]
    [] action = "always" -> [a EXCEPT !.kinds = @ \cup {Kind[c]}]
    [] action = "deny" -> [a EXCEPT !.denied = @ \cup {c}]
    [] OTHER -> a

(* A device tool refuses to run for a cancelled run.                        *)
Answer(r, action) ==
  /\ r \in parked
  /\ run[r].phase = "asking"
  /\ Takes(Risk[run[r].call], action)
  /\ parked' = parked \ {r}
  /\ run' = [run EXCEPT
       ![r].phase = IF action = "deny" \/ run[r].aborted THEN "working" ELSE "executing"]
  /\ allowed' = [allowed EXCEPT ![r] = Answered(@, run[r].call, action)]
  /\ UNCHANGED <<known, turn, closed, failures>>

(* answerUserInput, answered or skipped: the runner goes on either way.     *)
AnswerInput(r) ==
  /\ r \in parked
  /\ run[r].phase = "clarifying"
  /\ parked' = parked \ {r}
  /\ run' = [run EXCEPT ![r].phase = "working"]
  /\ UNCHANGED <<known, allowed, turn, closed, failures>>

(* POST /v1/runs/:id/cancel, of a finished run as well: its children and    *)
(* its next speaker are aborted with it, and the turn goes no further.      *)
Cancel(r) ==
  /\ r \in known
  /\ Abort({r} \cup NextSpeaker(r) \cup {c \in Runs : run[c].parent = r})
  /\ turn' = IF run[r].turn = NoRun THEN turn
             ELSE [turn EXCEPT ![run[r].turn].cancelled = TRUE]
  /\ UNCHANGED <<known, allowed, closed, failures>>

(* close: the service stops.  Every run is aborted, and the pumps wind      *)
(* down until the process is gone.                                          *)
Close ==
  /\ ~closed
  /\ closed' = TRUE
  /\ Abort(Open)
  /\ UNCHANGED <<known, allowed, turn, failures>>

---------------------------------------------------------------------------
(* The runner, from one await to the next.                                  *)

(* The first speaker's prompt is in the transcript; a run that replaces or  *)
(* replies finds its prompt there.                                          *)
Prompted(r) == run[r].turn # NoRun => turn[run[r].turn].saved

SavePrompt(r) ==
  /\ run[r].phase = "working"
  /\ ~Prompted(r)
  /\ turn' = [turn EXCEPT ![run[r].turn].saved = TRUE]
  /\ UNCHANGED <<known, run, allowed, parked, closed, failures>>

(* The model asks for a tool: the runner checks the signal, then awaits the *)
(* tool's assessment of the call.  A call denied before is denied at once.  *)
CallTool(r, c) ==
  /\ run[r].phase = "working"
  /\ Prompted(r)
  /\ ~run[r].aborted
  /\ run[r].calls < MaxCalls[r]
  /\ c = Delegate => run[r].parent = NoRun
  /\ run' = [run EXCEPT ![r].phase = IF c \in allowed[r].denied THEN @ ELSE "assessing",
                        ![r].call = c, ![r].calls = @ + 1]
  /\ UNCHANGED <<known, allowed, turn, parked, closed, failures>>

InsideAny(place, folders) == \E f \in folders : <<place, f>> \in Within

\* Mutant: a trusted folder covers what must be approved singly.
CoveredByTrust(risk, kind, a) ==
  \/ ~risk.escalate /\ kind \in a.kinds
  \/ risk.folder # Nowhere /\ InsideAny(risk.path, a.folders)
  \/ risk.root \in a.roots
  \/ risk.escalate /\ InsideAny(risk.path, a.trusted)

(* handleApproval: an earlier answer of this run covers the call.           *)
Covered(risk, kind, a) ==
  \/ ~risk.escalate /\ kind \in a.kinds
  \/ risk.folder # Nowhere /\ InsideAny(risk.path, a.folders)
  \/ risk.root \in a.roots
  \/ risk.persistable /\ risk.escalate /\ InsideAny(risk.path, a.trusted)

(* preApproved: policy alone approves it.                                   *)
PreApproved(risk, mode, a) ==
  \/ risk.trusted
  \/ mode # "deny" /\ ((risk.routine /\ ~risk.escalate) \/ risk.root \in a.roots)

(* What becomes of a call once its risk is known.                           *)
Verdict(r) ==
  LET c == run[r].call
      risk == Risk[c]
      mode == allowed[r].mode[Kind[c]]
  IN  IF risk.blocked THEN "deny"
      ELSE IF PreApproved(risk, mode, allowed[r]) THEN "allow"
      ELSE IF mode = "deny" THEN "deny"
      ELSE IF (mode = "allow" /\ ~risk.escalate) \/ Covered(risk, Kind[c], allowed[r])
           THEN "allow" ELSE "ask"

\* Mutant: the tool does not look at the signal again.
RunToolUnchecked(r) ==
  /\ run' = [run EXCEPT ![r].phase = "executing"]
  /\ UNCHANGED <<allowed, parked>>

(* A tool on another device refuses to run for a cancelled run.             *)
RunTool(r) ==
  /\ run' = [run EXCEPT ![r].phase = IF run[r].aborted THEN "working" ELSE "executing"]
  /\ UNCHANGED <<allowed, parked>>

(* handleApproval parks the request; its listener hears only a signal that  *)
(* fires from now on.  (The denial of a cancel is not kept: the run ends.)  *)
Assessed(r) ==
  /\ run[r].phase = "assessing"
  /\ \/ /\ Verdict(r) = "deny"
        /\ run' = [run EXCEPT ![r].phase = "working"]
        /\ allowed' = [allowed EXCEPT ![r].denied = @ \cup {run[r].call}]
        /\ UNCHANGED parked
     \/ /\ Verdict(r) = "allow"
        /\ RunTool(r)
     \/ /\ Verdict(r) = "ask"
        /\ run' = [run EXCEPT ![r].phase = "asking"]
        /\ parked' = parked \cup {r}
        /\ UNCHANGED allowed
  /\ UNCHANGED <<known, turn, closed, failures>>

(* ask_user: between the check of the signal and the prompt nothing is      *)
(* awaited.                                                                 *)
AskUser(r) ==
  /\ run[r].phase = "working"
  /\ Prompted(r)
  /\ ~run[r].aborted
  /\ run[r].calls < MaxCalls[r]
  /\ run' = [run EXCEPT ![r].phase = "clarifying", ![r].calls = @ + 1]
  /\ parked' = parked \cup {r}
  /\ UNCHANGED <<known, allowed, turn, closed, failures>>

(* The tool returns, or fails; a call whose outcome on another device is    *)
(* not known ends the run.                                                  *)
ToolReturns(r, certain) ==
  /\ run[r].phase = "executing"
  /\ run' = [run EXCEPT ![r].phase = IF certain THEN "working" ELSE "stopping",
                        ![r].call = NoCall]
  /\ UNCHANGED <<known, allowed, turn, parked, closed, failures>>

(* startChild: a run without a session, which a run that was cancelled      *)
(* while the device was looked up cancels at once.  Where the child cannot  *)
(* be written the tool fails.                                               *)
StartChild(r, c) ==
  /\ run[r].phase = "executing"
  /\ run[r].call = Delegate
  /\ run[c].phase = "none"
  /\ Spare(1)
  /\ ~closed
  /\ Capacity
  /\ \E kept \in Kept, saved \in BOOLEAN, p \in Profiles :
       LET f == [Launched(NoSession, NoRun, 0) EXCEPT !.parent = r] IN
       /\ Written(saved)
       /\ known' = kept \cup {c}
       /\ run' = [Forget(kept) EXCEPT
            ![r].phase = IF saved THEN "delegating" ELSE "working",
            ![r].child = IF saved THEN c ELSE @,
            ![c] = IF saved THEN [f EXCEPT !.aborted = run[r].aborted] ELSE Orphan(f)]
       /\ allowed' = [allowed EXCEPT ![c] = IF saved THEN Configured(p) ELSE @]
  /\ UNCHANGED <<turn, parked, closed>>

(* The delegating tool follows its child's events to the last.              *)
\* Mutant: the tool returns without its child's end.
ChildReturnsEarly(r) ==
  /\ run[r].phase = "delegating"
  /\ run' = [run EXCEPT ![r].phase = "stopping", ![r].child = NoRun, ![r].call = NoCall]
  /\ UNCHANGED <<known, allowed, turn, parked, closed, failures>>

ChildReturns(r) ==
  /\ run[r].phase = "delegating"
  /\ Finished(run[r].child)
  /\ run' = [run EXCEPT
       ![r].phase = IF run[run[r].child].status = "completed" THEN "working" ELSE "stopping",
       ![r].child = NoRun, ![r].call = NoCall]
  /\ UNCHANGED <<known, allowed, turn, parked, closed, failures>>

(* The prompts' timers: an approval nobody answered ends the run, a         *)
(* question nobody answered does not.                                       *)
ApprovalTimesOut(r) ==
  /\ r \in parked
  /\ run[r].phase = "asking"
  /\ parked' = parked \ {r}
  /\ run' = [run EXCEPT ![r].phase = "stopping"]
  /\ UNCHANGED <<known, allowed, turn, closed, failures>>

InputTimesOut(r) == AnswerInput(r)

---------------------------------------------------------------------------
(* The end of a run.                                                        *)

\* Mutant: a first answer whose prompt was never saved does not end the turn.
ContinuesUnsaved(r, status) ==
  LET t == turn[run[r].turn] IN
  /\ run[r].turn # NoRun /\ ~closed
  /\ ~t.cancelled /\ status # "cancelled"
  /\ run[r].index + 1 < t.speakers
  /\ ~(run[r].index = 0 /\ t.replaces /\ status # "completed")

(* ProjectTurn.continuesAfter, and the conditions append adds.              *)
Continues(r, status) ==
  /\ run[r].turn # NoRun
  /\ ~closed
  /\ LET t == turn[run[r].turn] IN
     /\ ~t.cancelled /\ status # "cancelled"
     /\ run[r].index + 1 < t.speakers
     /\ t.saved
     /\ ~(run[r].index = 0 /\ t.replaces /\ status # "completed")

(* How the runner may end where it stands.                                  *)
MayEnd(r, status) ==
  /\ run[r].phase \in {"working", "assessing", "stopping"}
  /\ status \in {"completed", "failed", "cancelled"}
  /\ status = "cancelled" => run[r].aborted
  /\ status = "completed" => run[r].phase = "working" /\ Prompted(r)
  /\ run[r].phase = "stopping" /\ run[r].aborted => status = "cancelled"

(* append of `done': the next speaker n is launched before this run is      *)
(* finished, so the session is never free between them.  A speaker launched *)
(* before, by an append that failed, is replaced and never pumped.          *)
Handed(r, f, n, phase) ==
  [x \in Runs |->
     IF x = r THEN f
     ELSE IF x = n THEN [Launched(run[r].session, run[r].turn, run[r].index + 1)
                           EXCEPT !.phase = phase]
     ELSE IF phase = "queued" /\ x \in NextSpeaker(r) THEN Orphan(run[x])
     ELSE run[x]]

Ends(r, status) ==
  LET f == [Past(run[r], status) EXCEPT !.phase = "ended"] IN
  /\ IF Continues(r, status)
     THEN \E n \in Fresh : /\ run' = Handed(r, f, n, "queued")
                           /\ known' = known \cup {n}
     ELSE run' = [run EXCEPT ![r] = f] /\ UNCHANGED known
  /\ allowed' = [allowed EXCEPT ![r] = Nothing]
  /\ UNCHANGED <<turn, parked, closed>>

(* (A write of `done' itself that fails leaves the run finished here and    *)
(* the journal behind, which only a reader of its events can tell.)         *)
Done(r, status) == MayEnd(r, status) /\ Ends(r, status) /\ UNCHANGED failures

---------------------------------------------------------------------------
(* The journal cannot be written.                                           *)

(* append of an event before the last throws: the pump leaves the runner,   *)
(* and what it awaits, where they stand.                                    *)
Abandoned(f) == [f EXCEPT !.phase = "abandoned", !.child = NoRun,
                          !.call = NoCall, !.calls = 0]

WriteFails(r) ==
  /\ run[r].phase \in {"working", "assessing", "executing", "delegating", "stopping"}
  /\ Fails
  /\ run' = [run EXCEPT ![r] = Abandoned(@)]
  /\ allowed' = [allowed EXCEPT ![r] = Nothing]
  /\ UNCHANGED <<known, turn, parked, closed>>

(* append of `done' throws before the run is finished: the next speaker     *)
(* cannot be written, and is no speaker, or the handoff to it cannot.       *)
HandoffThrows(r, f) ==
  /\ Spare(1)
  /\ \E n \in Fresh, next \in {"orphan", "queued"} :
       /\ run' = Handed(r, f, n, next)
       /\ known' = known \cup {n}

HandoffFails(r, status) ==
  /\ MayEnd(r, status)
  /\ Continues(r, status)
  /\ Fails
  /\ HandoffThrows(r, Abandoned(run[r]))
  /\ allowed' = [allowed EXCEPT ![r] = Nothing]
  /\ UNCHANGED <<turn, parked, closed>>

(* The pump's catch reports the error and ends the run as failed.           *)
Catch(r) ==
  /\ run[r].phase = "abandoned"
  /\ Ends(r, "failed")
  /\ UNCHANGED failures

CatchFails(r) ==
  /\ run[r].phase = "abandoned"
  /\ Fails
  /\ LET f == [run[r] EXCEPT !.phase = "broken"] IN
     \/ run' = [run EXCEPT ![r] = f] /\ UNCHANGED known
     \/ Continues(r, "failed") /\ HandoffThrows(r, f)
  /\ UNCHANGED <<allowed, turn, parked, closed>>

---------------------------------------------------------------------------
(* The pump's finally, and what becomes of a run after it.                  *)

\* Mutant: the next speaker starts whatever happened meanwhile.
StopsHereNever(n) == FALSE

(* A speaker cancelled before its pump starts ends without answering.       *)
StopsHere(n) == closed \/ run[n].aborted \/ turn[run[n].turn].cancelled

Going(r) == {n \in NextSpeaker(r) : ~StopsHere(n)}

\* Mutant: every speaker ends the turn.
EndsEachTime(r) == run[r].turn # NoRun

\* Mutant: a dropped speaker leaves the turn open.
EndsUnlessDropped(r) == run[r].turn # NoRun /\ NextSpeaker(r) = {}

EndsTurn(r) == run[r].turn # NoRun /\ Going(r) = {}

(* Of a turn that has ended nothing is read any more.                       *)
AtRest(r) ==
  IF Finished(r) THEN Forgotten(run[r].status)
  ELSE [run[r] EXCEPT !.phase = IF @ = "orphan" THEN @ ELSE "dead",
                      !.turn = NoRun, !.index = 0]

Returned(r) == [run[r] EXCEPT !.phase = IF Finished(r) THEN "over" ELSE "dead"]

(* finally: start the next speaker, or drop it and end the turn.            *)
PumpReturns(r) ==
  /\ run[r].phase \in {"ended", "broken"}
  /\ run' = [x \in Runs |->
       IF x \in Going(r) THEN [run[x] EXCEPT !.phase = "working"]
       ELSE IF x \in NextSpeaker(r) THEN Forgotten("cancelled")
       ELSE IF EndsTurn(r) /\ (x = r \/ run[x].turn = run[r].turn) THEN AtRest(x)
       ELSE IF x = r THEN Returned(r)
       ELSE run[x]]
  /\ \E p \in Profiles :
       allowed' = [x \in Runs |-> IF x \in Going(r) THEN Configured(p) ELSE allowed[x]]
  /\ turn' = IF EndsTurn(r) THEN [turn EXCEPT ![run[r].turn] = NoTurn] ELSE turn
  /\ UNCHANGED <<known, parked, closed, failures>>

(* finally throws as it writes the end of a speaker it drops, and does not  *)
(* get to the end of the turn.                                              *)
PumpFails(r) ==
  /\ run[r].phase \in {"ended", "broken"}
  /\ EndsTurn(r) /\ NextSpeaker(r) # {}
  /\ Fails
  /\ run' = [x \in Runs |->
       IF x \in NextSpeaker(r) THEN Forgotten("cancelled")
       ELSE IF x = r THEN Returned(r)
       ELSE run[x]]
  /\ turn' = [turn EXCEPT ![run[r].turn].lost = TRUE]
  /\ UNCHANGED <<known, allowed, parked, closed>>

(* The eviction timer of a finished run.                                    *)
Evict(r) ==
  /\ r \in known
  /\ run[r].phase = "over"
  /\ known' = known \ {r}
  /\ UNCHANGED <<run, allowed, turn, parked, closed, failures>>

(* The process dies, after close or without it, and the next one loads the  *)
(* journal: what was not finished is, as failed; nothing is pumped, and a   *)
(* loaded run has no turn and a signal of its own.                          *)
\* Mutant: the journal's unfinished runs are loaded as they are.
LoadedAsSaved(r) == run[r].status

(* A record of the journal: an unfinished run becomes a failed one.         *)
Loaded(r) == IF Finished(r) THEN run[r].status ELSE "failed"

(* Runs evicted earlier may be loaded with the others, and a run never      *)
(* written is not; nothing reads either.                                    *)
Restart ==
  /\ known' = known
  /\ run' = [r \in Runs |-> IF run[r].phase = "none" THEN run[r]
                            ELSE Forgotten(Loaded(r))]
  /\ allowed' = [r \in Runs |-> Nothing]
  /\ turn' = [r \in Runs |-> NoTurn]
  /\ parked' = {}
  /\ closed' = FALSE
  /\ UNCHANGED failures

---------------------------------------------------------------------------
Request ==
  \/ \E r \in Runs, s \in Sessions \cup {NoSession}, n \in 0..MaxSpeakers,
        replaces \in BOOLEAN : Start(r, s, n, replaces)
  \/ \E r \in Runs, action \in Answers : Answer(r, action)
  \/ \E r \in Runs : AnswerInput(r) \/ Cancel(r)

Runner(r) ==
  \/ SavePrompt(r) \/ AskUser(r) \/ Assessed(r) \/ ChildReturns(r)
  \/ \E c \in Calls : CallTool(r, c)
  \/ \E certain \in BOOLEAN : ToolReturns(r, certain)
  \/ \E c \in Runs : StartChild(r, c)
  \/ \E status \in Statuses : Done(r, status)

Timers(r) == ApprovalTimesOut(r) \/ InputTimesOut(r)

Pump(r) == Catch(r) \/ PumpReturns(r)

JournalFails(r) ==
  \/ WriteFails(r) \/ CatchFails(r) \/ PumpFails(r)
  \/ \E status \in Statuses : HandoffFails(r, status)

Next ==
  \/ Request
  \/ \E r \in Runs : Runner(r) \/ Timers(r) \/ Pump(r) \/ JournalFails(r) \/ Evict(r)
  \/ Close
  \/ Restart

Spec == Init /\ [][Next]_vars

(* Model calls, tools and requests to other devices return or time out, the *)
(* prompts' timers fire, and the event loop runs what is ready.             *)
FairSpec ==
  Spec /\ \A r \in Runs : WF_vars(Runner(r) \/ Timers(r) \/ Pump(r))

---------------------------------------------------------------------------
(* The tables hold what their types say.                                    *)
TypeOK ==
  /\ known \subseteq Runs
  /\ run \in [Runs -> ActiveRun]
  /\ allowed \in [Runs -> Allowance]
  /\ turn \in [Runs -> ProjectTurn]
  /\ parked \subseteq Runs
  /\ closed \in BOOLEAN
  /\ failures \in 0..MaxFailures

(* A session has one run at a time, from the moment a run is registered and *)
(* across the speakers of a project turn: nobody's run slips in between two *)
(* of them (start's SESSION_BUSY, and append's launch before finish).  A    *)
(* run that a failed write left unfinished does nothing more.               *)
OneRunPerSession ==
  \A q, r \in Acting :
    q # r /\ run[q].session # NoSession => run[q].session # run[r].session

(* An open prompt always has a run the registry still knows and whose       *)
(* runner awaits it (answerApproval's this.runs.get(entry.runId)!), and a   *)
(* runner never awaits a prompt nobody can answer.                          *)
PromptsHaveRunner ==
  \A r \in Runs : r \in parked <=> (r \in Open /\ run[r].phase \in {"asking", "clarifying"})

(* A delegated run ends before the run it works for, whoever is cancelled   *)
(* and whatever times out, while the journal can be written.                *)
ChildrenEndFirst ==
  failures = 0 => \A c \in Open : run[c].parent # NoRun =>
    /\ run[c].parent \in Open
    /\ run[run[c].parent].phase = "delegating"
    /\ run[run[c].parent].child = c

(* The session of a project turn is held as long as a speaker of it is not  *)
(* done.                                                                    *)
TurnHeldThroughout ==
  \A r \in Acting : run[r].turn # NoRun => turn[run[r].turn].held

(* A later speaker replies to a message that was saved.                     *)
RepliesHaveMessage ==
  \A r \in Acting : run[r].index > 0 => turn[run[r].turn].saved

(* No speaker starts answering in a turn that was cancelled.                *)
NoSpeakerAfterCancel ==
  [][\A r \in Runs : run[r].phase = "queued" /\ turn[run[r].turn].cancelled
        => run'[r].phase \notin {"working"}]_vars

(* A call that must be approved singly runs only on an answer given to that *)
(* very call: no settings of the profile and no earlier answer, for a kind, *)
(* a folder or a sensitive root, runs it; and a call that was denied does   *)
(* not run later in that run, whatever is answered meanwhile.               *)
AskedEachTime ==
  [][\A r \in Runs : run'[r].phase = "executing" /\ run[r].phase # "executing" =>
       LET c == run'[r].call IN
       /\ ~Risk[c].persistable => r \in parked
       /\ c \notin allowed[r].denied]_vars

(* No tool starts for a run that was cancelled.                             *)
NoToolAfterCancel ==
  [][\A r \in Runs : run[r].aborted /\ run'[r].phase = "executing"
        => run[r].phase = "executing"]_vars

(* Every run comes to its end, whether or not anybody answers it, and       *)
(* though a write fails under way; it stays unfinished only where its first *)
(* write failed, or where the report of a failed write failed as well, its  *)
(* own or that of the child it waits for.  (What was started stays so.)     *)
NeverPumped(r) == run[r].phase = "orphan" /\ failures >= 1
FailedTwice(r) == run[r].phase = "dead" /\ failures >= 2
AwaitsForEver(r) == run[r].phase = "delegating" /\ FailedTwice(run[r].child)

RunsEnd ==
  \A r \in Runs : []<>(run[r].phase # "none" =>
    Finished(r) \/ NeverPumped(r) \/ FailedTwice(r) \/ AwaitsForEver(r))

(* The hold of a project turn does not outlive it, except where the first   *)
(* write of its first run failed, or the last of a speaker it drops; and    *)
(* the turn ends, unless a speaker waits for such a child.                  *)
HoldsEnd ==
  \A t \in Runs : []<>(turn[t].held =>
    turn[t].lost \/ \E r \in Runs : run[r].turn = t /\ AwaitsForEver(r))

(* docs/service-api.md: cancelling any speaker stops the turn.  The code     *)
(* does not keep this, nor what follows: see the README.                    *)
CancelStopsTurn ==
  \A r \in Acting : run[r].turn # NoRun /\ turn[run[r].turn].cancelled => run[r].aborted

(* docs/service-api.md: a cancel unblocks a pending approval immediately.   *)
CancelUnblocks == \A r \in parked : ~run[r].aborted
===========================================================================
