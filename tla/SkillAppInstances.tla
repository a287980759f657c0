-------------------------- MODULE SkillAppInstances --------------------------
(***************************************************************************)
(* One instance of a SkillApp on the service                               *)
(* (packages/core/src/app/SkillAppInstanceRegistry.ts): the form the user  *)
(* edits, the runs its triggers start while he types, and the execution a  *)
(* button starts.  A run is a call of a model; the service aborts the ones *)
(* it no longer wants, and an aborted call may still answer, later than    *)
(* the call that replaced it.                                              *)
(*                                                                         *)
(* Instances share nothing but their number; one is modelled, from its     *)
(* creation to its deletion.  A text is a model value, an output is what   *)
(* it was made from.  Several triggers of one operation are taken as one:  *)
(* in the code the last of them supersedes the others in the same step.    *)
(***************************************************************************)
EXTENDS Naturals, FiniteSets, Functions

CONSTANTS Ops,          \* definition.operations
          Inputs,       \* the states the user edits
          Outputs,      \* the states operations write
          Values,       \* texts of an input
          Blank,        \* a text of white space only
          Given,        \* a text the definition gives an output
          InitialValues,  \* State(initial) of the inputs
          InitialOutput,  \* State(initial) of the outputs
          Files,        \* contents of the attachment state
          Reads,        \* operationInputStates
          Required,     \* requiredInputs
          Watches,      \* onChange of an operation's trigger
          Output,       \* the state an operation writes
          Attached,     \* operations that take the attachments
          Delayed,      \* operations whose trigger has a debounce
          Interactive,  \* operations that may ask the user
          Calls,        \* bound: calls of the runtime at once
          NoCall,
          MaxEdits      \* bound: how often the form is changed

ASSUME DefinitionIsValid ==
  /\ Blank \in Values
  /\ Reads \in [Ops -> SUBSET Inputs]
  /\ Required \in [Ops -> SUBSET Inputs]
  /\ \A o \in Ops : Required[o] \subseteq Reads[o]
  /\ Watches \in [Ops -> SUBSET Inputs]
  /\ InitialValues \in [Inputs -> Values]
  /\ InitialOutput \in [Outputs -> {Blank, Given}]
  /\ Output \in [Ops -> Outputs]
  /\ Attached \subseteq Ops /\ Delayed \subseteq Ops /\ Interactive \subseteq Ops
  /\ \A o \in Interactive : Watches[o] = {}
  /\ {Blank, Given} \cap [op : Ops, values : UNION {[Reads[o] -> Values] : o \in Ops}, files : Files] = {}
  /\ NoCall \notin Calls
  /\ MaxEdits \in Nat

VARIABLES
  live,    \* the registry has the instance
  values,  \* snapshot.state of the inputs
  files,   \* attachmentsByState
  output,  \* snapshot.state of the outputs
  stale,   \* snapshot.staleOutputs
  active,  \* operations: the call an operation waits for
  call,    \* the calls with their timers, controllers and promises
  exec,    \* execution
  report,  \* snapshot.execution
  edits    \* how often the form was changed

vars == <<live, values, files, output, stale, active, call, exec, report, edits>>

Idle == [step |-> "idle"]
NoExec == [call |-> NoCall, deferred |-> {}, prompt |-> "none", granted |-> FALSE]
NoReport == [phase |-> "none", committed |-> FALSE]
Over == {"none", "completed", "failed", "cancelled"}

(* create                                                                   *)
Init ==
  /\ live = TRUE
  /\ values = InitialValues
  /\ files \in Files
  /\ output = InitialOutput
  /\ stale = {}
  /\ active = [o \in Ops |-> NoCall]
  /\ call = [c \in Calls |-> Idle]
  /\ exec = NoExec
  /\ report = NoReport
  /\ edits = 0

---------------------------------------------------------------------------
(* What an operation makes of a form.                                       *)
Made(o, form, attached) ==
  [op |-> o, values |-> [i \in Reads[o] |-> form[i]],
   files |-> IF o \in Attached THEN attached ELSE CHOOSE f \in Files : TRUE]

(* operationIsRunnable                                                      *)
Runnable(o, form) == \A i \in Required[o] : form[i] # Blank

(* The operations a change touches, and those it triggers.                  *)
Changed(form) == {i \in Inputs : form[i] # values[i]}
Touched(form) == {o \in Ops : Reads[o] \cap Changed(form) # {}}
Triggered(form) == {o \in Ops : Watches[o] \cap Changed(form) # {}}

(* markOutputStale: an empty output is never stale.                         *)
StaleAfter(ops) == stale \cup {x \in Outputs : output[x] # Blank /\ \E o \in ops : Output[o] = x}

Spare == {c \in Calls : call[c] = Idle /\ \A o \in Ops : active[o] # c}

(* A call from the moment runSkillAppOperation is called.                   *)
Running(o, kind, waiting, form, attached) ==
  [step |-> "running", op |-> o, kind |-> kind, aborted |-> FALSE,
   waiting |-> waiting, made |-> Made(o, form, attached)]

(* executeLatest: at once, or after the debounce.                           *)
Scheduled(o, waiting, form) ==
  IF o \in Delayed THEN [step |-> "timer", op |-> o, waiting |-> waiting]
  ELSE Running(o, "automatic", waiting, form, files)

\* Mutant: a superseded request is never answered.
SupersededSilently(k) ==
  IF k.step = "timer" THEN [k EXCEPT !.step = "cleared"]
  ELSE IF k.step = "running" THEN [k EXCEPT !.aborted = TRUE] ELSE k

(* The timer is cleared, the call aborted, the request answered             *)
(* `superseded'.                                                            *)
Superseded(k) ==
  IF k.step = "running" THEN [k EXCEPT !.aborted = TRUE, !.waiting = FALSE] ELSE Idle

(* cancelOperation of some operations and executeLatest of others, which    *)
(* supersedes the call there was.                                           *)
Replace(cancelled, started, waiting, form, others) ==
  \E new \in Injection(started, Spare) :
    LET old == {active[o] : o \in cancelled \cup started} IN
    /\ active' = [o \in Ops |-> IF o \in started THEN new[o]
                                ELSE IF o \in cancelled THEN NoCall ELSE active[o]]
    /\ call' = [c \in Calls |->
         IF \E o \in started : new[o] = c
         THEN Scheduled(CHOOSE o \in started : new[o] = c, waiting, form)
         ELSE IF c \in old THEN Superseded(call[c]) ELSE others[c]]

---------------------------------------------------------------------------
(* Requests.                                                                *)

Editable == live /\ exec.call = NoCall /\ edits < MaxEdits

(* update: what the change touches is stale and cancelled, what it triggers *)
(* and can run is scheduled, and the request waits for it.                  *)
Update(form) ==
  /\ Editable
  /\ Changed(form) # {}
  /\ values' = form
  /\ stale' = StaleAfter(Touched(form))
  /\ Replace(Touched(form), {o \in Triggered(form) : Runnable(o, form)}, TRUE, form, call)
  /\ edits' = edits + 1
  /\ UNCHANGED <<live, files, output, exec, report>>

(* updateAttachments                                                        *)
UpdateAttachments(f) ==
  /\ Editable
  /\ files' = f
  /\ stale' = StaleAfter(Attached)
  /\ Replace(Attached, {}, TRUE, values, call)
  /\ edits' = edits + 1
  /\ UNCHANGED <<live, values, output, exec, report>>

(* start and, with a request that waits, run: the button takes the edits    *)
(* along; what they trigger is owed until the execution ends.               *)
Start(o, form, waits) ==
  /\ live /\ exec.call = NoCall
  /\ Changed(form) # {} => edits < MaxEdits
  /\ values' = form
  /\ edits' = IF Changed(form) = {} THEN edits ELSE edits + 1
  /\ IF Runnable(o, form)
     THEN \E c \in Spare :
            /\ stale' = StaleAfter(Touched(form)) \ {Output[o]}
            /\ output' = [output EXCEPT ![Output[o]] = Blank]
            /\ Replace(Touched(form) \cup {o}, {}, FALSE, form,
                 [call EXCEPT ![c] =
                    Running(o, "execution", waits /\ o \notin Interactive, form, files)])
            /\ exec' = [NoExec EXCEPT !.call = c, !.deferred = Triggered(form) \ {o}]
            /\ report' = [phase |-> "running", committed |-> FALSE]
     ELSE /\ stale' = StaleAfter(Touched(form) \cup {o})
          /\ Replace(Touched(form) \cup {o}, {}, FALSE, form, call)
          /\ UNCHANGED <<output, exec, report>>
  /\ UNCHANGED <<live, files>>

\* Mutant: a cancelled execution is cancelled whatever it has installed.
FinishForgetsEffects(phase, text, others) ==
  LET o == call[exec.call].op IN
  /\ report' = [report EXCEPT !.phase = phase]
  /\ output' = IF phase = "completed" THEN [output EXCEPT ![Output[o]] = text] ELSE output
  /\ stale' = IF phase = "completed" THEN stale \ {Output[o]} ELSE stale
  /\ exec' = NoExec
  /\ Replace({}, IF live THEN {t \in exec.deferred : Runnable(t, values)} ELSE {},
             FALSE, values, others)

(* finishExecution: the request that waits is answered, what the start owes *)
(* is scheduled.  What an operation has installed stays its success.        *)
Finish(phase, text, others) ==
  LET o == call[exec.call].op
      success == phase = "completed" \/ report.committed
      shown == IF report.committed /\ phase # "completed" THEN call[exec.call].made ELSE text
  IN
  /\ report' = [report EXCEPT !.phase = IF success THEN "completed" ELSE phase]
  /\ output' = IF success THEN [output EXCEPT ![Output[o]] = shown] ELSE output
  /\ stale' = IF success THEN stale \ {Output[o]} ELSE stale
  /\ exec' = NoExec
  /\ Replace({}, IF live THEN {t \in exec.deferred : Runnable(t, values)} ELSE {},
             FALSE, values, others)

(* cancelExecution; abortExecution denies what it waits for.                *)
Cancel ==
  /\ live /\ exec.call # NoCall
  /\ Finish("cancelled", Blank, [call EXCEPT ![exec.call] = Superseded(@)])
  /\ UNCHANGED <<live, values, files, edits>>

(* answerUserInput, answerApproval.                                         *)
Answer(granted) ==
  /\ live /\ exec.prompt # "none"
  /\ granted => exec.prompt = "approval"
  /\ exec' = [exec EXCEPT !.prompt = "none", !.granted = granted]
  /\ report' = [report EXCEPT !.phase = "running"]
  /\ UNCHANGED <<live, values, files, output, stale, active, call, edits>>

(* delete, by a request, the expiry timer or the end of the service: the    *)
(* operations stay in their map, and the execution ends while the registry  *)
(* still has the instance.                                                  *)
Delete ==
  /\ live
  /\ live' = FALSE
  /\ LET stopped == [c \in Calls |->
           IF c = exec.call \/ \E o \in Ops : active[o] = c THEN Superseded(call[c]) ELSE call[c]]
     IN IF exec.call # NoCall THEN Finish("cancelled", Blank, stopped)
        ELSE call' = stopped /\ UNCHANGED <<output, stale, active, exec, report>>
  /\ UNCHANGED <<values, files, edits>>

---------------------------------------------------------------------------
(* The runtime.                                                             *)

(* The debounce is over: the input is read now.                             *)
TimerFires(c) ==
  /\ call[c].step = "timer"
  /\ call' = [call EXCEPT ![c] =
       Running(call[c].op, "automatic", call[c].waiting, values, files)]
  /\ UNCHANGED <<live, values, files, output, stale, active, exec, report, edits>>

\* Mutant: a result is taken whatever call it comes from.
AnyResultTaken(c, result) ==
  /\ call[c].step = "running" /\ call[c].kind = "automatic"
  /\ call' = [call EXCEPT ![c] = Idle]
  /\ IF active[call[c].op] # NoCall
     THEN /\ active' = [active EXCEPT ![call[c].op] = NoCall]
          /\ IF result = "error" THEN UNCHANGED <<output, stale>>
             ELSE /\ output' = [output EXCEPT ![Output[call[c].op]] =
                       IF result = "text" THEN call[c].made ELSE Blank]
                  /\ stale' = stale \ {Output[call[c].op]}
     ELSE UNCHANGED <<active, output, stale>>
  /\ UNCHANGED <<live, values, files, exec, report, edits>>

(* An automatic call answers: it counts if the operation still waits for    *)
(* this very call.                                                          *)
AutomaticEnds(c, result) ==
  /\ call[c].step = "running" /\ call[c].kind = "automatic"
  /\ call' = [call EXCEPT ![c] = Idle]
  /\ IF active[call[c].op] = c
     THEN /\ active' = [active EXCEPT ![call[c].op] = NoCall]
          /\ IF result = "error" THEN UNCHANGED <<output, stale>>
             ELSE /\ output' = [output EXCEPT ![Output[call[c].op]] =
                       IF result = "text" THEN call[c].made ELSE Blank]
                  /\ stale' = stale \ {Output[call[c].op]}
     ELSE UNCHANGED <<active, output, stale>>
  /\ UNCHANGED <<live, values, files, exec, report, edits>>

(* The call of an execution answers, or throws.                             *)
ExecutionEnds(c, result) ==
  /\ call[c].step = "running" /\ call[c].kind = "execution"
  /\ IF exec.call = c
     THEN /\ exec.prompt = "none"
          /\ Finish(IF result = "error" THEN "failed" ELSE "completed",
                    IF result = "text" THEN call[c].made ELSE Blank,
                    [call EXCEPT ![c] = Idle])
     ELSE /\ call' = [call EXCEPT ![c] = Idle]
          /\ UNCHANGED <<output, stale, active, exec, report>>
  /\ UNCHANGED <<live, values, files, edits>>

(* waitForApproval, waitForUserInput: only an interactive operation asks.   *)
Ask(prompt) ==
  /\ exec.call # NoCall /\ exec.prompt = "none"
  /\ call[exec.call].op \in Interactive
  /\ exec' = [exec EXCEPT !.prompt = prompt, !.granted = FALSE]
  /\ report' = [report EXCEPT !.phase =
       IF prompt = "input" THEN "waiting_for_input" ELSE "waiting_for_approval"]
  /\ UNCHANGED <<live, values, files, output, stale, active, call, edits>>

(* recordEffect: the tool that was approved has installed an App.           *)
RecordEffect ==
  /\ exec.granted
  /\ exec' = [exec EXCEPT !.granted = FALSE]
  /\ report' = [report EXCEPT !.committed = TRUE]
  /\ UNCHANGED <<live, values, files, output, stale, active, call, edits>>

---------------------------------------------------------------------------
Requests ==
  \/ \E form \in [Inputs -> Values] :
       Update(form) \/ \E o \in Ops, waits \in BOOLEAN : Start(o, form, waits)
  \/ \E f \in Files : UpdateAttachments(f)
  \/ \E granted \in BOOLEAN : Answer(granted)
  \/ Cancel \/ Delete

Ends(c) == \E result \in {"text", "blank", "error"} :
  AutomaticEnds(c, result) \/ ExecutionEnds(c, result)

Runtime ==
  \/ \E c \in Calls : TimerFires(c) \/ Ends(c)
  \/ Ask("input") \/ Ask("approval") \/ RecordEffect

Next == Requests \/ Runtime

(* Timers fire and calls of a model return: an engine has a time limit.     *)
Fairness == \A c \in Calls : WF_vars(TimerFires(c)) /\ WF_vars(Ends(c))

Spec == Init /\ [][Next]_vars /\ Fairness

---------------------------------------------------------------------------
MadeValues == [op : Ops, values : UNION {[Reads[o] -> Values] : o \in Ops}, files : Files]

CallStates ==
  {Idle}
  \cup [step : {"timer"}, op : Ops, waiting : BOOLEAN]
  \cup [step : {"running"}, op : Ops, kind : {"automatic", "execution"},
        aborted : BOOLEAN, waiting : BOOLEAN, made : MadeValues]

TypeOK ==
  /\ live \in BOOLEAN
  /\ values \in [Inputs -> Values]
  /\ files \in Files
  /\ output \in [Outputs -> MadeValues \cup {Blank, Given}]
  /\ stale \subseteq Outputs
  /\ active \in [Ops -> Calls \cup {NoCall}]
  /\ call \in [Calls -> CallStates]
  /\ exec \in [call : Calls \cup {NoCall}, deferred : SUBSET Ops,
               prompt : {"none", "approval", "input"}, granted : BOOLEAN]
  /\ report \in [phase : Over \cup {"running", "waiting_for_input", "waiting_for_approval"},
                 committed : BOOLEAN]
  /\ edits \in Nat

(* A result the form does not mark as stale was made from what the form     *)
(* says now: a late result of an earlier call never passes for a new one.   *)
FreshMeansCurrent ==
  \A x \in Outputs :
    output[x] \in MadeValues /\ x \notin stale => output[x] = Made(output[x].op, values, files)

(* A request that waits for a call waits for one whose end will answer it:  *)
(* the call its operation or the execution has now.                         *)
WaitersAnswerable ==
  \A c \in Calls :
    call[c] # Idle /\ call[c].waiting =>
      \/ c = exec.call
      \/ active[call[c].op] = c /\ call[c].step \in {"timer", "running"}

(* An execution that has installed an App does not end as failed or         *)
(* cancelled.                                                               *)
CommittedSucceeds == report.committed => report.phase \notin {"failed", "cancelled"}

(* A request that waits is answered.                                        *)
RequestsAnswered ==
  \A c \in Calls : (call[c] # Idle /\ call[c].waiting) ~> ~(call[c] # Idle /\ call[c].waiting)

(* Deleting an instance cancels its work.  The code does not keep this: see *)
(* the README.                                                              *)
DeleteCancelsWork ==
  ~live => \A c \in Calls : call[c] = Idle \/ (call[c].step = "running" /\ call[c].aborted)
==============================================================================
