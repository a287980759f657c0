------------------------ MODULE SkillAppInstancesProof ------------------------
(* What a form shows, proved for every form and every number of calls: a    *)
(* result that is not marked stale was made from what the form says now, a  *)
(* request that waits waits for a call that will answer it, and an          *)
(* execution that has installed an App does not fail.                       *)
EXTENDS SkillAppInstances, TLAPS

---------------------------------------------------------------------------
(* The strengthening: the calls the instance waits for work on what the     *)
(* form says now.                                                           *)

CurrentCall(o, k) ==
  /\ k.step \in {"timer", "running"} /\ k.op = o
  /\ k.step = "running" => k.kind = "automatic" /\ k.made = Made(o, values, files)

(* Only a deleted instance still names calls whose timer was cleared.       *)
CallsCurrent ==
  \A o \in Ops : active[o] # NoCall =>
    CurrentCall(o, call[active[o]]) \/ (call[active[o]] = Idle /\ ~live)

ExecutionCurrent ==
  exec.call # NoCall =>
    /\ live
    /\ call[exec.call].step = "running" /\ call[exec.call].kind = "execution"
    /\ call[exec.call].made = Made(call[exec.call].op, values, files)
    /\ report.phase \notin {"failed", "cancelled"}

PromptsOfExecution == exec.call = NoCall => exec.prompt = "none" /\ ~exec.granted

OutputsOwned == \A x \in Outputs : output[x] \in MadeValues => Output[output[x].op] = x

IInv ==
  /\ TypeOK /\ CallsCurrent /\ ExecutionCurrent /\ PromptsOfExecution /\ OutputsOwned
  /\ FreshMeansCurrent /\ WaitersAnswerable /\ CommittedSucceeds

---------------------------------------------------------------------------
(* Facts about the operators.                                               *)

LEMMA MadeFacts ==
  ASSUME NEW o \in Ops, NEW form \in [Inputs -> Values], NEW f \in Files
  PROVE  /\ Made(o, form, f) \in MadeValues
         /\ Made(o, form, f).op = o
         /\ Made(o, form, f) # Blank
  <1>1. Reads[o] \subseteq Inputs
    BY DefinitionIsValid
  <1>2. [i \in Reads[o] |-> form[i]] \in [Reads[o] -> Values]
    BY <1>1
  <1>3. [i \in Reads[o] |-> form[i]] \in UNION {[Reads[p] -> Values] : p \in Ops}
    BY <1>2
  <1>4. (IF o \in Attached THEN f ELSE CHOOSE g \in Files : TRUE) \in Files
    OBVIOUS
  <1>5. Made(o, form, f) \in MadeValues
    BY <1>3, <1>4 DEF Made, MadeValues
  <1>6. Made(o, form, f) # Blank
    BY <1>5, DefinitionIsValid DEF MadeValues
  <1> QED BY <1>5, <1>6 DEF Made

(* What an operation does not read does not change what it makes.           *)
LEMMA MadeOfReads ==
  ASSUME NEW o \in Ops, NEW form, NEW f \in Files, NEW g \in Files,
         \A i \in Reads[o] : form[i] = values[i],
         o \in Attached => f = g
  PROVE  Made(o, form, f) = Made(o, values, g)
  <1>1. [i \in Reads[o] |-> form[i]] = [i \in Reads[o] |-> values[i]]
    OBVIOUS
  <1> QED BY <1>1 DEF Made

LEMMA CallFields ==
  ASSUME NEW k \in CallStates
  PROVE  /\ k = Idle \/ k.step = "timer" \/ k.step = "running"
         /\ Idle.step = "idle"
         /\ k # Idle => k.op \in Ops /\ k.waiting \in BOOLEAN
         /\ k.step = "running" => k.made \in MadeValues /\ k.kind \in {"automatic", "execution"}
         /\ k.step \in {"timer", "running"} => k # Idle
  BY DEF CallStates, Idle

LEMMA SupersededFacts ==
  ASSUME NEW k \in CallStates
  PROVE  /\ Superseded(k) \in CallStates
         /\ k.step # "running" => Superseded(k) = Idle
         /\ k.step = "running" =>
              /\ Superseded(k).step = "running" /\ Superseded(k).op = k.op
              /\ Superseded(k).kind = k.kind /\ Superseded(k).made = k.made
              /\ Superseded(k).waiting = FALSE
  <1> DEFINE Runs == [step : {"running"}, op : Ops, kind : {"automatic", "execution"},
                     aborted : BOOLEAN, waiting : BOOLEAN, made : MadeValues]
  <1>1. CASE k.step = "running"
    <2>1. k \in Runs
      BY <1>1 DEF CallStates, Idle
    <2> DEFINE cut == [k EXCEPT !.aborted = TRUE]
    <2>2. /\ cut \in Runs /\ cut.step = "running"
          /\ cut.op = k.op /\ cut.kind = k.kind /\ cut.made = k.made
      BY <2>1
    <2>3. Superseded(k) = [cut EXCEPT !.waiting = FALSE]
      BY <1>1, Zenon DEF Superseded, cut
    <2> HIDE DEF cut
    <2>4. /\ Superseded(k) \in Runs /\ Superseded(k).step = "running"
          /\ Superseded(k).op = k.op /\ Superseded(k).kind = k.kind
          /\ Superseded(k).made = k.made /\ Superseded(k).waiting = FALSE
      BY <2>2, <2>3
    <2> QED BY <1>1, <2>4 DEF CallStates
  <1>2. CASE k.step # "running"
    BY <1>2 DEF Superseded, CallStates
  <1> QED BY <1>1, <1>2

LEMMA RunningFacts ==
  ASSUME NEW o \in Ops, NEW kind \in {"automatic", "execution"}, NEW waiting \in BOOLEAN,
         NEW form \in [Inputs -> Values], NEW f \in Files
  PROVE  LET k == Running(o, kind, waiting, form, f) IN
         /\ k \in CallStates
         /\ k.step = "running" /\ k.op = o /\ k.kind = kind /\ k.waiting = waiting
         /\ k.made = Made(o, form, f)
  BY MadeFacts DEF Running, CallStates

LEMMA ScheduledFacts ==
  ASSUME TypeOK, NEW o \in Ops, NEW waiting \in BOOLEAN, NEW form \in [Inputs -> Values]
  PROVE  LET k == Scheduled(o, waiting, form) IN
         /\ k \in CallStates
         /\ k.step \in {"timer", "running"} /\ k.op = o /\ k.waiting = waiting
         /\ k.step = "running" => k.kind = "automatic" /\ k.made = Made(o, form, files)
  <1>1. CASE o \in Delayed
    BY <1>1 DEF Scheduled, CallStates
  <1>2. CASE o \notin Delayed
    <2>1. files \in Files
      BY DEF TypeOK
    <2>2. Scheduled(o, waiting, form) = Running(o, "automatic", waiting, form, files)
      BY <1>2 DEF Scheduled
    <2> QED BY <2>1, <2>2, RunningFacts
  <1> QED BY <1>1, <1>2

(* Replace, read operation by operation and call by call.                   *)
Replaced(cancelled, started, waiting, form, others) ==
  /\ active' \in [Ops -> Calls \cup {NoCall}]
  /\ call' \in [Calls -> CallStates]
  /\ \A o \in started : active'[o] \in Spare /\ call'[active'[o]] = Scheduled(o, waiting, form)
  /\ \A o \in Ops \ started : active'[o] = IF o \in cancelled THEN NoCall ELSE active[o]
  /\ \A c \in Calls :
       \/ \E o \in started : c = active'[o]
       \/ call'[c] = IF \E o \in cancelled \cup started : active[o] = c
                     THEN Superseded(call[c]) ELSE others[c]

LEMMA ReplaceFacts ==
  ASSUME TypeOK,
         NEW cancelled \in SUBSET Ops, NEW started \in SUBSET Ops, NEW waiting \in BOOLEAN,
         NEW form \in [Inputs -> Values], NEW others \in [Calls -> CallStates],
         Replace(cancelled, started, waiting, form, others)
  PROVE  Replaced(cancelled, started, waiting, form, others)
  <1>1. PICK new \in Injection(started, Spare) :
          LET old == {active[o] : o \in cancelled \cup started} IN
          /\ active' = [o \in Ops |-> IF o \in started THEN new[o]
                                      ELSE IF o \in cancelled THEN NoCall ELSE active[o]]
          /\ call' = [c \in Calls |->
               IF \E o \in started : new[o] = c
               THEN Scheduled(CHOOSE o \in started : new[o] = c, waiting, form)
               ELSE IF c \in old THEN Superseded(call[c]) ELSE others[c]]
    BY DEF Replace
  <1>2. new \in [started -> Spare] /\ \A o, p \in started : new[o] = new[p] => o = p
    BY DEF Injection, IsInjective
  <1>3. Spare \subseteq Calls
    BY DEF Spare
  <1>4. active \in [Ops -> Calls \cup {NoCall}] /\ call \in [Calls -> CallStates]
    BY DEF TypeOK
  <1>5. active' \in [Ops -> Calls \cup {NoCall}]
    BY <1>1, <1>2, <1>3, <1>4
  <1>6. \A o \in Ops : Scheduled(o, waiting, form) \in CallStates
    BY ScheduledFacts
  <1>7. \A c \in Calls : Superseded(call[c]) \in CallStates
    BY <1>4, SupersededFacts
  <1>8. \A c \in Calls : (\E o \in started : new[o] = c) =>
          (CHOOSE o \in started : new[o] = c) \in started
    OBVIOUS
  <1>9. call' \in [Calls -> CallStates]
    BY <1>1, <1>6, <1>7, <1>8
  <1>10. ASSUME NEW o \in started
         PROVE  active'[o] \in Spare /\ call'[active'[o]] = Scheduled(o, waiting, form)
    <2>1. active'[o] = new[o] /\ new[o] \in Spare
      BY <1>1, <1>2
    <2>2. (CHOOSE p \in started : new[p] = new[o]) = o
      BY <1>2
    <2>3. new[o] \in Calls /\ \E p \in started : new[p] = new[o]
      BY <2>1, <1>3
    <2>4. call'[new[o]] = Scheduled(CHOOSE p \in started : new[p] = new[o], waiting, form)
      BY <1>1, <2>3
    <2> QED BY <2>1, <2>2, <2>4
  <1>11. \A o \in Ops \ started : active'[o] = IF o \in cancelled THEN NoCall ELSE active[o]
    BY <1>1
  <1>12. ASSUME NEW c \in Calls, \A o \in started : c # active'[o]
         PROVE  call'[c] = IF \E o \in cancelled \cup started : active[o] = c
                           THEN Superseded(call[c]) ELSE others[c]
    <2>1. \A o \in started : new[o] # c
      BY <1>1, <1>12
    <2> QED BY <1>1, <2>1
  <1> QED BY <1>5, <1>9, <1>10, <1>11, <1>12 DEF Replaced

---------------------------------------------------------------------------
(* The instance after a Replace: what it waits for is current again.        *)

(* The calls an instance waits for after it: those it kept are as they      *)
(* were, those it started work on the new form.                             *)
LEMMA ReplaceKeepsCurrent ==
  ASSUME IInv, live,
         NEW cancelled \in SUBSET Ops, NEW started \in SUBSET Ops, NEW waiting \in BOOLEAN,
         NEW others \in [Calls -> CallStates],
         values' \in [Inputs -> Values], files' \in Files,
         started # {} => files' = files,
         Replace(cancelled, started, waiting, values', others),
         \A o \in Ops \ (cancelled \cup started) :
           Made(o, values', files') = Made(o, values, files),
         \A c \in Calls : (\E o \in Ops : active[o] = c) =>
           others[c] = call[c] \/ (~live' /\ others[c] = Superseded(call[c]))
  PROVE  CallsCurrent'
  <1>1. TypeOK /\ CallsCurrent
    BY DEF IInv
  <1>2. active \in [Ops -> Calls \cup {NoCall}] /\ call \in [Calls -> CallStates]
    BY <1>1 DEF TypeOK
  <1>3a. Replaced(cancelled, started, waiting, values', others)
    BY <1>1, ReplaceFacts
  <1>3. /\ \A o \in started : active'[o] \in Spare /\ call'[active'[o]] = Scheduled(o, waiting, values')
        /\ \A o \in Ops \ started : active'[o] = IF o \in cancelled THEN NoCall ELSE active[o]
        /\ \A c \in Calls :
             \/ \E o \in started : c = active'[o]
             \/ call'[c] = IF \E o \in cancelled \cup started : active[o] = c
                           THEN Superseded(call[c]) ELSE others[c]
    BY <1>3a DEF Replaced
  <1>4. ASSUME NEW o \in started
        PROVE  CurrentCall(o, call[active[o]])'
    <2>1. call'[active'[o]] = Scheduled(o, waiting, values')
      BY <1>3
    <2>2. LET k == Scheduled(o, waiting, values') IN
            /\ k.step \in {"timer", "running"} /\ k.op = o
            /\ k.step = "running" => k.kind = "automatic" /\ k.made = Made(o, values', files)
      BY <1>1, ScheduledFacts
    <2> QED BY <2>1, <2>2 DEF CurrentCall
  <1>5. ASSUME NEW o \in Ops \ started, active'[o] # NoCall
        PROVE  (CurrentCall(o, call[active[o]]) \/ (call[active[o]] = Idle /\ ~live))'
    <2>1. /\ o \notin cancelled /\ active'[o] = active[o]
          /\ active[o] \in Calls /\ active[o] # NoCall
      BY <1>2, <1>3, <1>5, DefinitionIsValid
    <2> DEFINE c == active[o]
               k == call[c]
    <2>2. CurrentCall(o, k)
      BY <1>1, <2>1, Zenon DEF CallsCurrent
    <2>3. \A p \in Ops : active[p] = c => p = o
      BY <1>1, <2>1, <2>2, DefinitionIsValid DEF CallsCurrent, CurrentCall
    <2>4. ~ \E p \in started : c = active'[p]
      BY <1>3, <2>1 DEF Spare
    <2>5. call'[c] = others[c]
      BY <1>3, <2>1, <2>3, <2>4
    <2>6. Made(o, values', files') = Made(o, values, files)
      BY <2>1
    <2>7. CASE others[c] = k
      BY <2>1, <2>2, <2>5, <2>6, <2>7 DEF CurrentCall
    <2>8. CASE ~live' /\ others[c] = Superseded(k)
      <3>1. k \in CallStates
        BY <1>2, <2>1
      <3>2. k.step = "timer" => Superseded(k) = Idle
        BY <3>1, SupersededFacts
      <3>3. k.step = "running" =>
              /\ Superseded(k).step = "running" /\ Superseded(k).op = k.op
              /\ Superseded(k).kind = k.kind /\ Superseded(k).made = k.made
        BY <3>1, SupersededFacts
      <3> QED BY <2>1, <2>2, <2>5, <2>6, <2>8, <3>2, <3>3 DEF CurrentCall
    <2> QED BY <2>1, <2>7, <2>8
  <1> QED BY <1>4, <1>5 DEF CallsCurrent

(* Who waits after it: a started operation, or who waited and was left      *)
(* alone.                                                                   *)
LEMMA ReplaceKeepsWaiters ==
  ASSUME IInv, live,
         NEW cancelled \in SUBSET Ops, NEW started \in SUBSET Ops, NEW waiting \in BOOLEAN,
         NEW others \in [Calls -> CallStates], NEW form \in [Inputs -> Values],
         Replace(cancelled, started, waiting, form, others),
         \A c \in Calls :
           others[c] # Idle /\ others[c].waiting =>
             c = exec'.call \/ (c # exec.call /\ others[c] = call[c])
  PROVE  WaitersAnswerable'
  <1>1. TypeOK /\ WaitersAnswerable
    BY DEF IInv
  <1>2. active \in [Ops -> Calls \cup {NoCall}] /\ call \in [Calls -> CallStates]
    BY <1>1 DEF TypeOK
  <1>3a. Replaced(cancelled, started, waiting, form, others)
    BY <1>1, ReplaceFacts
  <1>3. /\ \A o \in started : active'[o] \in Spare /\ call'[active'[o]] = Scheduled(o, waiting, form)
        /\ \A o \in Ops \ started : active'[o] = IF o \in cancelled THEN NoCall ELSE active[o]
        /\ \A c \in Calls :
             \/ \E o \in started : c = active'[o]
             \/ call'[c] = IF \E o \in cancelled \cup started : active[o] = c
                           THEN Superseded(call[c]) ELSE others[c]
    BY <1>3a DEF Replaced
  <1> SUFFICES ASSUME NEW c \in Calls, call'[c] # Idle, call'[c].waiting
               PROVE  c = exec'.call \/ (active'[call'[c].op] = c /\ call'[c].step \in {"timer", "running"})
    BY DEF WaitersAnswerable
  <1>4. CASE \E o \in started : c = active'[o]
    <2>1. PICK o \in started : c = active'[o]
      BY <1>4
    <2>2. call'[c] = Scheduled(o, waiting, form)
      BY <1>3, <2>1
    <2>3. Scheduled(o, waiting, form).op = o /\ Scheduled(o, waiting, form).step \in {"timer", "running"}
      BY <1>1, ScheduledFacts
    <2> QED BY <2>1, <2>2, <2>3
  <1>5. CASE ~(\E o \in started : c = active'[o]) /\ \E o \in cancelled \cup started : active[o] = c
    <2>1. call'[c] = Superseded(call[c])
      BY <1>3, <1>5
    <2>2. call[c] \in CallStates
      BY <1>2
    <2>3. Superseded(call[c]) = Idle \/ Superseded(call[c]).waiting = FALSE
      BY <2>2, SupersededFacts
    <2> QED BY <2>1, <2>3
  <1>6. CASE ~(\E o \in started : c = active'[o]) /\ ~(\E o \in cancelled \cup started : active[o] = c)
    <2>1. call'[c] = others[c]
      BY <1>3, <1>6
    <2>2. CASE c = exec'.call
      BY <2>2
    <2>3. CASE c # exec.call /\ others[c] = call[c]
      <3>1. active[call[c].op] = c /\ call[c].step \in {"timer", "running"}
        BY <1>1, <2>1, <2>3 DEF WaitersAnswerable
      <3>2. call[c].op \in Ops
        BY <1>2, <3>1, CallFields
      <3>3. call[c].op \notin cancelled \cup started
        BY <1>6, <3>1, <3>2
      <3>4. active'[call[c].op] = active[call[c].op]
        BY <1>3, <3>2, <3>3
      <3> QED BY <2>1, <2>3, <3>1, <3>4
    <2> QED BY <2>1, <2>2, <2>3
  <1> QED BY <1>4, <1>5, <1>6

(* What the form shows after a step that makes some operations out of date. *)
LEMMA OutputsKept ==
  ASSUME IInv, values' \in [Inputs -> Values], files' \in Files, NEW ops \in SUBSET Ops,
         \A o \in Ops \ ops : Made(o, values', files') = Made(o, values, files),
         \A x \in Outputs :
           \/ output'[x] = Blank
           \/ output'[x] = output[x] /\ (x \notin stale' => x \notin StaleAfter(ops))
           \/ \E o \in Ops : Output[o] = x /\ output'[x] = Made(o, values', files')
  PROVE  FreshMeansCurrent' /\ OutputsOwned'
  <1> SUFFICES ASSUME NEW x \in Outputs, output'[x] \in MadeValues
               PROVE  /\ x \notin stale' => output'[x] = Made(output'[x].op, values', files')
                      /\ Output[output'[x].op] = x
    BY DEF FreshMeansCurrent, OutputsOwned
  <1>0. output'[x] # Blank
    BY DefinitionIsValid DEF MadeValues
  <1>1. CASE output'[x] = output[x] /\ (x \notin stale' => x \notin StaleAfter(ops))
    <2>1. Output[output[x].op] = x
      BY <1>1 DEF IInv, OutputsOwned
    <2>2. output[x].op \in Ops
      BY <1>1 DEF IInv, TypeOK, MadeValues
    <2>3. ASSUME x \notin stale'
          PROVE  output[x] = Made(output[x].op, values', files')
      <3>0. output[x] # Blank
        BY <1>0, <1>1
      <3>1. x \notin StaleAfter(ops)
        BY <1>1, <2>3
      <3>2. x \notin stale /\ output[x].op \notin ops
        BY <1>1, <2>1, <3>1, <3>0 DEF StaleAfter
      <3>3. output[x] = Made(output[x].op, values, files)
        BY <1>1, <3>2 DEF IInv, FreshMeansCurrent
      <3> QED BY <2>2, <3>2, <3>3
    <2> QED BY <1>1, <2>1, <2>3
  <1>2. CASE \E o \in Ops : Output[o] = x /\ output'[x] = Made(o, values', files')
    <2>1. PICK o \in Ops : Output[o] = x /\ output'[x] = Made(o, values', files')
      BY <1>2
    <2>2. output'[x].op = o
      BY <2>1, MadeFacts
    <2> QED BY <2>1, <2>2
  <1> QED BY <1>0, <1>1, <1>2

---------------------------------------------------------------------------
(* Requests.                                                                *)

LEMMA UntouchedKeeps ==
  ASSUME TypeOK, NEW form \in [Inputs -> Values], NEW o \in Ops \ Touched(form)
  PROVE  Made(o, form, files) = Made(o, values, files)
  <1>1. Reads[o] \subseteq Inputs
    BY DefinitionIsValid
  <1>2. \A i \in Reads[o] : form[i] = values[i]
    BY <1>1 DEF Touched, Changed
  <1>3. files \in Files
    BY DEF TypeOK
  <1> QED BY <1>2, <1>3, MadeOfReads

LEMMA UpdateKeeps ==
  ASSUME IInv, NEW form \in [Inputs -> Values], Update(form)
  PROVE  IInv'
  <1> DEFINE touched == Touched(form)
             started == {o \in Triggered(form) : Runnable(o, form)}
  <1>1. /\ TypeOK /\ live /\ exec.call = NoCall
        /\ values' = form /\ stale' = StaleAfter(touched) /\ edits' = edits + 1
        /\ Replace(touched, started, TRUE, form, call)
        /\ live' = live /\ files' = files /\ output' = output /\ exec' = exec /\ report' = report
    BY DEF IInv, Update, Editable
  <1>2. touched \in SUBSET Ops /\ started \in SUBSET Ops
    BY DEF Touched, Triggered
  <1>3. call \in [Calls -> CallStates] /\ files \in Files
    BY <1>1 DEF TypeOK
  <1>4. \A o \in Ops \ touched : Made(o, values', files') = Made(o, values, files)
    BY <1>1, UntouchedKeeps
  <1> HIDE DEF touched, started
  <1>5. Replaced(touched, started, TRUE, form, call)
    BY <1>1, <1>2, <1>3, ReplaceFacts
  <1>6. TypeOK'
    <2>1. active' \in [Ops -> Calls \cup {NoCall}] /\ call' \in [Calls -> CallStates]
      BY <1>5 DEF Replaced
    <2>2. stale' \subseteq Outputs
      BY <1>1 DEF TypeOK, StaleAfter
    <2> QED BY <1>1, <2>1, <2>2 DEF TypeOK
  <1>7. CallsCurrent'
    BY <1>1, <1>2, <1>3, <1>4, ReplaceKeepsCurrent
  <1>8. FreshMeansCurrent' /\ OutputsOwned'
    BY <1>1, <1>2, <1>3, <1>4, OutputsKept
  <1>9. WaitersAnswerable'
    <2>1. \A c \in Calls : c # exec.call
      BY <1>1, DefinitionIsValid
    <2> QED BY <1>1, <1>2, <1>3, <2>1, ReplaceKeepsWaiters
  <1>10. ExecutionCurrent' /\ PromptsOfExecution' /\ CommittedSucceeds'
    BY <1>1 DEF IInv, ExecutionCurrent, PromptsOfExecution, CommittedSucceeds
  <1> QED BY <1>6, <1>7, <1>8, <1>9, <1>10 DEF IInv

LEMMA UpdateAttachmentsKeeps ==
  ASSUME IInv, NEW f \in Files, UpdateAttachments(f)
  PROVE  IInv'
  <1>1. /\ TypeOK /\ live /\ exec.call = NoCall
        /\ files' = f /\ stale' = StaleAfter(Attached) /\ edits' = edits + 1
        /\ Replace(Attached, {}, TRUE, values, call)
        /\ live' = live /\ values' = values /\ output' = output /\ exec' = exec /\ report' = report
    BY DEF IInv, UpdateAttachments, Editable
  <1>2. Attached \in SUBSET Ops /\ {} \in SUBSET Ops
    BY DefinitionIsValid
  <1>3. call \in [Calls -> CallStates] /\ files \in Files /\ values \in [Inputs -> Values]
    BY <1>1 DEF TypeOK
  <1>4. \A o \in Ops \ Attached : Made(o, values', files') = Made(o, values, files)
    BY <1>1, <1>3, MadeOfReads
  <1>5. Replaced(Attached, {}, TRUE, values, call)
    BY <1>1, <1>2, <1>3, ReplaceFacts
  <1>6. TypeOK'
    <2>1. active' \in [Ops -> Calls \cup {NoCall}] /\ call' \in [Calls -> CallStates]
      BY <1>5 DEF Replaced
    <2>2. stale' \subseteq Outputs
      BY <1>1 DEF TypeOK, StaleAfter
    <2> QED BY <1>1, <2>1, <2>2 DEF TypeOK
  <1>7. CallsCurrent'
    BY <1>1, <1>2, <1>3, <1>4, ReplaceKeepsCurrent
  <1>8. FreshMeansCurrent' /\ OutputsOwned'
    BY <1>1, <1>2, <1>3, <1>4, OutputsKept
  <1>9. WaitersAnswerable'
    <2>1. \A c \in Calls : c # exec.call
      BY <1>1, DefinitionIsValid
    <2> QED BY <1>1, <1>2, <1>3, <2>1, ReplaceKeepsWaiters
  <1>10. ExecutionCurrent' /\ PromptsOfExecution' /\ CommittedSucceeds'
    BY <1>1 DEF IInv, ExecutionCurrent, PromptsOfExecution, CommittedSucceeds
  <1> QED BY <1>6, <1>7, <1>8, <1>9, <1>10 DEF IInv

(* A button whose operation lacks an input: its output is stale.            *)
LEMMA StartRefusedKeeps ==
  ASSUME IInv, NEW o \in Ops, NEW form \in [Inputs -> Values], NEW waits \in BOOLEAN,
         Start(o, form, waits), ~Runnable(o, form)
  PROVE  IInv'
  <1> DEFINE touched == Touched(form) \cup {o}
  <1>1. /\ TypeOK /\ live /\ exec.call = NoCall
        /\ values' = form /\ edits' \in {edits, edits + 1}
        /\ stale' = StaleAfter(touched)
        /\ Replace(touched, {}, FALSE, form, call)
        /\ live' = live /\ files' = files /\ output' = output /\ exec' = exec /\ report' = report
    BY DEF IInv, Start
  <1>2. touched \in SUBSET Ops /\ {} \in SUBSET Ops
    BY DEF Touched
  <1>3. call \in [Calls -> CallStates] /\ files \in Files
    BY <1>1 DEF TypeOK
  <1>4. \A p \in Ops \ touched : Made(p, values', files') = Made(p, values, files)
    BY <1>1, UntouchedKeeps
  <1> HIDE DEF touched
  <1>5. Replaced(touched, {}, FALSE, form, call)
    BY <1>1, <1>2, <1>3, ReplaceFacts
  <1>6. TypeOK'
    <2>1. active' \in [Ops -> Calls \cup {NoCall}] /\ call' \in [Calls -> CallStates]
      BY <1>5 DEF Replaced
    <2>2. stale' \subseteq Outputs
      BY <1>1 DEF TypeOK, StaleAfter
    <2>3. edits' \in Nat
      BY <1>1 DEF TypeOK
    <2> QED BY <1>1, <2>1, <2>2, <2>3 DEF TypeOK
  <1>7. CallsCurrent'
    BY <1>1, <1>2, <1>3, <1>4, ReplaceKeepsCurrent
  <1>8. FreshMeansCurrent' /\ OutputsOwned'
    BY <1>1, <1>2, <1>3, <1>4, OutputsKept
  <1>9. WaitersAnswerable'
    <2>1. \A c \in Calls : c # exec.call
      BY <1>1, DefinitionIsValid
    <2> QED BY <1>1, <1>2, <1>3, <2>1, ReplaceKeepsWaiters
  <1>10. ExecutionCurrent' /\ PromptsOfExecution' /\ CommittedSucceeds'
    BY <1>1 DEF IInv, ExecutionCurrent, PromptsOfExecution, CommittedSucceeds
  <1> QED BY <1>6, <1>7, <1>8, <1>9, <1>10 DEF IInv

(* A button that starts an execution: its output is empty, and its call, a  *)
(* spare one, works on the form it was given.                               *)
LEMMA StartKeeps ==
  ASSUME IInv, NEW o \in Ops, NEW form \in [Inputs -> Values], NEW waits \in BOOLEAN,
         Start(o, form, waits), Runnable(o, form)
  PROVE  IInv'
  <1> DEFINE touched == Touched(form) \cup {o}
             waiting == waits /\ o \notin Interactive
             deferred == Triggered(form) \ {o}
  <1>1. PICK c \in Spare :
          /\ stale' = StaleAfter(Touched(form)) \ {Output[o]}
          /\ output' = [output EXCEPT ![Output[o]] = Blank]
          /\ Replace(touched, {}, FALSE, form,
               [call EXCEPT ![c] = Running(o, "execution", waiting, form, files)])
          /\ exec' = [NoExec EXCEPT !.call = c, !.deferred = deferred]
          /\ report' = [phase |-> "running", committed |-> FALSE]
    BY DEF Start
  <1> DEFINE k == Running(o, "execution", waiting, form, files)
             others == [call EXCEPT ![c] = k]
  <1>2. /\ TypeOK /\ live /\ exec.call = NoCall
        /\ values' = form /\ edits' \in {edits, edits + 1} /\ live' = live /\ files' = files
    BY DEF IInv, Start
  <1>3. touched \in SUBSET Ops /\ {} \in SUBSET Ops /\ Touched(form) \subseteq touched
    BY DEF Touched
  <1>4. call \in [Calls -> CallStates] /\ files \in Files /\ waiting \in BOOLEAN
    BY <1>2 DEF TypeOK
  <1>5. /\ k \in CallStates /\ k.step = "running" /\ k.op = o /\ k.kind = "execution"
        /\ k.made = Made(o, form, files)
    <2> HIDE DEF waiting
    <2>1. "execution" \in {"automatic", "execution"}
      OBVIOUS
    <2> QED BY <1>4, <2>1, RunningFacts DEF k
  <1>6. c \in Calls /\ call[c] = Idle /\ \A p \in Ops : active[p] # c
    BY <1>1 DEF Spare
  <1>7. \A p \in Ops \ touched : Made(p, values', files') = Made(p, values, files)
    BY <1>2, UntouchedKeeps
  <1>8. /\ exec'.call = c /\ exec'.deferred = deferred /\ exec'.prompt = "none" /\ ~exec'.granted
        /\ exec' \in [call : Calls \cup {NoCall}, deferred : SUBSET Ops,
                      prompt : {"none", "approval", "input"}, granted : BOOLEAN]
    <2>1. deferred \in SUBSET Ops
      BY DEF Triggered
    <2> HIDE DEF deferred
    <2> QED BY <1>1, <1>6, <2>1 DEF NoExec
  <1> HIDE DEF touched, k, waiting, deferred
  <1>9. /\ others \in [Calls -> CallStates] /\ others[c] = k
        /\ \A d \in Calls : d # c => others[d] = call[d]
    BY <1>4, <1>5, <1>6
  <1>10. Replace(touched, {}, FALSE, form, others)
    BY <1>1 DEF k
  <1> HIDE DEF others
  <1>11. Replaced(touched, {}, FALSE, form, others)
    BY <1>2, <1>3, <1>9, <1>10, ReplaceFacts
  <1>12. call'[c] = k
    <2>1. ~ \E p \in touched : active[p] = c
      BY <1>3, <1>6
    <2> QED BY <1>6, <1>9, <1>11, <2>1 DEF Replaced
  <1>13. TypeOK'
    <2>1. active' \in [Ops -> Calls \cup {NoCall}] /\ call' \in [Calls -> CallStates]
      BY <1>11 DEF Replaced
    <2>2. stale' \subseteq Outputs
      BY <1>1, <1>2 DEF TypeOK, StaleAfter
    <2>3. edits' \in Nat
      BY <1>2 DEF TypeOK
    <2>4. output' \in [Outputs -> MadeValues \cup {Blank, Given}]
      BY <1>1, <1>2 DEF TypeOK
    <2>5. report' \in [phase : Over \cup {"running", "waiting_for_input", "waiting_for_approval"},
                       committed : BOOLEAN]
      BY <1>1
    <2> QED BY <1>2, <1>8, <2>1, <2>2, <2>3, <2>4, <2>5 DEF TypeOK
  <1>14. CallsCurrent'
    <2>1. \A d \in Calls : (\E p \in Ops : active[p] = d) => others[d] = call[d]
      BY <1>6, <1>9
    <2> QED BY <1>2, <1>3, <1>4, <1>7, <1>9, <1>10, <2>1, ReplaceKeepsCurrent
  <1>15. FreshMeansCurrent' /\ OutputsOwned'
    <2>1. Output[o] \in Outputs /\ output \in [Outputs -> MadeValues \cup {Blank, Given}]
      BY <1>2, DefinitionIsValid DEF TypeOK
    <2>2. ASSUME NEW x \in Outputs
          PROVE  output'[x] = Blank
                 \/ (output'[x] = output[x] /\ (x \notin stale' => x \notin StaleAfter(touched)))
      <3>1. CASE x = Output[o]
        BY <1>1, <2>1, <3>1
      <3>2. CASE x # Output[o]
        <4>1. output'[x] = output[x]
          BY <1>1, <2>1, <3>2
        <4>2. x \notin stale' => x \notin StaleAfter(touched)
          BY <1>1, <3>2 DEF StaleAfter, touched
        <4> QED BY <4>1, <4>2
      <3> QED BY <3>1, <3>2
    <2> QED BY <1>2, <1>3, <1>4, <1>7, <2>2, OutputsKept
  <1>16. WaitersAnswerable'
    <2>1. \A d \in Calls : d # exec.call
      BY <1>2, DefinitionIsValid
    <2>2. \A d \in Calls : others[d] # Idle /\ others[d].waiting =>
            d = exec'.call \/ (d # exec.call /\ others[d] = call[d])
      BY <1>8, <1>9, <2>1
    <2> QED BY <1>2, <1>3, <1>9, <1>10, <2>2, ReplaceKeepsWaiters
  <1>17. ExecutionCurrent'
    BY <1>1, <1>2, <1>5, <1>8, <1>12 DEF ExecutionCurrent
  <1>18. PromptsOfExecution' /\ CommittedSucceeds'
    BY <1>1, <1>8 DEF PromptsOfExecution, CommittedSucceeds
  <1> QED BY <1>13, <1>14, <1>15, <1>16, <1>17, <1>18 DEF IInv

---------------------------------------------------------------------------
(* The end of an execution, however it comes.                               *)

LEMMA FinishKeeps ==
  ASSUME IInv, exec.call # NoCall,
         NEW phase \in {"completed", "failed", "cancelled"},
         NEW text, text = Blank \/ text = call[exec.call].made,
         NEW others \in [Calls -> CallStates],
         Finish(phase, text, others),
         UNCHANGED <<values, files, edits>>, live' \in BOOLEAN,
         others[exec.call] = Idle \/ others[exec.call] = Superseded(call[exec.call]),
         \A c \in Calls : c # exec.call =>
           others[c] = call[c] \/ (~live' /\ others[c] = Superseded(call[c]))
  PROVE  IInv'
  <1> DEFINE e == exec.call
             o == call[e].op
             made == call[e].made
             owed == {t \in exec.deferred : Runnable(t, values)}
             success == phase = "completed" \/ report.committed
  <1>1. /\ TypeOK /\ live /\ call[e].step = "running" /\ call[e].kind = "execution"
        /\ made = Made(o, values, files)
    BY DEF IInv, ExecutionCurrent
  <1>2. /\ values \in [Inputs -> Values] /\ files \in Files /\ call \in [Calls -> CallStates]
        /\ output \in [Outputs -> MadeValues \cup {Blank, Given}] /\ stale \subseteq Outputs
        /\ exec.deferred \in SUBSET Ops /\ e \in Calls
    BY <1>1 DEF TypeOK
  <1>3. o \in Ops /\ made \in MadeValues /\ Output[o] \in Outputs
    BY <1>1, <1>2, CallFields, DefinitionIsValid
  <1>4. PICK shown \in {text, made} :
          /\ report' = [report EXCEPT !.phase = IF success THEN "completed" ELSE phase]
          /\ output' = IF success THEN [output EXCEPT ![Output[o]] = shown] ELSE output
          /\ stale' = IF success THEN stale \ {Output[o]} ELSE stale
          /\ exec' = NoExec
          /\ Replace({}, owed, FALSE, values, others)
    BY <1>1 DEF Finish
  <1>5. {} \in SUBSET Ops /\ owed \in SUBSET Ops
    BY <1>2
  <1>6. report \in [phase : Over \cup {"running", "waiting_for_input", "waiting_for_approval"},
                    committed : BOOLEAN]
    BY <1>1 DEF TypeOK
  <1> HIDE DEF e, o, made, owed
  <1>7. Replaced({}, owed, FALSE, values, others)
    BY <1>1, <1>2, <1>4, <1>5, ReplaceFacts
  <1>8. TypeOK'
    <2>1. active' \in [Ops -> Calls \cup {NoCall}] /\ call' \in [Calls -> CallStates]
      BY <1>7 DEF Replaced
    <2>2. stale' \subseteq Outputs
      BY <1>2, <1>4
    <2>3. output' \in [Outputs -> MadeValues \cup {Blank, Given}]
      BY <1>2, <1>3, <1>4 DEF e, made
    <2>4. report' \in [phase : Over \cup {"running", "waiting_for_input", "waiting_for_approval"},
                       committed : BOOLEAN]
      BY <1>4, <1>6 DEF Over
    <2>5. exec' \in [call : Calls \cup {NoCall}, deferred : SUBSET Ops,
                     prompt : {"none", "approval", "input"}, granted : BOOLEAN]
      BY <1>4 DEF NoExec
    <2> QED BY <1>1, <2>1, <2>2, <2>3, <2>4, <2>5 DEF TypeOK
  <1>9. CallsCurrent'
    <2>1. \A p \in Ops : active[p] # e
      BY <1>1, <1>2, DefinitionIsValid DEF IInv, CallsCurrent, CurrentCall, Idle
    <2>2. \A c \in Calls : (\E p \in Ops : active[p] = c) =>
            others[c] = call[c] \/ (~live' /\ others[c] = Superseded(call[c]))
      BY <2>1 DEF e
    <2> QED BY <1>1, <1>2, <1>4, <1>5, <2>2, ReplaceKeepsCurrent
  <1>10. FreshMeansCurrent' /\ OutputsOwned'
    <2>1. ASSUME NEW x \in Outputs
          PROVE  \/ output'[x] = Blank
                 \/ output'[x] = output[x] /\ (x \notin stale' => x \notin StaleAfter({}))
                 \/ \E p \in Ops : Output[p] = x /\ output'[x] = Made(p, values', files')
      <3>1. CASE success /\ x = Output[o]
        <4>1. output'[x] = shown
          BY <1>2, <1>4, <3>1
        <4>2. shown = Blank \/ shown = Made(o, values', files')
          BY <1>1, <1>4 DEF e, made
        <4> QED BY <1>3, <3>1, <4>1, <4>2
      <3>2. CASE ~(success /\ x = Output[o])
        <4>1. output'[x] = output[x] /\ (x \notin stale' => x \notin stale)
          BY <1>2, <1>4, <3>2
        <4> QED BY <4>1 DEF StaleAfter
      <3> QED BY <3>1, <3>2
    <2> QED BY <1>2, <1>5, <2>1, OutputsKept
  <1>11. WaitersAnswerable'
    <2>1. others[e] = Idle \/ others[e].waiting = FALSE
      BY <1>2, SupersededFacts DEF e
    <2>2. \A c \in Calls : Superseded(call[c]) = Idle \/ Superseded(call[c]).waiting = FALSE
      BY <1>2, SupersededFacts
    <2>3. \A c \in Calls : others[c] # Idle /\ others[c].waiting =>
            c = exec'.call \/ (c # exec.call /\ others[c] = call[c])
      BY <2>1, <2>2 DEF e
    <2> QED BY <1>1, <1>2, <1>4, <1>5, <2>3, ReplaceKeepsWaiters
  <1>12. exec'.call = NoCall /\ exec'.prompt = "none" /\ ~exec'.granted
    BY <1>4 DEF NoExec
  <1>13. CommittedSucceeds'
    BY <1>4, <1>6 DEF CommittedSucceeds
  <1> QED BY <1>8, <1>9, <1>10, <1>11, <1>12, <1>13
          DEF IInv, ExecutionCurrent, PromptsOfExecution

LEMMA CancelKeeps ==
  ASSUME IInv, Cancel
  PROVE  IInv'
  <1> DEFINE others == [call EXCEPT ![exec.call] = Superseded(@)]
  <1>1. /\ exec.call # NoCall /\ Finish("cancelled", Blank, others)
        /\ UNCHANGED <<values, files, edits>> /\ live' = live /\ live \in BOOLEAN
    BY DEF Cancel, IInv, TypeOK
  <1>2. call \in [Calls -> CallStates] /\ exec.call \in Calls
    BY <1>1 DEF IInv, TypeOK
  <1>3. /\ others \in [Calls -> CallStates] /\ others[exec.call] = Superseded(call[exec.call])
        /\ \A c \in Calls : c # exec.call => others[c] = call[c]
    BY <1>2, SupersededFacts
  <1> HIDE DEF others
  <1>4. "cancelled" \in {"completed", "failed", "cancelled"}
    OBVIOUS
  <1> QED BY <1>1, <1>3, <1>4, FinishKeeps

LEMMA DeleteKeeps ==
  ASSUME IInv, Delete
  PROVE  IInv'
  <1> DEFINE stopped == [c \in Calls |->
        IF c = exec.call \/ \E o \in Ops : active[o] = c THEN Superseded(call[c]) ELSE call[c]]
  <1>1. /\ TypeOK /\ live /\ ~live' /\ live' \in BOOLEAN /\ UNCHANGED <<values, files, edits>>
        /\ \/ exec.call # NoCall /\ Finish("cancelled", Blank, stopped)
           \/ /\ exec.call = NoCall /\ call' = stopped
              /\ UNCHANGED <<output, stale, active, exec, report>>
    BY DEF Delete, IInv
  <1>2. /\ call \in [Calls -> CallStates] /\ exec.call \in Calls \cup {NoCall}
        /\ active \in [Ops -> Calls \cup {NoCall}]
    BY <1>1 DEF TypeOK
  <1>3. /\ stopped \in [Calls -> CallStates]
        /\ \A c \in Calls : stopped[c] = call[c] \/ stopped[c] = Superseded(call[c])
        /\ exec.call # NoCall => stopped[exec.call] = Superseded(call[exec.call])
        /\ \A o \in Ops : active[o] # NoCall => stopped[active[o]] = Superseded(call[active[o]])
        /\ \A c \in Calls : stopped[c] = call[c] \/ c = exec.call \/ \E o \in Ops : active[o] = c
    BY <1>2, SupersededFacts
  <1> HIDE DEF stopped
  <1>4. CASE exec.call # NoCall /\ Finish("cancelled", Blank, stopped)
    <2>1. "cancelled" \in {"completed", "failed", "cancelled"}
      OBVIOUS
    <2> QED BY <1>1, <1>3, <1>4, <2>1, FinishKeeps
  <1>5. CASE /\ exec.call = NoCall /\ call' = stopped
             /\ UNCHANGED <<output, stale, active, exec, report>>
    <2>1. TypeOK'
      BY <1>1, <1>3, <1>5 DEF TypeOK
    <2>2. CallsCurrent'
      <3> SUFFICES ASSUME NEW o \in Ops, active[o] # NoCall
                   PROVE  (CurrentCall(o, call[active[o]]) \/ (call[active[o]] = Idle /\ ~live))'
        BY <1>5 DEF CallsCurrent
      <3> DEFINE k == call[active[o]]
      <3>1. CurrentCall(o, k) /\ k \in CallStates
        BY <1>1, <1>2, Zenon DEF IInv, CallsCurrent
      <3>2. call'[active'[o]] = Superseded(k)
        BY <1>3, <1>5
      <3>3. k.step = "timer" => Superseded(k) = Idle
        BY <3>1, SupersededFacts
      <3>4. k.step = "running" =>
              /\ Superseded(k).step = "running" /\ Superseded(k).op = k.op
              /\ Superseded(k).kind = k.kind /\ Superseded(k).made = k.made
        BY <3>1, SupersededFacts
      <3> QED BY <1>1, <3>1, <3>2, <3>3, <3>4 DEF CurrentCall
    <2>3. WaitersAnswerable'
      <3> SUFFICES ASSUME NEW c \in Calls, call'[c] # Idle, call'[c].waiting
                   PROVE  active'[call'[c].op] = c /\ call'[c].step \in {"timer", "running"}
        BY DEF WaitersAnswerable
      <3>1. Superseded(call[c]) = Idle \/ Superseded(call[c]).waiting = FALSE
        BY <1>2, SupersededFacts
      <3>2. call'[c] = call[c]
        BY <1>3, <1>5, <3>1
      <3> QED BY <1>5, <3>2, DefinitionIsValid DEF IInv, WaitersAnswerable
    <2> QED BY <1>1, <1>5, <2>1, <2>2, <2>3
            DEF IInv, ExecutionCurrent, PromptsOfExecution, OutputsOwned, FreshMeansCurrent,
                CommittedSucceeds
  <1> QED BY <1>1, <1>4, <1>5

---------------------------------------------------------------------------
(* The runtime.                                                             *)

LEMMA AnswerKeeps ==
  ASSUME IInv, NEW granted \in BOOLEAN, Answer(granted)
  PROVE  IInv'
  <1>1. /\ exec.prompt # "none" /\ exec' = [exec EXCEPT !.prompt = "none", !.granted = granted]
        /\ report' = [report EXCEPT !.phase = "running"]
        /\ UNCHANGED <<live, values, files, output, stale, active, call, edits>>
    BY DEF Answer
  <1>2. /\ exec \in [call : Calls \cup {NoCall}, deferred : SUBSET Ops,
                    prompt : {"none", "approval", "input"}, granted : BOOLEAN]
        /\ report \in [phase : Over \cup {"running", "waiting_for_input", "waiting_for_approval"},
                      committed : BOOLEAN]
    BY DEF IInv, TypeOK
  <1>3. exec' = [call |-> exec.call, deferred |-> exec.deferred, prompt |-> "none", granted |-> granted]
    BY <1>1, <1>2
  <1>4. report' = [phase |-> "running", committed |-> report.committed]
    BY <1>1, <1>2
  <1>5. exec.call # NoCall
    BY <1>1 DEF IInv, PromptsOfExecution
  <1>6. TypeOK'
    BY <1>1, <1>2, <1>3, <1>4 DEF IInv, TypeOK
  <1>7. ExecutionCurrent' /\ PromptsOfExecution' /\ CommittedSucceeds'
    BY <1>1, <1>3, <1>4, <1>5 DEF IInv, ExecutionCurrent, PromptsOfExecution, CommittedSucceeds
  <1>8. CallsCurrent' /\ FreshMeansCurrent' /\ OutputsOwned'
    BY <1>1 DEF IInv, CallsCurrent, CurrentCall, FreshMeansCurrent, OutputsOwned
  <1>9. WaitersAnswerable'
    BY <1>1, <1>3 DEF IInv, WaitersAnswerable
  <1> QED BY <1>6, <1>7, <1>8, <1>9 DEF IInv

LEMMA AskKeeps ==
  ASSUME IInv, NEW prompt \in {"input", "approval"}, Ask(prompt)
  PROVE  IInv'
  <1>1. /\ exec.call # NoCall /\ exec' = [exec EXCEPT !.prompt = prompt, !.granted = FALSE]
        /\ report' = [report EXCEPT !.phase =
              IF prompt = "input" THEN "waiting_for_input" ELSE "waiting_for_approval"]
        /\ UNCHANGED <<live, values, files, output, stale, active, call, edits>>
    BY DEF Ask
  <1>2. /\ exec \in [call : Calls \cup {NoCall}, deferred : SUBSET Ops,
                    prompt : {"none", "approval", "input"}, granted : BOOLEAN]
        /\ report \in [phase : Over \cup {"running", "waiting_for_input", "waiting_for_approval"},
                      committed : BOOLEAN]
    BY DEF IInv, TypeOK
  <1>3. exec' = [call |-> exec.call, deferred |-> exec.deferred, prompt |-> prompt, granted |-> FALSE]
    BY <1>1, <1>2
  <1>4. report' \in [phase : {"waiting_for_input", "waiting_for_approval"}, committed : {report.committed}]
    BY <1>1, <1>2
  <1>5. TypeOK'
    BY <1>1, <1>2, <1>3, <1>4 DEF IInv, TypeOK
  <1>6. ExecutionCurrent' /\ PromptsOfExecution' /\ CommittedSucceeds'
    BY <1>1, <1>3, <1>4 DEF IInv, ExecutionCurrent, PromptsOfExecution, CommittedSucceeds
  <1>7. CallsCurrent' /\ FreshMeansCurrent' /\ OutputsOwned'
    BY <1>1 DEF IInv, CallsCurrent, CurrentCall, FreshMeansCurrent, OutputsOwned
  <1>8. WaitersAnswerable'
    BY <1>1, <1>3 DEF IInv, WaitersAnswerable
  <1> QED BY <1>5, <1>6, <1>7, <1>8 DEF IInv

(* An App is installed by an execution under way, which has not failed.     *)
LEMMA RecordEffectKeeps ==
  ASSUME IInv, RecordEffect
  PROVE  IInv'
  <1>1. /\ exec.granted /\ exec' = [exec EXCEPT !.granted = FALSE]
        /\ report' = [report EXCEPT !.committed = TRUE]
        /\ UNCHANGED <<live, values, files, output, stale, active, call, edits>>
    BY DEF RecordEffect
  <1>2. /\ exec \in [call : Calls \cup {NoCall}, deferred : SUBSET Ops,
                    prompt : {"none", "approval", "input"}, granted : BOOLEAN]
        /\ report \in [phase : Over \cup {"running", "waiting_for_input", "waiting_for_approval"},
                      committed : BOOLEAN]
    BY DEF IInv, TypeOK
  <1>3. /\ exec' = [call |-> exec.call, deferred |-> exec.deferred, prompt |-> exec.prompt, granted |-> FALSE]
        /\ report' = [phase |-> report.phase, committed |-> TRUE]
    BY <1>1, <1>2
  <1>4. exec.call # NoCall
    BY <1>1 DEF IInv, PromptsOfExecution
  <1>5. TypeOK'
    BY <1>1, <1>2, <1>3 DEF IInv, TypeOK
  <1>6. ExecutionCurrent' /\ PromptsOfExecution' /\ CommittedSucceeds'
    BY <1>1, <1>3, <1>4 DEF IInv, ExecutionCurrent, PromptsOfExecution, CommittedSucceeds
  <1>7. CallsCurrent' /\ FreshMeansCurrent' /\ OutputsOwned'
    BY <1>1 DEF IInv, CallsCurrent, CurrentCall, FreshMeansCurrent, OutputsOwned
  <1>8. WaitersAnswerable'
    BY <1>1, <1>3 DEF IInv, WaitersAnswerable
  <1> QED BY <1>5, <1>6, <1>7, <1>8 DEF IInv

(* The debounce over, a call reads the form as it is.                       *)
LEMMA TimerFiresKeeps ==
  ASSUME IInv, NEW c \in Calls, TimerFires(c)
  PROVE  IInv'
  <1> DEFINE k == Running(call[c].op, "automatic", call[c].waiting, values, files)
  <1>1. /\ call[c].step = "timer" /\ call' = [call EXCEPT ![c] = k]
        /\ UNCHANGED <<live, values, files, output, stale, active, exec, report, edits>>
    BY DEF TimerFires
  <1>2. /\ TypeOK /\ call \in [Calls -> CallStates] /\ values \in [Inputs -> Values] /\ files \in Files
    BY DEF IInv, TypeOK
  <1>3. call[c] # Idle /\ call[c].op \in Ops /\ call[c].waiting \in BOOLEAN
    BY <1>1, <1>2, CallFields
  <1>4. /\ k \in CallStates /\ k.step = "running" /\ k.op = call[c].op /\ k.kind = "automatic"
        /\ k.waiting = call[c].waiting /\ k.made = Made(call[c].op, values, files)
    <2>1. "automatic" \in {"automatic", "execution"}
      OBVIOUS
    <2> QED BY <1>2, <1>3, <2>1, RunningFacts
  <1> HIDE DEF k
  <1>5. call' \in [Calls -> CallStates] /\ call'[c] = k /\ \A d \in Calls : d # c => call'[d] = call[d]
    BY <1>1, <1>2, <1>4
  <1>6. TypeOK'
    BY <1>1, <1>2, <1>5 DEF TypeOK
  <1>7. CallsCurrent'
    <2> SUFFICES ASSUME NEW o \in Ops, active[o] # NoCall
                 PROVE  (CurrentCall(o, call[active[o]]) \/ (call[active[o]] = Idle /\ ~live))'
      BY <1>1 DEF CallsCurrent
    <2>1. CurrentCall(o, call[active[o]]) \/ (call[active[o]] = Idle /\ ~live)
      BY DEF IInv, CallsCurrent
    <2>2. active'[o] = active[o] /\ active[o] \in Calls
      BY <1>1, <1>2 DEF TypeOK
    <2>3. CASE active[o] = c
      BY <1>1, <1>3, <1>4, <1>5, <2>1, <2>2, <2>3 DEF CurrentCall
    <2>4. CASE active[o] # c
      <3>1. call'[active'[o]] = call[active[o]]
        BY <1>5, <2>2, <2>4
      <3> QED BY <1>1, <2>1, <3>1 DEF CurrentCall
    <2> QED BY <2>3, <2>4
  <1>8. ExecutionCurrent'
    <2>1. exec.call # NoCall => exec.call \in Calls /\ exec.call # c
      BY <1>1, <1>2 DEF IInv, ExecutionCurrent, TypeOK
    <2> QED BY <1>1, <1>5, <2>1 DEF IInv, ExecutionCurrent
  <1>9. WaitersAnswerable'
    BY <1>1, <1>3, <1>4, <1>5 DEF IInv, WaitersAnswerable
  <1>10. /\ PromptsOfExecution' /\ CommittedSucceeds' /\ FreshMeansCurrent' /\ OutputsOwned'
    BY <1>1 DEF IInv, PromptsOfExecution, CommittedSucceeds, FreshMeansCurrent, OutputsOwned
  <1> QED BY <1>6, <1>7, <1>8, <1>9, <1>10 DEF IInv

(* A result is taken from the call the operation waits for, which worked on *)
(* the form as it is.                                                       *)
LEMMA AutomaticEndsKeeps ==
  ASSUME IInv, NEW c \in Calls, NEW result \in {"text", "blank", "error"}, AutomaticEnds(c, result)
  PROVE  IInv'
  <1> DEFINE o == call[c].op
  <1>1. /\ call[c].step = "running" /\ call[c].kind = "automatic" /\ call' = [call EXCEPT ![c] = Idle]
        /\ UNCHANGED <<live, values, files, exec, report, edits>>
    BY DEF AutomaticEnds
  <1>2. /\ TypeOK /\ call \in [Calls -> CallStates] /\ values \in [Inputs -> Values] /\ files \in Files
        /\ output \in [Outputs -> MadeValues \cup {Blank, Given}] /\ stale \subseteq Outputs
        /\ active \in [Ops -> Calls \cup {NoCall}]
    BY DEF IInv, TypeOK
  <1>3. o \in Ops /\ call[c].made \in MadeValues /\ Output[o] \in Outputs /\ c # NoCall
    BY <1>1, <1>2, CallFields, DefinitionIsValid
  <1>4. call' \in [Calls -> CallStates] /\ call'[c] = Idle /\ \A d \in Calls : d # c => call'[d] = call[d]
    BY <1>1, <1>2 DEF CallStates
  <1>5. ASSUME NEW p \in Ops, active[p] = c
        PROVE  p = o /\ call[c].made = Made(o, values, files)
    BY <1>1, <1>3, <1>5 DEF IInv, CallsCurrent, CurrentCall, Idle
  <1>6. \/ /\ active[o] = c /\ active' = [active EXCEPT ![o] = NoCall]
           /\ \/ UNCHANGED <<output, stale>>
              \/ \E text \in {call[c].made, Blank} :
                   output' = [output EXCEPT ![Output[o]] = text] /\ stale' = stale \ {Output[o]}
        \/ active[o] # c /\ UNCHANGED <<active, output, stale>>
    BY DEF AutomaticEnds
  <1> HIDE DEF o
  <1>7. TypeOK'
    <2>1. active' \in [Ops -> Calls \cup {NoCall}]
      BY <1>2, <1>6
    <2>2. output' \in [Outputs -> MadeValues \cup {Blank, Given}] /\ stale' \subseteq Outputs
      BY <1>2, <1>3, <1>6
    <2> QED BY <1>1, <1>2, <1>4, <2>1, <2>2 DEF TypeOK
  <1>8. \A p \in Ops : active'[p] # NoCall => active'[p] = active[p] /\ active[p] \in Calls /\ active[p] # c
    BY <1>2, <1>3, <1>5, <1>6
  <1>9. CallsCurrent'
    <2> SUFFICES ASSUME NEW p \in Ops, active'[p] # NoCall
                 PROVE  (CurrentCall(p, call[active[p]]) \/ (call[active[p]] = Idle /\ ~live))'
      BY DEF CallsCurrent
    <2>1. call'[active'[p]] = call[active[p]]
      BY <1>4, <1>8
    <2>2. active[p] # NoCall
      BY <1>8
    <2>3. CurrentCall(p, call[active[p]]) \/ (call[active[p]] = Idle /\ ~live)
      BY <2>2 DEF IInv, CallsCurrent
    <2> QED BY <1>1, <2>1, <2>3 DEF CurrentCall
  <1>10. FreshMeansCurrent' /\ OutputsOwned'
    <2>1. {} \in SUBSET Ops /\ \A x : x \in StaleAfter({}) => x \in stale
      BY DEF StaleAfter
    <2>2. ASSUME NEW x \in Outputs
          PROVE  \/ output'[x] = Blank
                 \/ output'[x] = output[x] /\ (x \notin stale' => x \notin StaleAfter({}))
                 \/ \E p \in Ops : Output[p] = x /\ output'[x] = Made(p, values', files')
      <3>1. CASE UNCHANGED <<output, stale>>
        BY <2>1, <3>1
      <3>2. CASE /\ active[o] = c
                 /\ \E text \in {call[c].made, Blank} :
                      output' = [output EXCEPT ![Output[o]] = text] /\ stale' = stale \ {Output[o]}
        <4>1. call[c].made = Made(o, values', files')
          BY <1>1, <1>3, <1>5, <3>2
        <4>2. CASE x = Output[o]
          BY <1>2, <1>3, <3>2, <4>1, <4>2
        <4>3. CASE x # Output[o]
          BY <1>2, <2>1, <3>2, <4>3
        <4> QED BY <4>2, <4>3
      <3> QED BY <1>6, <3>1, <3>2
    <2>3. values' \in [Inputs -> Values] /\ files' \in Files /\ values' = values /\ files' = files
      BY <1>1, <1>2
    <2> QED BY <2>1, <2>2, <2>3, OutputsKept
  <1>11. ExecutionCurrent'
    <2>1. exec.call # NoCall => exec.call \in Calls /\ exec.call # c
      BY <1>1, <1>2 DEF IInv, ExecutionCurrent, TypeOK
    <2> QED BY <1>1, <1>4, <2>1 DEF IInv, ExecutionCurrent
  <1>12. WaitersAnswerable'
    <2> SUFFICES ASSUME NEW d \in Calls, call'[d] # Idle, call'[d].waiting, d # exec.call
                 PROVE  active'[call'[d].op] = d /\ call'[d].step \in {"timer", "running"}
      BY <1>1 DEF WaitersAnswerable
    <2>1. d # c /\ call'[d] = call[d]
      BY <1>4
    <2>2. active[call[d].op] = d /\ call[d].step \in {"timer", "running"}
      BY <2>1 DEF IInv, WaitersAnswerable
    <2>3. active'[call[d].op] = active[call[d].op]
      <3>1. call[d].op \in Ops
        BY <1>2, <2>2, CallFields
      <3> QED BY <1>2, <1>6, <2>1, <2>2, <3>1
    <2> QED BY <2>1, <2>2, <2>3
  <1>13. PromptsOfExecution' /\ CommittedSucceeds'
    BY <1>1 DEF IInv, PromptsOfExecution, CommittedSucceeds
  <1> QED BY <1>7, <1>9, <1>10, <1>11, <1>12, <1>13 DEF IInv

LEMMA ExecutionEndsKeeps ==
  ASSUME IInv, NEW c \in Calls, NEW result \in {"text", "blank", "error"}, ExecutionEnds(c, result)
  PROVE  IInv'
  <1> DEFINE others == [call EXCEPT ![c] = Idle]
             phase == IF result = "error" THEN "failed" ELSE "completed"
             text == IF result = "text" THEN call[c].made ELSE Blank
  <1>1. /\ call[c].step = "running" /\ call[c].kind = "execution"
        /\ \/ exec.call = c /\ Finish(phase, text, others)
           \/ exec.call # c /\ call' = others /\ UNCHANGED <<output, stale, active, exec, report>>
        /\ UNCHANGED <<live, values, files, edits>>
    BY DEF ExecutionEnds
  <1>2. TypeOK /\ call \in [Calls -> CallStates] /\ live \in BOOLEAN /\ c # NoCall
    BY DefinitionIsValid DEF IInv, TypeOK
  <1>3. /\ others \in [Calls -> CallStates] /\ others[c] = Idle
        /\ \A d \in Calls : d # c => others[d] = call[d]
    BY <1>2 DEF CallStates
  <1>4. phase \in {"completed", "failed", "cancelled"} /\ (text = Blank \/ text = call[c].made)
    OBVIOUS
  <1> HIDE DEF others, phase, text
  <1>5. CASE exec.call = c /\ Finish(phase, text, others)
    BY <1>1, <1>2, <1>3, <1>4, <1>5, FinishKeeps
  <1>6. CASE exec.call # c /\ call' = others /\ UNCHANGED <<output, stale, active, exec, report>>
    <2>1. TypeOK'
      BY <1>1, <1>2, <1>3, <1>6 DEF TypeOK
    <2>2. \A p \in Ops : active[p] # c
      BY <1>1, <1>2 DEF IInv, CallsCurrent, CurrentCall, Idle
    <2>3. CallsCurrent'
      <3> SUFFICES ASSUME NEW p \in Ops, active[p] # NoCall
                   PROVE  (CurrentCall(p, call[active[p]]) \/ (call[active[p]] = Idle /\ ~live))'
        BY <1>6 DEF CallsCurrent
      <3>1. CurrentCall(p, call[active[p]]) \/ (call[active[p]] = Idle /\ ~live)
        BY DEF IInv, CallsCurrent
      <3>2. call'[active'[p]] = call[active[p]]
        BY <1>2, <1>3, <1>6, <2>2 DEF TypeOK
      <3> QED BY <1>1, <3>1, <3>2 DEF CurrentCall
    <2>4. ExecutionCurrent'
      <3>1. exec.call # NoCall => call'[exec'.call] = call[exec.call]
        BY <1>2, <1>3, <1>6 DEF TypeOK
      <3> QED BY <1>1, <1>6, <3>1 DEF IInv, ExecutionCurrent
    <2>5. WaitersAnswerable'
      BY <1>3, <1>6 DEF IInv, WaitersAnswerable
    <2> QED BY <1>1, <1>6, <2>1, <2>3, <2>4, <2>5
            DEF IInv, PromptsOfExecution, OutputsOwned, FreshMeansCurrent, CommittedSucceeds
  <1> QED BY <1>1, <1>5, <1>6

---------------------------------------------------------------------------
(* The invariant of every behaviour.                                        *)

LEMMA InitEstablishes == Init => IInv
  <1> SUFFICES ASSUME Init PROVE IInv
    OBVIOUS
  <1>1. TypeOK
    BY DefinitionIsValid DEF Init, TypeOK, NoExec, NoReport, CallStates, Over
  <1>2. CallsCurrent /\ ExecutionCurrent /\ PromptsOfExecution
    BY DEF Init, CallsCurrent, ExecutionCurrent, PromptsOfExecution, NoExec
  <1>3. OutputsOwned /\ FreshMeansCurrent
    BY DefinitionIsValid DEF Init, OutputsOwned, FreshMeansCurrent, MadeValues
  <1>4. WaitersAnswerable /\ CommittedSucceeds
    BY DEF Init, WaitersAnswerable, CommittedSucceeds, NoReport
  <1> QED BY <1>1, <1>2, <1>3, <1>4 DEF IInv

LEMMA StepPreserves == IInv /\ [Next]_vars => IInv'
  <1> SUFFICES ASSUME IInv, [Next]_vars PROVE IInv'
    OBVIOUS
  <1>1. CASE UNCHANGED vars
    BY <1>1 DEF vars, IInv, TypeOK, CallsCurrent, CurrentCall, ExecutionCurrent, PromptsOfExecution,
                OutputsOwned, FreshMeansCurrent, WaitersAnswerable, CommittedSucceeds
  <1>2. ASSUME NEW form \in [Inputs -> Values], Update(form)
        PROVE  IInv'
    BY <1>2, UpdateKeeps
  <1>3. ASSUME NEW form \in [Inputs -> Values], NEW o \in Ops, NEW waits \in BOOLEAN, Start(o, form, waits)
        PROVE  IInv'
    BY <1>3, StartKeeps, StartRefusedKeeps
  <1>4. ASSUME NEW f \in Files, UpdateAttachments(f)
        PROVE  IInv'
    BY <1>4, UpdateAttachmentsKeeps
  <1>5. ASSUME NEW granted \in BOOLEAN, Answer(granted)
        PROVE  IInv'
    BY <1>5, AnswerKeeps
  <1>6. Cancel \/ Delete => IInv'
    BY CancelKeeps, DeleteKeeps
  <1>7. ASSUME NEW c \in Calls, TimerFires(c) \/ Ends(c)
        PROVE  IInv'
    BY <1>7, TimerFiresKeeps, AutomaticEndsKeeps, ExecutionEndsKeeps DEF Ends
  <1>8. Ask("input") \/ Ask("approval") \/ RecordEffect => IInv'
    BY AskKeeps, RecordEffectKeeps
  <1>9. Requests => IInv'
    BY <1>2, <1>3, <1>4, <1>5, <1>6 DEF Requests
  <1>10. Runtime => IInv'
    BY <1>7, <1>8 DEF Runtime
  <1> QED BY <1>1, <1>9, <1>10 DEF Next

THEOREM Invariance == Spec => []IInv
  <1> QED BY InitEstablishes, StepPreserves, PTL DEF Spec

(* What the form does not mark as stale was made from what it says now:     *)
(* executeLatest takes a result only of the call it waits for, and every    *)
(* edit cancels the calls that read what it changes.                        *)
THEOREM Freshness == Spec => []FreshMeansCurrent
  <1>1. IInv => FreshMeansCurrent
    BY DEF IInv
  <1> QED BY <1>1, Invariance, PTL

(* A request that waits for a run waits for the call its operation or the   *)
(* execution has now, whose end answers it; a call that is superseded has   *)
(* answered its request.                                                    *)
THEOREM Answerable == Spec => []WaitersAnswerable
  <1>1. IInv => WaitersAnswerable
    BY DEF IInv
  <1> QED BY <1>1, Invariance, PTL

(* An execution whose tool has installed an App is reported as a success,   *)
(* though it is cancelled, fails or is deleted afterwards.                  *)
THEOREM EffectsKept == Spec => []CommittedSucceeds
  <1>1. IInv => CommittedSucceeds
    BY DEF IInv
  <1> QED BY <1>1, Invariance, PTL
==============================================================================
