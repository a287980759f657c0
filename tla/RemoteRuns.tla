------------------------------- MODULE RemoteRuns -------------------------------
(***************************************************************************)
(* A run whose tools are carried out on another device of the workspace.   *)
(* The loop of the run is on the host (core workspace/WorkspaceRuns.ts,    *)
(* createRunner); the device (WorkspaceExecutor.ts) has prepared an        *)
(* execution for it, which it keeps while the host renews its lease.       *)
(*                                                                         *)
(* Between them is the workspace bridge (module Bridge): a request is sent *)
(* again when the host reconnects, an answer is sent once, and a request   *)
(* nobody answers times out.                                               *)
(*                                                                         *)
(* A call may start a full-access job (agent/DeviceExecution.ts), which    *)
(* goes on without it, and without the run.                                *)
(***************************************************************************)
EXTENDS Naturals, FiniteSets

CONSTANTS MaxCalls,   \* bound: tool calls of the run
          FullAccess, \* the calls that ask for full access to the device
          MaxFaults   \* bound: losses, cuts, crashes, and what comes too late

Calls == 1..MaxCalls

ASSUME RemoteConstants ==
  MaxCalls \in Nat \ {0} /\ FullAccess \subseteq Calls /\ MaxFaults \in Nat

NoCall == 0

(* The requests of the host, by operation and number.                       *)
Request(op, k) == [op |-> op, k |-> k]
Requests ==
  {Request(op, 0) : op \in {"prepare", "lease", "artifacts"}}
  \cup {Request("cancel", k) : k \in 1..2}
  \cup {Request(op, k) : op \in {"assess", "execute"}, k \in Calls}

VARIABLES
  host,    \* the run: its place, its call, cancelled, listening, renewing, outcomes;
           \* "abandoned" when its loop was dropped, "stuck" when its end failed too
  result,  \* what became of each request, for the host
  net,     \* requests and answers on their way
  online,  \* which of the two is connected to the relay
  exec,    \* the execution the device has prepared
  tool,    \* the tools that run on the device, and the jobs they left
  journal, \* WorkspaceStore.once: what the device does once
  began,   \* history: how often a call's tool began, and ended
  ended,
  faults

vars == <<host, result, net, online, exec, tool, journal, began, ended, faults>>

NoExec == [registered |-> FALSE, aborted |-> FALSE, fresh |-> FALSE, grants |-> [k \in Calls |-> 0]]

Init ==
  /\ host = [phase |-> "new", call |-> NoCall, cancelled |-> FALSE, listening |-> FALSE,
             renewing |-> FALSE, told |-> [k \in Calls |-> "nothing"]]
  /\ result = [q \in Requests |-> "none"]
  /\ net = {}
  /\ online = [host |-> TRUE, device |-> TRUE]
  /\ exec = NoExec
  /\ tool = [k \in Calls |-> "idle"]
  /\ journal = [q \in Requests |-> "none"]
  /\ began = [k \in Calls |-> 0] /\ ended = [k \in Calls |-> 0]
  /\ faults = 0

---------------------------------------------------------------------------
(* The host.                                                                *)

Asking(q) == [type |-> "request", of |-> q]

(* WorkspaceManager.execute: the device's status is asked first, so that a  *)
(* request may fail before it is sent.                                      *)
Ask(asked) ==
  \E sent \in SUBSET asked :
    /\ sent # {} => online.host
    /\ sent # asked => ~online.host \/ ~online.device \/ faults < MaxFaults
    /\ faults' = IF sent # asked /\ online.host /\ online.device THEN faults + 1 ELSE faults
    /\ result' = [q \in Requests |->
         IF q \in sent THEN "pending" ELSE IF q \in asked THEN "error" ELSE result[q]]
    /\ net' = net \cup {Asking(q) : q \in sent}

\* Mutant: the renewal timer survives.
StopKeepsRenewing(h) == [h EXCEPT !.listening = FALSE]
(* stop                                                                     *)
Stop(h) == [h EXCEPT !.listening = FALSE, !.renewing = FALSE]

Device == <<online, exec, tool, journal, began, ended>>

(* createWorkspace                                                          *)
Prepare ==
  /\ host.phase = "new"
  /\ host' = [host EXCEPT !.phase = "preparing"]
  /\ Ask({Request("prepare", 0)})
  /\ UNCHANGED Device

(* Without a workspace the run ends at once: it has nothing to list.        *)
Prepared ==
  /\ host.phase = "preparing"
  /\ \/ /\ result[Request("prepare", 0)] = "ok"
        /\ host' = [host EXCEPT !.phase = "thinking", !.renewing = TRUE]
     \/ /\ result[Request("prepare", 0)] = "error"
        /\ host' = [host EXCEPT !.phase = "over"]
  /\ UNCHANGED <<result, net, faults, Device>>

(* The lease timer; nobody reads the answer.                                *)
Renew ==
  /\ host.renewing /\ online.host
  /\ net' = net \cup {Asking(Request("lease", 0))}
  /\ UNCHANGED <<host, result, faults, Device>>

(* The model wants a tool: assessRisk installs the listener for a cancel.   *)
Assess ==
  /\ host.phase = "thinking" /\ ~host.cancelled /\ host.call < MaxCalls
  /\ host' = [host EXCEPT !.phase = "assessing", !.call = @ + 1, !.listening = TRUE]
  /\ Ask({Request("assess", host.call + 1)})
  /\ UNCHANGED Device

(* What the device blocks is denied.  An assessment that fails ends the     *)
(* run, with an event for the error first.                                  *)
Assessed ==
  /\ host.phase = "assessing"
  /\ \/ /\ result[Request("assess", host.call)] = "ok"
        /\ host' = [host EXCEPT !.phase = "asking"]
        /\ UNCHANGED <<result, net, faults>>
     \/ /\ result[Request("assess", host.call)] = "blocked"
        /\ host' = [host EXCEPT !.phase = "thinking", !.told[host.call] = "not run"]
        /\ UNCHANGED <<result, net, faults>>
     \/ /\ result[Request("assess", host.call)] = "error"
        /\ host' = [host EXCEPT !.phase = "ending"]
        /\ UNCHANGED <<result, net, faults>>
  /\ UNCHANGED Device

(* The call is denied, by the policy or by the user.                        *)
Deny ==
  /\ host.phase = "asking"
  /\ host' = [host EXCEPT !.phase = "thinking", !.told[host.call] = "not run"]
  /\ UNCHANGED <<result, net, faults, Device>>

(* The call is approved.  When the run was cancelled meanwhile, the tool    *)
(* fails without having been asked.                                         *)
Execute ==
  /\ host.phase = "asking"
  /\ IF host.cancelled
     THEN /\ host' = [host EXCEPT !.phase = "thinking", !.told[host.call] = "not run"]
          /\ UNCHANGED <<result, net, faults>>
     ELSE /\ host' = [host EXCEPT !.phase = "executing"]
          /\ Ask({Request("execute", host.call)})
  /\ UNCHANGED Device

\* Mutant: a request that failed is a tool that failed, and the run goes on.
ExecutedPlainly ==
  /\ host.phase = "executing"
  /\ result[Request("execute", host.call)] \in {"ok", "error"}
  /\ host' = [host EXCEPT !.phase = "thinking", !.told[host.call] =
       IF result[Request("execute", host.call)] = "ok" THEN "done" ELSE "unknown"]
  /\ UNCHANGED <<result, net, faults, Device>>

(* UncertainToolOutcomeError: nobody knows what a call came to whose        *)
(* request failed, so the execution is cancelled and the run ends.          *)
Executed ==
  /\ host.phase = "executing"
  /\ \/ /\ result[Request("execute", host.call)] = "ok"
        /\ host' = [host EXCEPT !.phase = "thinking", !.told[host.call] = "done"]
        /\ UNCHANGED <<result, net, faults>>
     \/ /\ result[Request("execute", host.call)] = "error"
        /\ host' = [Stop(host) EXCEPT !.phase = "ending", !.told[host.call] = "unknown"]
        /\ Ask({Request("cancel", 2)})
  /\ UNCHANGED Device

(* The model answers, the cancel is noticed, or an error ends the run:      *)
(* finish lists the artifacts, and with that gives the execution back.      *)
Finish ==
  /\ host.phase \in {"thinking", "ending"}
  /\ host' = [Stop(host) EXCEPT !.phase = "finishing"]
  /\ Ask({Request("artifacts", 0)})
  /\ UNCHANGED Device

Finished ==
  /\ host.phase = "finishing" /\ result[Request("artifacts", 0)] # "pending"
  /\ host' = [host EXCEPT !.phase = "over"]
  /\ UNCHANGED <<result, net, faults, Device>>

(* The user cancels a run that the registry has not ended: the listener     *)
(* tells the device, once.                                                  *)
Cancel ==
  /\ host.phase \notin {"new", "over", "abandoned"} /\ ~host.cancelled
  /\ IF host.listening
     THEN /\ host' = [Stop(host) EXCEPT !.cancelled = TRUE]
          /\ Ask({Request("cancel", 1)})
     ELSE /\ host' = [host EXCEPT !.cancelled = TRUE]
          /\ UNCHANGED <<result, net, faults>>
  /\ UNCHANGED Device

(* An answer; the first one counts.                                         *)
TakeAnswer(m) ==
  /\ m \in net /\ m.type = "answer" /\ online.host
  /\ net' = net \ {m}
  /\ result' = IF result[m.of] = "pending" THEN [result EXCEPT ![m.of] = m.value] ELSE result
  /\ UNCHANGED <<host, faults, Device>>

OnTheWay(q) == \E m \in net : m.of = q

\* Mutant: the timer of a request ends with its delivery.
TimeOutOfDelivery(q) ==
  /\ result[q] = "pending" /\ OnTheWay(q)
  /\ faults < MaxFaults
  /\ faults' = faults + 1
  /\ result' = [result EXCEPT ![q] = "error"]
  /\ UNCHANGED <<host, net, Device>>

(* A request times out; the timer is the only way out when it or its answer *)
(* was lost, and may come early.                                            *)
TimeOut(q) ==
  /\ result[q] = "pending"
  /\ OnTheWay(q) => faults < MaxFaults
  /\ faults' = IF OnTheWay(q) THEN faults + 1 ELSE faults
  /\ result' = [result EXCEPT ![q] = "error"]
  /\ UNCHANGED <<host, net, Device>>

---------------------------------------------------------------------------
(* The device.                                                              *)

Host == <<host, result, faults>>

(* A request that reaches the device.                                       *)
Arrives(m, op) == m \in net /\ m.type = "request" /\ m.of.op = op /\ online.device

(* An answer is sent once, if the device is connected then; one the host no *)
(* longer waits for is left out.                                            *)
Sent(q, value) ==
  {a \in {[type |-> "answer", of |-> q, value |-> value]} : online.device /\ result[q] = "pending"}
Answer(m, value) == net' = (net \ {m}) \cup Sent(m.of, value)

(* The signal of the execution: it cuts a tool short that runs, and is      *)
(* there already for one that has yet to start.                             *)
Aborted ==
  [k \in Calls |-> CASE tool[k] = "running" -> "aborted"
                     [] tool[k] = "checked" -> "doomed"
                     [] OTHER -> tool[k]]

(* executor.prepare, once.                                                  *)
TakePrepare(m) ==
  /\ Arrives(m, "prepare")
  /\ IF journal[m.of] = "none"
     THEN \E value \in {"ok", "error"} :
            /\ exec' = IF value = "ok" THEN [NoExec EXCEPT !.registered = TRUE, !.fresh = TRUE] ELSE exec
            /\ journal' = [journal EXCEPT ![m.of] = value]
            /\ Answer(m, value)
     ELSE Answer(m, journal[m.of]) /\ UNCHANGED <<exec, journal>>
  /\ UNCHANGED <<Host, online, tool, began, ended>>

(* executor.lease: what was cancelled is not renewed.                       *)
TakeLease(m) ==
  /\ Arrives(m, "lease")
  /\ exec' = IF exec.registered /\ ~exec.aborted THEN [exec EXCEPT !.fresh = TRUE] ELSE exec
  /\ net' = net \ {m}
  /\ UNCHANGED <<Host, online, tool, journal, began, ended>>

(* executor.cancel; nobody reads its answer either.                         *)
TakeCancel(m) ==
  /\ Arrives(m, "cancel")
  /\ exec' = IF exec.registered THEN [exec EXCEPT !.aborted = TRUE] ELSE exec
  /\ tool' = IF exec.registered THEN Aborted ELSE tool
  /\ net' = net \ {m}
  /\ UNCHANGED <<Host, online, journal, began, ended>>

(* executor.artifacts: the run is over and its execution is given back.     *)
TakeArtifacts(m) ==
  /\ Arrives(m, "artifacts")
  /\ exec' = NoExec
  /\ tool' = IF exec.registered THEN Aborted ELSE tool
  /\ Answer(m, IF exec.registered THEN "ok" ELSE "error")
  /\ UNCHANGED <<Host, online, journal, began, ended>>

Usable == exec.registered /\ ~exec.aborted

(* executor.assess, as often as it arrives.                                 *)
TakeAssess(m) ==
  /\ Arrives(m, "assess")
  /\ IF Usable
     THEN \E value \in {"ok", "blocked"} :
            /\ exec' = IF value = "ok" THEN [exec EXCEPT !.grants[m.of.k] = @ + 1] ELSE exec
            /\ Answer(m, value)
     ELSE Answer(m, "error") /\ UNCHANGED exec
  /\ UNCHANGED <<Host, online, tool, journal, began, ended>>

\* Mutant: a request that is being carried out counts as complete.
TakeExecuteRunning(m) ==
  /\ Arrives(m, "execute")
  /\ LET k == m.of.k IN
     IF journal[m.of] = "none" /\ Usable /\ exec.grants[k] > 0
     THEN /\ exec' = [exec EXCEPT !.grants[k] = @ - 1]
          /\ journal' = [journal EXCEPT ![m.of] = "running"]
          /\ tool' = [tool EXCEPT ![k] = "checked"]
          /\ net' = net \ {m}
     ELSE /\ Answer(m, IF journal[m.of] \in {"ok", "running"} THEN "ok" ELSE "error")
          /\ journal' = IF journal[m.of] = "none" THEN [journal EXCEPT ![m.of] = "error"] ELSE journal
          /\ UNCHANGED <<exec, tool>>
  /\ UNCHANGED <<Host, online, began, ended>>

(* executor.execute, once, and only with the grant of an assessment: the    *)
(* execution is there and not cancelled, and the tool assesses the call     *)
(* again.  A copy of a request that is being carried out waits with it.     *)
TakeExecute(m) ==
  /\ Arrives(m, "execute")
  /\ LET k == m.of.k IN
     IF journal[m.of] = "none" /\ Usable /\ exec.grants[k] > 0
     THEN /\ exec' = [exec EXCEPT !.grants[k] = @ - 1]
          /\ journal' = [journal EXCEPT ![m.of] = "running"]
          /\ tool' = [tool EXCEPT ![k] = "checked"]
          /\ net' = net \ {m}
     ELSE /\ IF journal[m.of] = "running" THEN net' = net \ {m}
             ELSE Answer(m, IF journal[m.of] = "ok" THEN "ok" ELSE "error")
          /\ journal' = IF journal[m.of] = "none" THEN [journal EXCEPT ![m.of] = "error"] ELSE journal
          /\ UNCHANGED <<exec, tool>>
  /\ UNCHANGED <<Host, online, began, ended>>

Replied(k, value) ==
  /\ journal' = [journal EXCEPT ![Request("execute", k)] = value]
  /\ net' = net \cup Sent(Request("execute", k), value)

(* Assessed again, the call is carried out, though the execution may be     *)
(* cancelled or gone by now: nothing looks at its signal again.             *)
ToolBegins(k) ==
  /\ tool[k] \in {"checked", "doomed"}
  /\ tool' = [tool EXCEPT ![k] = IF @ = "checked" THEN "running" ELSE "aborted"]
  /\ began' = [began EXCEPT ![k] = @ + 1]
  /\ UNCHANGED <<Host, net, online, exec, journal, ended>>

(* The call returns, or throws; cut short or not, it may have done its      *)
(* work.  One with full access returns when it has started a job.           *)
ToolEnds(k, value) ==
  /\ tool[k] \in {"running", "aborted"}
  /\ tool' = [tool EXCEPT ![k] = IF k \in FullAccess /\ value = "ok" THEN "job" ELSE "idle"]
  /\ ended' = [ended EXCEPT ![k] = @ + 1]
  /\ Replied(k, value)
  /\ UNCHANGED <<Host, online, exec, began>>

(* A job is detached: neither a cancel nor the end of the run nor of the    *)
(* device's service ends it, but its own time limit does (a root command    *)
(* that outlasts that is beyond the code's reach, and left out).            *)
JobEnds(k) ==
  /\ tool[k] = "job"
  /\ tool' = [tool EXCEPT ![k] = "idle"]
  /\ UNCHANGED <<Host, net, online, exec, journal, began, ended>>

(* Time passes on the device without a renewal.  While the host renews and  *)
(* both are connected, that is a renewal that comes too late.               *)
LeaseAges ==
  /\ exec.registered /\ exec.fresh
  /\ LET early == host.renewing /\ online.host /\ online.device /\ ~exec.aborted IN
     /\ early => faults < MaxFaults
     /\ faults' = IF early THEN faults + 1 ELSE faults
  /\ exec' = [exec EXCEPT !.fresh = FALSE]
  /\ UNCHANGED <<host, result, net, online, tool, journal, began, ended>>

(* The sweep of the device's timer.                                         *)
Sweep ==
  /\ exec.registered /\ ~exec.fresh
  /\ exec' = NoExec
  /\ tool' = Aborted
  /\ UNCHANGED <<Host, net, online, journal, began, ended>>

---------------------------------------------------------------------------
(* Mishaps.                                                                 *)

Mishap == faults < MaxFaults /\ faults' = faults + 1

(* The device has switched execution off, or another version.               *)
Refuse(m) ==
  /\ Mishap
  /\ m \in net /\ m.type = "request" /\ online.device
  /\ Answer(m, "error")
  /\ UNCHANGED <<host, result, online, exec, tool, journal, began, ended>>

GrantExpires(k) ==
  /\ Mishap
  /\ exec.grants[k] > 0
  /\ exec' = [exec EXCEPT !.grants[k] = @ - 1]
  /\ UNCHANGED <<host, result, net, online, tool, journal, began, ended>>

(* The second assessment has it blocked, or too late for its grant.         *)
ToolRefused(k) ==
  /\ Mishap
  /\ tool[k] \in {"checked", "doomed"}
  /\ tool' = [tool EXCEPT ![k] = "idle"]
  /\ Replied(k, "error")
  /\ UNCHANGED <<host, result, online, exec, began, ended>>

Lose(m) ==
  /\ Mishap
  /\ m \in net /\ net' = net \ {m}
  /\ UNCHANGED <<host, result, online, exec, tool, journal, began, ended>>

(* A connection closes with some of what it was sending; what the relay has *)
(* for the device that is away, it keeps.                                   *)
Cut(side, type) ==
  /\ Mishap
  /\ online[side]
  /\ online' = [online EXCEPT ![side] = FALSE]
  /\ \E lost \in SUBSET {m \in net : m.type = type} : net' = net \ lost
  /\ UNCHANGED <<host, result, exec, tool, journal, began, ended>>

(* ready: the host sends everything it still waits for again.               *)
ReconnectHost ==
  /\ ~online.host
  /\ online' = [online EXCEPT !.host = TRUE]
  /\ net' = net \cup {Asking(q) : q \in {q \in Requests : result[q] = "pending"}}
  /\ UNCHANGED <<Host, exec, tool, journal, began, ended>>

ReconnectDevice ==
  /\ ~online.device
  /\ online' = [online EXCEPT !.device = TRUE]
  /\ UNCHANGED <<Host, net, exec, tool, journal, began, ended>>

(* The device's service dies, with the tools it runs, and the journal has   *)
(* what was interrupted.                                                    *)
DeviceRestarts ==
  /\ Mishap
  /\ exec' = NoExec
  /\ tool' = [k \in Calls |-> IF tool[k] = "job" THEN "job" ELSE "idle"]
  /\ journal' = [q \in Requests |-> IF journal[q] = "running" THEN "error" ELSE journal[q]]
  /\ UNCHANGED <<host, result, net, online, began, ended>>

(* The host's service dies, and the run with it.                            *)
HostRestarts ==
  /\ Mishap
  /\ host' = [host EXCEPT !.phase = "over", !.listening = FALSE, !.renewing = FALSE]
  /\ result' = [q \in Requests |-> "none"]
  /\ UNCHANGED <<net, online, exec, tool, journal, began, ended>>

(* An event that cannot be written, or a task that cannot: the registry     *)
(* drops the loop where it yielded it.  The pump ends the run, if it can    *)
(* write that; nobody tells the device, and the lease timer goes on.        *)
Abandon ==
  /\ Mishap
  /\ host.phase \in {"thinking", "asking", "ending"}
  /\ \E left \in {"abandoned", "stuck"} : host' = [host EXCEPT !.phase = left]
  /\ UNCHANGED <<result, net, Device>>

---------------------------------------------------------------------------
HostStep ==
  Prepare \/ Prepared \/ Renew \/ Assess \/ Assessed \/ Deny \/ Execute \/ Executed \/ Finish
  \/ Finished \/ Cancel

Handle(m) ==
  TakeAnswer(m) \/ TakePrepare(m) \/ TakeLease(m) \/ TakeCancel(m) \/ TakeArtifacts(m)
  \/ TakeAssess(m) \/ TakeExecute(m)

Next ==
  \/ HostStep
  \/ \E m \in net : Handle(m) \/ Refuse(m) \/ Lose(m)
  \/ \E q \in Requests : TimeOut(q)
  \/ \E k \in Calls : GrantExpires(k) \/ ToolBegins(k) \/ ToolRefused(k) \/ JobEnds(k)
  \/ \E k \in Calls, value \in {"ok", "error"} : ToolEnds(k, value)
  \/ LeaseAges \/ Sweep
  \/ Cut("host", "request") \/ Cut("device", "answer") \/ ReconnectHost \/ ReconnectDevice
  \/ DeviceRestarts \/ HostRestarts \/ Abandon

ToolGoesOn(k) ==
  \/ ToolBegins(k) \/ JobEnds(k)
  \/ tool[k] = "aborted" /\ \E value \in {"ok", "error"} : ToolEnds(k, value)

(* The loop of the run goes on with what it has; a cancelled one has its    *)
(* model call aborted and its prompt denied.  Requests have timers, frames  *)
(* arrive, peers connect again, leases lapse, an assessment answers, an     *)
(* aborted tool returns, by its signal or its own timer, and a job has a    *)
(* time limit.  Nothing says that another tool ends by itself, or that a    *)
(* model or a user answers.                                                 *)
Fairness ==
  /\ WF_vars(Prepared \/ Assessed \/ Executed \/ Finished)
  /\ WF_vars((host.cancelled \/ host.phase = "ending") /\ (Deny \/ Finish))
  /\ WF_vars(\E q \in Requests : TimeOut(q))
  /\ WF_vars(\E m \in net : Handle(m))
  /\ WF_vars(ReconnectHost) /\ WF_vars(ReconnectDevice)
  /\ WF_vars(LeaseAges) /\ WF_vars(Sweep)
  /\ WF_vars(\E k \in Calls : ToolGoesOn(k))

Spec == Init /\ [][Next]_vars /\ Fairness

---------------------------------------------------------------------------
Results == {"none", "pending", "ok", "blocked", "error"}

TypeOK ==
  /\ host \in [phase : {"new", "preparing", "thinking", "assessing", "asking", "executing",
                        "ending", "finishing", "over", "abandoned", "stuck"},
               call : 0..MaxCalls, cancelled : BOOLEAN, listening : BOOLEAN, renewing : BOOLEAN,
               told : [Calls -> {"nothing", "not run", "done", "unknown"}]]
  /\ result \in [Requests -> Results]
  /\ net \subseteq [type : {"request"}, of : Requests]
                   \cup [type : {"answer"}, of : Requests, value : {"ok", "blocked", "error"}]
  /\ online \in [host : BOOLEAN, device : BOOLEAN]
  /\ exec \in [registered : BOOLEAN, aborted : BOOLEAN, fresh : BOOLEAN, grants : [Calls -> Nat]]
  /\ tool \in [Calls -> {"idle", "checked", "doomed", "running", "aborted", "job"}]
  /\ journal \in [Requests -> {"none", "running", "ok", "error"}]
  /\ began \in [Calls -> Nat] /\ ended \in [Calls -> Nat]
  /\ faults \in Nat

(* What the run is told of a call is true: a call it takes as done was      *)
(* carried out until it returned, one it takes as not run never began, and  *)
(* none is carried out twice, however often it was sent.                    *)
ToldTheTruth ==
  \A k \in Calls :
    /\ began[k] <= 1
    /\ host.told[k] = "done" => ended[k] = 1
    /\ host.told[k] = "not run" => began[k] = 0

(* No tool begins while the run does not know what became of an earlier     *)
(* call.                                                                    *)
UncertainStopsRun ==
  \A k \in Calls : began[k] > 0 => \A j \in 1 .. k - 1 : host.told[j] \in {"done", "not run"}

Dropped == host.phase \in {"abandoned", "stuck"}

(* A run that was cancelled ends, whatever becomes of its device, unless    *)
(* its own journal fails it.                                                *)
CancelledRunEnds == host.cancelled ~> host.phase = "over" \/ Dropped

Released == ~exec.registered /\ \A k \in Calls : tool[k] = "idle"

(* When a run is over its device has its slot back and, when the jobs it    *)
(* left have come to their limit, stops working for it, for good, whichever *)
(* of its messages were lost.  A loop that was dropped leaves the device to *)
(* its lease, and nothing ends that while the lease timer goes on.          *)
DeviceStops == host.phase = "over" \/ (Dropped /\ ~host.renewing) ~> []Released

(* WorkspaceExecutor.ts: an execution its host no longer renews is given    *)
(* back.  A dropped loop leaves its lease timer, so the code does not keep  *)
(* this for the run it leaves: see the README.                              *)
DroppedRunStops == Dropped ~> []Released
===============================================================================
