# Marifold: a verification project

Marifold is an AI agent for one person: a service on a computer that keeps
conversations, runs agents with tools, and is used from a web app, a terminal
app, a command line and other devices of a workspace. This directory holds TLA+
models of the parts of it in which several things happen at once, TLC
configurations that check them on small instances, and proofs that hold for
every instance. Paths below are relative to the repository's root.

Contents: [the system](#the-system), [what is modelled](#what-is-modelled),
[runs](#runs), [proofs](#proofs), [disagreements](#disagreements-with-the-documentation),
[what is not modelled](#what-is-not-modelled), [plan](#plan), [how to run it](#how-to-run-it).

## The system

One Node process per device, the *service* (`packages/service` around
`packages/core`), keeps everything: an SQLite file per kind of data in the
device's data directory, plus JSON files and directories. Clients are the web
app (`apps/web`), the terminal app (`packages/tui`), the command line
(`packages/cli`) and messengers (`packages/core/src/channels`); a terminal app
may also embed the core and open the same files, with no service between. A
workspace joins several devices through a relay (`apps/bridge`) that sees only
encrypted frames.

Inside a process everything runs on one event loop: a stretch of code between
two `await`s is atomic there, but not with respect to other processes that share
the files, other devices, or the clock. Where an action of a model ends is
decided by that: at the `await`, at the database statement, at the message.

| Component | State it keeps | Operations | Talks to | What is hard |
|---|---|---|---|---|
| Session leases (`core/sessions/SessionLeases.ts`) | tables `leases`, `runs` shared by processes; per process the holds, pins and deferred releases | acquire, takeover, release, hold and its end, renewal timer, close | every client through `SessionRoutes`; runs and chat turns through `hold` | several statements per call on a shared file; expiry; crash; a release while work runs |
| Session clients (`client/sessionLease.ts`, `useSessionLease` in web and tui) | what a page thinks it has reserved | open, renew, take over, close | the leases of its process | lost renewals, takeovers, pages that vanish |
| Run registry (`core/runs/RunRegistry.ts`, `ProjectTurn.ts`) | live runs, prompts with timers, turns of several speakers, event buffers | start, answer, steer, cancel, append and launch, finish, evict, close, restore | agent runner, session leases, journal, clients | prompts across requests, chained speakers, children, timers, shutdown |
| Agent runner (`core/agent/AgentRunner.ts`) | transcript, grants, turn being persisted | the loop of one run | registry, providers, tools | what is saved when it is cut short |
| Run events (`RunRegistry` buffer, `WorkspaceStore` journal, `RunRoutes.ts`, `WorkspaceRoutes.ts`, `client/followRun.ts`) | a trimmed buffer, a journal, positions of readers | append, stream, poll, reconnect, evict, restart | clients, other devices | slow readers, trim, a journal that fails, restart |
| Prompt queue and thread of the web app (`usePromptQueue.ts`, `promptQueue.ts`, `thread.ts`, `followers.ts`, `useAgentController.ts`) | queue, thread cards, loops that follow runs | type, send, steer, withdraw, switch session, events, render | run registry over HTTP | answers that come late, effects that see older state |
| Workspace bridge (`apps/bridge/src/relay`, `core/workspace/bridge/BridgePeer.ts`, `WorkspaceStore.once`) | relay memory and inbox; per device pending calls, seen messages, work in flight; the journal of operations | connect, authenticate, send, deliver, acknowledge, flush, expire; request, dispatch, answer, replay | all devices of a workspace | disconnects nobody notices, duplicates, restarts of either side |
| Chunked transfers (`ChunkTransfers.ts`) | slots, windows, partial messages | transmit, acknowledge, receive, time out, reset | bridge peer | reordered frames, disconnect in the middle, limits |
| Workspace execution (`WorkspaceExecutor.ts`, `WorkspaceRuns.ts`) | the host's place in a run; prepared executions with grants, leases and running tools | prepare, renew, assess, execute, cancel, expire | bridge, tool registry | lost answers, cancel against an awaited assessment, restart of either side |
| Workspace membership (`WorkspaceManager.ts`) | members, certificates, one-use pairing codes | pair, revoke, unbind | relay | revocation against work under way |
| Skill app instances (`core/app/SkillAppInstanceRegistry.ts`) | instances, debounced triggers, one execution each | create, operate, trigger, delete, expire | agent runs | latest-wins, deferred triggers, deletion during execution |
| Sessions and replies (`core/sessions`) | turns, replies of each turn, compaction marks | append, edit, regenerate, add a reply | runs | edits against positions |
| Schedules (`core/schedule`) | schedules and firings | tick, edit | runs | edits during a tick, crash between run and record |
| Telegram channel (`core/channels`) | chats, approvals | poll, answer | runs | busy chats, stop |
| Agent computer (`core/computer`) | a container, accounts in it | create, reconcile, remove | Docker | state read before an `await` |
| Service process (`cli/service/ServiceProcess.ts`) | state file, lock directory | start, stop, status | the operating system | two processes finding a stale lock |
| Artifact library, tasks, projects, profiles, memory, images, skills | files and tables | save, list, rename, merge | service | files and rows through a crash |
| Device execution (`DeviceExecution.ts`) | jobs and worker | start, cancel, recover | operating system | recovery after a crash |
| Credentials and configuration (`core/config`) | tokens, settings | refresh, sign in | providers | refresh in two processes |
| App language, policies, compaction | none (functions) | compile, decide, compact | callers | boundaries, many cases |

What makes each correct, for the parts modelled so far, is in
[what is modelled](#what-is-modelled); for the others, in the [plan](#plan).
`PROJECT.json` lists every component with its sources and every hazard with the
line where it bites and the property that would catch it.

## What is modelled

### Session leases: `SessionLeases`, `SessionWork`, `SessionClients`

A lease says which client *app* may use a session; a row of `runs` says which
*process* works in it. `SessionLeases` has both tables, the memory of every
process (`held`, `pinned`, `deferred`, the code's `releaseWhenUnpinned`) and
`call[p]`, where process `p` is inside a call of several SQL statements. One
statement is one step, so other processes and the clock come in between the
three statements of `hold` (`HoldClaimRun`, `HoldAcquire`, `HoldUnclaim`), the
two of the renewal timer (`RenewLease`, `RenewClaim`), and those at the end of
work (`EndHold`, `EndReleaseRun`, `EndReleaseCreated`, `EndReleaseDeferred`).
`Close`, `Crash` and `Restart` replace a process by a new one with another run
token; rows of the old one stay, marked `Gone`. Time is in ticks: a row carries
what it has left, and `Tick` does not let a live process's claim go `MaxDelay`
ticks without renewal, which is the assumption the code itself makes (15 s
renewals, 60 s rows; `MaxDelay < LeaseTTL`).

`SessionWork` is what all this promises about work: at most one process works in
a session, and work begins only where none runs. `SessionLeases` implements it
with `worker[s]` mapped to the process that has a pin on `s`.

`SessionClients` composes the leases with pages and terminals: what a client
believes it has (`client`), and why it may rely on it (`claim`: *firm* when no
running work had created the lease it renewed; *shared* when some had, since the
end of that work deletes the lease whoever else relies on it).

Properties: `OneRunner`, `NoStaleDeferral`, `ImplementsSessionWork`,
`RunKeepsReservation`, `FirmClientKeepsSession`, `DisplacedClientFindsOut`,
`AbandonedClaimExpires`; `PutOffReleaseStays` is stated and not kept (see
[disagreements](#disagreements-with-the-documentation)).

### Run registry: `RunRegistry`

The service's live runs. An action is one uninterrupted stretch of the event
loop: a client's request (`Start`, `Answer`, `AnswerInput`, `Cancel`), a stretch
of a run's runner between two awaits (`SavePrompt`, `AskUser`, `CallTool`,
`Assessed`, `ToolReturns`, `StartChild`, `ChildReturns`, `Done`), a prompt's
timer, the end of a pump (`PumpReturns`), eviction, `Close` and `Restart`.
`run[r]` is the code's `ActiveRun` with the runner's place in `phase`; `turn[r]`
is the `ProjectTurn` whose first speaker is `r`; `parked` is both tables of open
prompts. A `Done` appends the last event, chooses the next speaker
(`ProjectTurn.next`), launches it and only then finishes the run, as `append`
does; the order is what `OneRunPerSession` rests on.

*Which call is asked about* is modelled as the code decides it, from what a tool's
assessment says of the call (`Risk`). `allowed[r]` is what the settings of the
profile and the answers of the run's own prompts let it do. `PreApproved` is what
policy alone approves (a trusted call, routine work, a sensitive root the profile
grants), `Covered` what an earlier answer of the run approves: *always* for a kind,
*run* for a folder and what lies in it, *trust* for a folder or a sensitive root.
Escalated calls go through unasked by either, and that is how the code means it.
What is asked about each time is a call its tool wants approved singly
(`persistable` false), and what is never tried again in a run is a call it was
denied; both are `AskedEachTime`. The first rests on what the tools' assessments
have in common (`ApprovedSingly`): such a call is escalated and names no folder
and no root. Assessing a call may take time, because another device may answer
it, and a cancel may land in between. A sudo prompt whose password expires is a
denial, and the denial a cancel makes is not kept, since the run ends.

*A write of the journal may fail* (`MaxFailures`), wherever the code appends. A
run registered and then not written (`launch`) is an *orphan*: nobody pumps it. A
write that throws under a pump leaves the runner where it stands (*abandoned*,
`WriteFails`, `HandoffFails`); the pump's `catch` reports it and ends the run as
failed (`Catch`), unless that throws as well (`CatchFails`: *broken*, and *dead*
once the pump has returned). `PumpFails` is the end of a dropped speaker that
cannot be written. A failing write of `done` itself leaves the run finished and
only the journal behind, which is in `RunEvents`. What such writes break is in
[disagreements](#disagreements-with-the-documentation).

Properties: `OneRunPerSession`, `TurnHeldThroughout`, `RepliesHaveMessage`,
`ChildrenEndFirst`, `NoSpeakerAfterCancel`, `NoToolAfterCancel`,
`PromptsHaveRunner`, `AskedEachTime`, `RunsEnd`, `HoldsEnd`.

### Prompt queue: `PromptQueue`

What the user types while a reply is in progress. Every request is three steps
(sent, served by the service, answered), and `Render` is the moment React runs
the effects of `usePromptQueue`: it sees the state of *that* render, and several
changes may come before it. The service keeps each run's unread notes and its
log of events; the page keeps the thread's cards, the loops that follow runs and
their positions, the load under way and the queue. That it is sending the page
knows only once the lease of the session is taken (`Sending`); a prompt typed before
that is a request of its own. A session switch, a message
edited and sent again (which replaces the turns behind it), and a chain of two
runs are in it.

### Workspace bridge: `Bridge`, `RemoteCall`

The relay (its memory `held`, its database `inbox`), every connection seen from
*both* ends with frames under way in both directions, the peers of all devices
(`pending`, `arrived`, `seen`, `jobs`) and the operation journal. A cut
connection loses what is under way and neither end knows; a device may come back
while the relay still has its old connection. `Restart` is a device's service
dying and coming back, `Stop` and `Crash` the relay's; messages expire and slow
consumers are closed. A message is abstract (a request or the answer of a call,
the how-manieth); encryption is left out, and large messages are in
`ChunkTransfers`. A peer has at most 32 requests of its own pending
(`BridgePeer.ts:111`) and carries out at most 64, dropping the next one after it
was acknowledged (`:327`). The instances have fewer calls than that, and the
assumption `WithinLimits` says so: what becomes of a call beyond them is not
modelled.

`RemoteCall` is what it all promises of an operation: carried out at most once,
never begun again after it was cut short, and the asker told only what became of
it. `Bridge` implements it with the journal as the work done.

### Skill app instances: `SkillAppInstances`

One instance of an app, from its creation to its deletion: the form (`values`,
`files`), what its operations wrote (`output`, with what each was made from), the
outputs marked `stale`, and every call of the runtime with its timer, its abort
and the promise a request waits on (`call`). A call that was aborted stays in
`call` until it returns, which may be after the call that replaced it. `active`
is the code's `operations` map, `exec` the execution a button started with the
triggers it owes (`deferred`) and its prompt. Requests are the registry's public
operations (`Update`, `UpdateAttachments`, `Start`, `Answer`, `Cancel`, `Delete`);
`TimerFires`, `Ends`, `Ask` and `RecordEffect` are what the runtime does in its
own time. An instance begins with the texts its definition gives (`InitialValues`,
`InitialOutput`; an initial output counts as made from the initial form). Several
triggers of one operation are taken as one: the second supersedes the first in
the same step.

What can go wrong is always the same: something late. `FreshMeansCurrent` (an
output not marked stale was made from what the form says now) is the promise of
latest-wins; `WaitersAnswerable` and `RequestsAnswered` say that nobody is left
waiting for a call that was replaced; `CommittedSucceeds` that an execution which
installed an app never ends as failed.

### Run events and their readers: `RunEvents`

One run's events with their numbers: the buffer, trimmed to `Window` as the code
trims it to 10,000, the journal with the same limit, and readers of both kinds.
A local reader has a stream that breaks and resumes after the last number it
knows; a remote one polls through another device, which reads the run's record,
waits, and then reads events. `JournalFails` is a write that throws in `append`:
the pump of the run fails (`PumpFails`) and ends it, unless the report of the
failure cannot be written either. Then nothing ends the run any more (its pump is
*dead*), and who follows it waits until the service restarts: `ReadersEnd` promises
the end to all others. `Evict` drops a finished run
from memory (its artifacts keep its journal), `Restart` loses the registry and
ends what ran with an event of its own. A journal that missed a write is restored
with an empty slot, and the buffer is indexed by position: a batch that reaches
the slot writes what is before it and breaks off (`Written`, `holed`). What is
promised to readers is promised while no restart has met a missed write
(`Undamaged`).

Properties: `NoSilentGap`, `NumberMeansOneEvent`, `ReadersEnd`.

### Chunked transfers: `ChunkTransfers`

Both sides of a large message: `transmit` with its stages, `sendChunk` with the
queue for slots that all transfers of a peer share, the window, acknowledgments,
the receiver's assemblies with their limits and refusals, the timers of both
sides, and `reset` on a disconnect. The relay in between is the set of frames
under way: it may deliver them in any order, and loses what is on a connection
that is cut, which is what `Bridge` says of it.

Properties: `WholeOnce`, `SlotsAccounted`, `NoFailureWithoutFault`, `TransfersEnd`.

### Runs on another device: `RemoteRuns`

The host's loop over one run (`createRunner` in `WorkspaceRuns.ts`) and the device
that carries its tools out (`WorkspaceExecutor.ts`), with the requests between
them: *prepare*, *lease*, *assess*, *execute*, *cancel*, *artifacts*. `result[q]`
is what the host knows of a request, `journal[q]` what the device's
`WorkspaceStore.once` does, `exec` the execution it has prepared, which it keeps
while its lease is renewed. A request is sent again when the host reconnects and
times out if nobody answers; an answer is sent once. Either side may lose its
connection, crash and come back, and the device's sweep may come before or after
any message. `executor.execute` is two steps, the check (`TakeExecute`) and the
start of the tool (`ToolBegins`), since the call is assessed again in between and
nobody looks at the execution's signal after that: a cancel or a sweep that lands
there meets a tool about to begin.

A call with full access starts a *job* and returns. A job is detached and goes on
through a cancel, the end of its run and a restart of its device's service, up to
its own limit of ten minutes (`JobEnds`); this is meant so (`WorkspaceRuns.ts:134`:
"Full-access jobs continue after disconnect/cancellation"). `DeviceStops`, that a
device stops working for a run that is over, is therefore about what is left when
the jobs have come to their limit.

`Abandon` is the registry dropping the loop, which a failed write of its journal
does (see `RunRegistry`) wherever the loop yields an event. Nobody then calls
`stop`, lists artifacts or cancels; the run is *abandoned* when the registry could
end it and *stuck* when it could not. A stuck run can still be cancelled, which
stops the timer if a call was assessed before. Otherwise the lease timer goes on
as long as the host's service does, and `DroppedRunStops` is what TLC refutes.

`began` and `ended` are histories of what really happened to each
call, so that `ToldTheTruth` can compare them with what the run was told.

Properties: `ToldTheTruth`, `UncertainStopsRun`, `CancelledRunEnds`, `DeviceStops`.

## Runs

About fifteen minutes in all on two cores. A run's properties are those of its `.cfg`.

| Run | Instance | What it shows |
|---|---|---|
| `leases` (MCSessionLeases) | 2 processes, 1 session, 2 owners, rows live 3 ticks, claims renewed within 2, 2 nested holds; symmetric | whatever two processes do between each other's statements, with crashes, one process works in the session (`OneRunner`); no put-off release survives its work (`NoStaleDeferral`); the table implements `SessionWork` |
| `one_service` (MCOneService) | 1 process, a page and a terminal of two apps, TTL 4, delay 2; fair | `RunKeepsReservation`, `FirmClientKeepsSession`; a displaced client finds out (`DisplacedClientFindsOut`); the claim of a crashed process goes away (`AbandonedClaimExpires`) |
| `delegation` (MCDelegation) | 3 runs, 1 session, calls *delegate* (approved singly) and *read* (allowed), 2 active, 1 retained, 2 speakers, 1 call each, 2 failing writes; symmetric | one run per session across the speakers of a turn, whose hold never lapses (`OneRunPerSession`, `TurnHeldThroughout`); a reply has its message (`RepliesHaveMessage`); children against parents, while the journal can be written (`ChildrenEndFirst`); cancels against speakers and tools (`NoSpeakerAfterCancel`, `NoToolAfterCancel`) |
| `runs_end` (MCRunsEnd) | 2 runs, calls *delegate* and *startup* (approved singly) and *shell* (asks for a folder, in which *startup* writes), 2 calls for the first run, 2 failing writes; fair | every run ends and every hold is released, answered or not, but for those that failed writes leave behind, which the properties name (`RunsEnd`, `HoldsEnd`); prompts always have a runner (`PromptsHaveRunner`); a call approved singly runs only on an answer to it, whatever folder was trusted before, and a denied one never (`AskedEachTime`) |
| `prompt_queue` (MCPromptQueue) | 2 runs, 2 sessions, 3 prompts of which 2 have the same text, 1 edit, 1 switch, 2 requests at a time, 1 prompt that may be taken back; symmetric in the runs and in the two prompts | no prompt is read twice, in two messages, or still to be read once it went out (`NeverAgain`); it leaves the queue for a reason (`LeavesForAReason`); cards show guidance in the order it was read, each once, none left out since the first they show (`CardShowsReads`) |
| `other_session` (violation) | 2 prompts | see below |
| `bridge` (MCBridge) | 2 devices, 1 call, inbox of 1, 2 connections each, asked once, any 2 mishaps of 6 kinds | carried out at most once and reported truthfully (`CarriedOutOnce`); kept until acknowledged (`KeptUntilAcked`); one connection per device (`OneConnection`); an asker that alone lost connections recovers (`AskerRecovers`); `TypeOK`, which is inductive and which the proofs rest on |
| `answer_lost` (violation) | 1 cut | see below |
| `skill_apps` (MCSkillAppInstances) | 2 operations that write one output: one triggered with a pause, one of a button with attachments and prompts; a form that begins filled in, with a given text as output; 3 calls at once, 3 edits | late results, superseded calls, cancels and deletion in every order: `FreshMeansCurrent`, `WaitersAnswerable`, `CommittedSucceeds`, `RequestsAnswered` |
| `run_events` (MCRunEvents) | 1 local and 1 remote reader, buffer and batch of 2, 3 events, 1 cut, 1 crash and 2 failed journal writes | but for a restart after a failed write, a reader misses only what was trimmed (`NoSilentGap`), a number means one event to all readers (`NumberMeansOneEvent`), whoever keeps following learns of the end of every run but one whose pump could not write its failure either (`ReadersEnd`) |
| `chunk_transfers` (MCChunkTransfers) | transfers of 3 and 4 chunks, windows of 2, room for both, 1 fault | a text arrives whole and once (`WholeOnce`), slots are accounted for (`SlotsAccounted`), reordering alone fails nothing (`NoFailureWithoutFault`), transfers end (`TransfersEnd`) |
| `remote_runs` (MCRemoteRuns) | 2 calls, the first a full-access job, 1 fault of twelve kinds | what the run is told is true (`ToldTheTruth`), nothing is begun on top of what is uncertain (`UncertainStopsRun`), a cancelled run ends (`CancelledRunEnds`), and its device stops when the job has, unless the loop was dropped with its lease timer going (`DeviceStops`) |

Bounds and why they suffice:

* *Leases.* Exclusion is per session, so one session is enough; two processes
  give every interleaving of two calls, two owners every takeover. TTL 3 with
  delay 2 lets a claim be both one tick from expiry and in time. The proof covers
  the rest.
* *One service.* One process, because what running work relies on is promised
  only when all clients of an app talk to the process that runs its work: releases
  are put off in the memory of one process. With two processes that serve the same
  app, a page of one can free the session of a task that runs in the other. That
  the web app has one service, and that a terminal with the core inside has a
  random owner of its own (`MarifoldRuntime.sessionOwner`), is how Marifold is
  used, and an assumption here. What a *client* relies on needs no such
  assumption; the proof has it for any number of processes.
* *Registry.* Two speakers are the least that chain, a parent and a child the
  least that delegate, and three runs let a stranger compete with both. One
  retained finished run makes eviction happen. Ids are never reused, so the number
  of runs bounds the length of behaviours: a client may start as many turns as
  ids last. `Awaited`/`Spare` keep ids for speakers still to come, so that a turn
  is never stuck for lack of an id. Two failing writes are the least that leave a
  run *dead*, and let a run that failed once meet another that does. `delegation`
  has the children and the turns, `runs_end` the approvals: a folder asked for first
  and a write in it that is approved singly are the least that tell *trust* from
  an answer to the call. No call there is about a sensitive root (`Roots` is empty)
  and the profiles have one setting; the proof covers the others. The safety
  properties are proved for all bounds.
* *Queue.* Same text twice is what makes matching by words go wrong; one edit and
  one switch are the two ways cards are replaced; two requests under way let
  answers overtake one another and a start overlap guidance. The proofs are for
  any number of all of them.
* *Bridge.* An inbox of 1 is its limit and makes a full inbox common; the call's
  request can be sent again by a reconnect, so one try already has duplicates;
  two mishaps allow one in the handling of another. More calls interact only by
  filling the inbox.
* *Skill apps.* Two operations that write the same output are the least that
  race for it, three calls leave one late result beside a replaced and a current
  one. An operation triggered without a pause is not in the run; its timer fires
  at once, and the proof covers it.
* *Run events.* Three events against a buffer of two trim once and leave a reader
  before, in and behind the buffer. A crash and failed writes happen in one
  behaviour, in either order; the properties say what they promise then
  (`Undamaged`, see below for what goes wrong without it). The second failed write
  is the one of the error the pump made of the first.
* *Chunks.* Four chunks against a window of two make two windows after the first
  chunk; two transfers compete for two slots. One fault is enough to lose any
  frame, cut either side or fire a timer early, and faults only remove frames and
  assemblies, which the other side cannot tell from being slow.
* *Remote runs.* Two calls are the least for which one may follow an uncertain
  one, and the first leaves a job. One fault reaches each kind of loss at each point;
  the proofs of the two safety properties are for any number.

Fairness. `FairClients` and `FairSpec` (registry) assume only that a process's
event loop goes on: statements of a call follow one another, timers fire, tools
and models return or time out (both have timeouts in the code), and time passes.
A request of a client is strongly fair because requests wait in the event loop's
queue until handled, however often the process is in another call meanwhile. No
client is assumed to answer a prompt or to come back. A page that stays open does
renew: its timer is part of `FairClients` (strongly fair, as above), which
`DisplacedClientFindsOut` needs, and closing or vanishing is always open to it. In
the registry nothing is fair about what fails: writes may or may not. In
`SkillAppInstances` timers
fire and calls of a model return, since an engine has a time limit; in `RunEvents`
a run whose pump can write ends, the service serves, and a client that follows reads and reconnects
(`followRun` does, for ever); in `ChunkTransfers` promises go on, timers fire, the
relay delivers what it has, and peers reconnect (`BridgePeer` retries for ever).
In `RemoteRuns` the host's loop goes on with what it has, requests have timers,
frames arrive, peers reconnect, leases lapse, the device's assessment of a call
answers, a tool whose signal was aborted returns, and a job comes to its time
limit; nothing says that another tool ends by itself, or that a model or a user
answers, because `CancelledRunEnds` and `DeviceStops` have to hold without. (A
prompt of a cancelled run is denied, by its signal or, when the cancel came during
the assessment, by its timeout.)

Deadlock is checked where the system cannot stop (leases, one service, registry).
In the others the user may have typed everything, the run be over, the transfers
be done and the mishaps used up, which is an end of the instance and not of the
system.

## Proofs

tlapm checks every step from nothing; what is proved holds for every set of
processes, sessions and owners, every set of devices and calls, and every value
of the other constants the assumptions allow. All theorems but the type invariants
and one refinement between modules state a property some run checks.

**`SessionClientsProof`**, first about `SessionLeases` alone, from `TimeAssumption` (a claim is renewed sooner than it
expires, `MaxDelay < LeaseTTL`) and `NamesAssumption` (no process is called
`None` or `Gone`):

* `TypeCorrect`: `Spec => []TypeOK`.
* `Exclusion`: `Spec => []OneRunner`. `OneRunner` is not inductive: what keeps a
  second process out is the first one's row, not its pin. The invariant
  `RunInv` adds `ClaimKept` (who answers for a claim has its row, and the row has
  lost no more ticks than have passed since) and `HoldCallUnpinned` (a hold that
  is beginning or ending is not the one that has the session pinned). Two
  processes that both claim would then both be the `who` of one row.
* `Implementation`: `Spec => ImplementsSessionWork`. A step that takes the first
  pin is a `Begin` because by `ClaimKept` nobody else has one; `Crash` and the
  last `EndHold` are `End`s; the rest changes no pin.
* `NoLeftOvers`: `Spec => []NoStaleDeferral`, with `TypeOK` alone.

**`BridgeProof`**, from `BridgeConstants` (finitely
many calls, nobody asks itself, an inbox holds something); the module's other
assumption, `WithinLimits` (no device waits for more than 32 of them or carries out
more than 64), says of which calls it speaks, and no step cites it:

* `TypeCorrect`: `Spec => []TypeOK`. It is inductive as it stands because it says
  more than types: every answer anywhere (on a wire, in a store, being decrypted)
  is what the journal says of its call, every message anywhere has a number that
  was given before and goes to whom it is for, and every acknowledgment under way
  is of a message its device has. The first is kept because an end in the journal
  is final, which is what `WorkspaceStore.once` and `interruptRequests` have to see
  to; the last because a connection that closes loses what it was sending, so a
  restarted device, which forgets what it has seen, acknowledges nothing from
  before.
* `OnceOnly`: `Spec => CarriedOutOnce`, the refinement of `RemoteCall`. `TakeRequest`
  is a `Begin` or changes nothing, since `jobs[q] > 0` exactly when the journal
  says *running*; `TakeAnswer` tells the truth by the first part of `TypeOK`.
* `OneEach`: `Spec => []OneConnection`. Every step but `Authenticate` leaves the
  ready connections among those that were ready (`Quiet`); `Authenticate` closes
  all the others of its device in the same step.
* `KeptForDevice`: `Spec => KeptUntilAcked`, for every step of the relay, with the
  last part of `TypeOK` for acknowledgments.
* `Recovers`: `Spec => []AskerRecovers`. That a call *travels* is not inductive: a
  message on its way may be one its receiver drops as a repetition, or be on a
  connection of somebody it is not from. `Recovery` says of an awaited call that it
  is `Carried`: by a job, or by a message its receiver has not dispatched, which
  the relay keeps for that receiver, or which the receiver has, or which its own
  sender is sending. Each of these turns into another one when it ends: a message
  taken from a wire is stored, what is acknowledged has arrived, a dispatched
  request is a job or is answered from the journal, a job that ends is answered. The
  answer goes out because a device that has something to do was ready once
  (`Reached`) and has lost no connection. A request leaves with the asker's only
  open connection (`OneOpen`); when that is lost the asker does not work until
  another is ready, and then everything awaited is sent again, under numbers that
  nobody has seen. What a step does to a connection is one relation, `Follows`,
  proved for each action and composed.

The second part is about the clients on top of it, from `ClientAssumption`
(every client talks to a process and has an owner):

* `ClientsUseLeases`: `SpecClients => Spec`. Every step a client sees is a step of
  the leases, so the theorems about those hold with any clients on top.
* `KeepsSession`: `SpecClients => []FirmClientKeepsSession`, for any number of
  processes and clients. That the row is there is not inductive: `ClientInv` adds
  that nothing anywhere is going to delete it (`Doomed`: work that created the
  lease, a put-off release, an end of work under way). A firm client found none
  when it renewed (`ClaimOn`), and none can come to be while the row is its
  owner's: a hold that begins finds the lease and did not create it.
* `WorkKeepsReservation`, `ServedWorkKeepsReservation`: `[]RunKeepsReservation`
  for `Spec` and for `SpecClients`, where one process serves everybody
  (`OneProcess`) and renews within half of a row's life (`EarlyRenewal`; the code
  renews after a quarter). `MaxDelay < LeaseTTL` alone would not do: the timer
  renews the lease first and the claim after, so the clock that times the next
  renewal may start up to `MaxDelay - 1` ticks after the lease was renewed.

**`RunRegistryProof`**, from the assumptions on the constants of `RunRegistry`, for
any number of failing writes: `Types` (`TypeOK`), `OneRun` (`OneRunPerSession`),
`Held` (`TurnHeldThroughout`), `Messages` (`RepliesHaveMessage`), `Children`
(`ChildrenEndFirst`), `Prompts` (`PromptsHaveRunner`), and as action properties
`Cancelled` (`NoToolAfterCancel`), `Asked` (`AskedEachTime`) and `NoSpeaker`
(`NoSpeakerAfterCancel`).

The registry never looks for *a* run of a session but for active ones, and a project
turn replaces one by the next; so the invariant `IInv` says how the runs of a turn
follow one another. A run is *live* while its runner may do something, *closing*
until its pump has returned, *resting* after. Of two speakers of a turn at most one
is live, those before it are closing or resting, and one launched by a closing
run waits in the queue for it (`InOrder`). With `Registered` (a live run is in
the table, and so is a lost one) a start finds every run it could collide with, and
two busy runs of a session can only be speakers of one turn, one of which a failed
write has separated from its runner (`Clash`): that is why `OneRunPerSession` is
about runs that can still act. `Seated` says that the turn of a busy run is held
and has its message; that an *abandoned* run counts as busy is what the handoff in
the pump's `catch` needs. Children are in order while `failures = 0` (`Unharmed`).

The action properties are about what starts (`Starts`), and need that a call which
is looked at or asked about was not denied (`Heeds`). For a call approved singly
the proof shows that none of the four ways of `Covered` and none of `PreApproved`
applies, whatever `allowed[r]` has come to hold: that is `ApprovedSingly` and
nothing else, so a tool that wanted a call approved singly and named a folder or a
root with it would break it.

**`SkillAppInstancesProof`**, from `DefinitionIsValid` (the validator's promises
about a form): `Freshness`, `Answerable` and `EffectsKept` are `FreshMeansCurrent`,
`WaitersAnswerable` and `CommittedSucceeds`. The invariant adds what makes a late
result harmless: a call the instance still waits for was made from what the form
says now (`CallsCurrent`, `ExecutionCurrent`), so a result is either current or of
a call nobody waits for; prompts belong to an execution (`PromptsOfExecution`);
and each output is written by its own operations (`OutputsOwned`).

**`ChunkTransfersProof`**, from `ChunkConstants`: `Whole` is `WholeOnce`. The
hardest part is *done means delivered*. The invariant relates the sender's chunks
to the frames under way and to what the receiver took: each chunk is sent once
and before it is acknowledged (`SentOnce`, `AckedAccepted`), everything behind the
window was acknowledged (`BehindAcked`), an open assembly has all that was taken
(`OpenHasAll`), and a text all of whose chunks were taken was delivered, or else
some chunk stays unacknowledged and the transfer fails (`CompleteOrFails`).
`Slots` is `SlotsAccounted`: every slot taken is of a chunk under way, and whoever
waits in the queue finds no room, whichever of a transfer's promises ended.
`Faultless` is `NoFailureWithoutFault`: without a fault no timer fires early
(`CalmSender`, `CalmReceiver`) and the receiver has room for what senders start
(`Roomy`), so that reordering by itself is never an error.

**`RunEventsProof`**, from `EventConstants`, for any number of readers, events,
failed writes and restarts: `NoGaps` is `NoSilentGap` and `OneMeaning` is
`NumberMeansOneEvent`. The invariant `IInv` holds of damaged histories only what
the faults say (`FaultShape`), and of the others `Sound`: wherever an event with
a number is, in the buffer, in the journal, under way to a reader or read, it is
the same event (`OneEventEach`); the buffer is whole (`BufferWhole`), the journal
too as long as no write failed (`JournalWhole`), and an archived run's journal has
its end (`JournalEnd`); what is under way to a reader follows what the reader has,
or starts where the buffer started when it was collected (`NoGap`). A restart
trusts the journal, so `JournalWhole` is what a restart needs, and a failed write
what breaks it: that is why neither property survives both.

**`RemoteRunsProof`**, from `RemoteConstants`, for any number of calls and faults:
`Truth` is `ToldTheTruth`, `Certain` is `UncertainStopsRun`. The invariant relates
the journal to what happened (`Journaled`), the answers on their way and at the
host to the journal (`Answered`), a request to the decision that sent it
(`SentWhenDecided`), and says that the run decides about a call only when it knows
what became of all earlier ones (`KnowsEarlier`). A call that was checked and has
not begun is as much *running* for the journal as one that has (`Busy`), so a copy
of its request cannot begin it again; what a job does after the call returned
changes neither journal nor history. A dropped loop decides nothing any more.

**`PromptQueueProof`**, from `QueueConstants`, for any number of sessions, runs,
prompts, switches, edits and requests under way at once:

* `Settled`: what `settleQueue` makes of every queue and all cards. The model has
  it as a recursive function, as the code has it as a loop with a cursor. That the
  function is defined (`SettlingDefined`) and what it returns (`SettledStep`) are
  inductions over the queue, done by the least counterexample: the numbers are
  well-founded (`Least`), so the smallest prefix for which the claim fails would
  follow a smaller one for which it holds.
  The claim (`Settles`) fixes both halves: an item taken out stands beyond its
  baseline in the card of its run, each at an entry of its own, and an item that
  stays has no entry but those of the items before it. A text typed twice goes out
  of the queue once for each time the run read it. The induction carries that the
  cursor of a run is the last entry that took an item out (`LastRead`).
* `StayInStep`: `Spec => []InStep`, what ties the page to the service. A run's log
  only grows and once over it is over (`Phases`, `Grows`), so what a card says
  stays true while events, answers and loads arrive in any order (`Known`): the
  card fits the log, it says *ended* only of a run that has, and the loop that
  writes it has read no further than the card, unless the card is new. The last is
  what makes an event the card has not had the *next* one.
* `CardsTrue`: `Spec => []CardShowsReads`, a part of `Known`.
* `Reasons`: `Spec => LeavesForAReason`. Only a withdrawal, its answer and a render
  take prompts out (`WhyLeft`); by `KeptOrRead` what a render drops has its words in
  the card of its run, and by `CardsTrue` those words are in the run's log.
* `Once`: `Spec => []NeverAgain`. A prompt is at one place of its way out (steering
  request, queue, message, run), noted or read by one run (`OneWay`, `OneNote`),
  and neither half says enough alone: a note the run may still read is also in the
  request or in the queue. `Untaken` says that a request the run has not taken is
  noted nowhere, so that its refusal may put it in the queue; `Pending` that a note
  of a running run is queued on that run and on no way to another. Settling keeps
  `Pending` only because by `Known` a card that has ended means a run that has.
  Each action either leaves less at every place (`LessTokens`) or moves one prompt.

Only model-checked is liveness: `DisplacedClientFindsOut`,
`AbandonedClaimExpires`, `RunsEnd`, `HoldsEnd`, `RequestsAnswered`, `ReadersEnd`,
`TransfersEnd`, `CancelledRunEnds`, `DeviceStops`. The prover has no `ENABLED`, and
fairness is stated with it. Every safety property of a passing run is proved.

## Disagreements with the documentation

Two are runs TLC finds violated, with the documented sentence quoted in
`PROJECT.json`:

* `other_session` (`PromptsStayInSession`): a prompt typed in one conversation is
  sent in another, when the answer to its steer request (the run has just ended)
  comes after the switch.
* `answer_lost` (`AnswerFindsAsker`): an operation that ends while the device
  carrying it out is disconnected is never answered to an asker that stayed
  connected, although its result is in the journal.

The others are stated in the modules and have no run of their own; name the
formula in a `.cfg` of the module and TLC refutes it:

* `PutOffReleaseStays` (SessionLeases): a release asked for while work runs is
  applied "when it ends", but the renewal timer of that very work re-acquires for
  the same owner and forgets the release.
* `CancelStopsTurn` (RunRegistry, `MaxSpeakers = 3`): cancelling any speaker stops the turn, but a
  cancel that names a speaker two or more back stops only the speakers still to
  come: the one that is answering goes on to its end.
* `CancelUnblocks` (RunRegistry): a cancel unblocks a pending approval at once, but
  one that lands while the risk of the call is being assessed has fired before the
  prompt listens, and the prompt stays until it is answered or times out.
* `WithdrawnNotSent` (PromptQueue): a prompt the user takes back is sent all the
  same when the run's done event comes before the answer to the withdrawal: it has
  become the next message by then, and is sent as one.
* `DeliveredOnce` (PromptQueue, `MaxSwitches = 0`, `MaxRequests = 2`): a prompt its
  run has read is sent again as the next message. Two prompts are steered at once,
  the run reads them in the order it took them, and the answers arrive in the other
  order, which is the order of the queue. `settleQueue` finds the first and moves
  the run's cursor behind it (`promptQueue.ts:29-32`), which passes the second; when
  the run ends, the second counts as unread (`:34`). `usePromptQueue.ts:17` has
  guidance leave the queue "once the agent reads it", and only what no run read
  go out. TLC finds it in 17 steps (one session, no edits, three different texts).
* `CardShowsAll` (PromptQueue, `MaxSwitches = 2`, `MaxRequests = 2`): a run whose
  start is answered while another session loads gets a card and a follower at once
  (`useAgentController.ts:869`); the load then replaces the thread (`thread.ts:88`) and
  leaves that follower where it was, so the next event makes a new card without
  the guidance the first one showed. TLC finds it in 20 to 30 steps by simulation
  (`-simulate -depth 40`, `MaxEdits = 0`). What such a card still shows is right
  (`CardShowsReads`).
* `DeleteCancelsWork` (SkillAppInstances): deleting an instance cancels its work,
  but `delete` aborts a running execution while the instance is still registered
  (`SkillAppInstanceRegistry.ts:303`), so the triggers its start owed are scheduled
  for an instance that is going away.
* `NoSilentGap`, `NumberMeansOneEvent` and `ReadersEnd` (RunEvents) without their
  `Undamaged`: the comment at `RunRegistry.ts:547` has the pump's `catch` close out
  a run whose journal write failed. When it can, the end may still be in the buffer
  only (`:549-550`, `:591`). After a restart the journal's next number, which readers
  may know as the lost event, is given to another; a reader may be sent past an event
  the service has, because the restored buffer, found by `seq - firstSeq`
  (`:363-367`), has a hole (`:237`, `WorkspaceStore.ts:177`); and a reader whose last
  number is that of the end it saw, which the restored run has not reached, follows
  for ever.
* `RunsEnd` and `HoldsEnd` (RunRegistry) and `ReadersEnd` (RunEvents) without the
  exceptions they name: the `catch` that closes out a run appends twice, and when
  the first append throws (`RunRegistry.ts:549`) the run is never finished. It stays
  active, so that its session answers `SESSION_BUSY` and a place of `maxActiveRuns`
  is taken until the service restarts, its readers wait, and a parent that
  delegated to it waits as well. A run whose first write fails (`:297-298`, also
  from `:570`) is registered already and never pumped, with the same effect, and the
  turn that `start` began for it (`:258`) keeps its session held; so does a turn
  whose last queued speaker cannot be written off (`:559`). A child whose parent was
  abandoned runs on (`ChildrenEndFirst` without `failures = 0`).
* `DroppedRunStops` (RemoteRuns): a guest's lease is there for a host that no longer
  works for the run (`docs/workspaces.md:159`: leases expire "without host renewal;
  active commands are aborted"). A loop dropped by a failed write (`RunRegistry.ts:541`)
  is reported over without `listArtifacts` or a cancel, so `stop` is not called
  (`WorkspaceRuns.ts:215`) and its interval (`:277`) renews until the host's service
  exits: the device keeps the execution, and what it runs.

And one that only reading shows, since the model has valid operations only: a
`start` with an operation that cannot run drops the triggers the aborted execution
owed (`SkillAppInstanceRegistry.ts:185-194`, against the comment at `:200`).

## What is not modelled

`PROJECT.json` has the reason for each component. In short: input and output with
no shared state (providers, search, images), file formats and compilers (skills,
the app language, certificates), rendering, and argument parsing are left out for
good; Docker, the network, the operating system and the model providers are
external and appear as choices. Within the modelled components these are left
out: artifacts of a run and the listing of past runs; what an event says, but for
ends; rate limits, signatures and membership of the relay, and calls beyond the
limits of a peer (32 pending, 64 carried out); contents of artifacts,
attachments and project folders of a remote run, several runs on one device, what a
device's own sandboxed child does once its service has crashed, a root command that
outlives its job, and the answer to a cancel; how a tool assesses a call, which is a
constant of `RunRegistry` (`Risk`), and what an answer writes to the profile for
*later* runs, which begin with any of the given profiles;
the limit on skill app instances and the validation of values; the thread's other
items. The model's interfaces to them are choices: a request may be refused, a
tool may fail, a frame may be lost.

What is left out because it has not been done yet, rather than because it cannot
be, is in the [plan](#plan). Most of the repository's lines are neither: screens,
terminal rendering, command line, file formats, providers and the documentation
site keep no state that more than one actor changes, and a model of them would
only repeat them.

## Plan

In order; each is a module with its instance and, where it has promises of its
own, an abstract specification.

1. `SessionLeases`, `SessionWork`, `SessionClients`: done, safety proved.
2. `RunRegistry`: done, safety proved.
3. `PromptQueue`: done, safety proved.
4. `Bridge`, `RemoteCall`: done, safety proved.
5. `SkillAppInstances`: done, safety proved.
6. `RunEvents`: done, safety proved; left: the refinement to a plain log.
7. `ChunkTransfers`, `RemoteRuns`: done, safety proved. Left:
   `WorkspaceMembership` (nothing executes for a member that was revoked).
8. `ServiceLock`: one process holds the lock. `AgentComputer`: what is recorded as
   applied was applied.
9. `AgentRunner` with `SessionReplies`: what a run cut short leaves in the
   session; composed with `SessionLeases` and `RunRegistry` (a run writes only
   while its hold lasts).
10. `Schedules`, `OAuthCredentials`, `ArtifactLibrary`, `TelegramBridge`,
    `DeviceExecution`, `ProfileRename`, `TaskStore`; as pure operators:
    approval and file policy, transcript compaction, the thread reducer, each
    against a reference definition.

## How to run it

    tlc -workers 2 -config MCBridge.cfg MCBridge.tla
    tlc -workers 2 -config MCOneService.cfg MCSessionClients.tla
    tlapm RunRegistryProof.tla

The module of each run is named in `PROJECT.json`. All proof modules together take
tlapm about half an hour from nothing.
