# Specifications of the Temporal self-hosting workshop

The workshop runs two Temporal clusters in a local k3d cluster and gives
participants a control panel that puts load on them and kills it, and a demo of
encrypted payloads. This directory holds TLA+ models of the parts of it that have
state and can go wrong by ordering, failure or timing; TLC configurations that
check them on small instances; and TLAPS proofs of what matters most, for every
instance.

Contents: [Inventory](#inventory), [Modules](#modules), [Runs](#runs-and-bounds),
[Fairness](#fairness), [Proofs](#proofs), [What the checks found](#what-the-checks-found),
[Not modelled](#what-is-not-modelled), [Plan](#plan).

## Inventory

| Component | Source | State | Operations |
|---|---|---|---|
| k8s.Manager | `worker-control-ui/internal/k8s/manager.go` | `runnerTimers` under `runnerTimersMu`; the Deployments in the API server | start, stop, scale, status, kill, stream logs; callbacks of the auto-stop timers |
| HTTP API | `worker-control-ui/internal/api/handlers.go` | none; a goroutine per request | routes, validation, one Manager call per request, server-sent events |
| Server process | `worker-control-ui/cmd/server/main.go` | the Manager's timers live and die with it | start; restarts on every bring-up |
| Control panel | `worker-control-ui/internal/webassets/web/app.js` | selected cluster, switches, `toggleBusy`, buttons, `logSources`, log panes, the runner's form | clicks, two 2 s polls per page, answers in any order |
| Runner configuration | `manager.go` 115-167 and 407-554, `app.js` 89-156, `index.html`, `dispatch_hello_world.go` | the form; the runner's command | form to body, validation, command lines, example workflows |
| Bring-up | `_scripts/start.sh`, `_scripts/restart.sh` | what it leaves in the cluster | `ensure_*`, then `verify_*` with one remedy each |
| Codec, codec server | `codec-demo/codec`, `codec-demo/cmd/codec-server` | an AES key | encode, decode; HTTP with CORS |
| Codec worker | `codec-demo/cmd/worker`, `codec-demo/workflows` | the process; the histories of its workflows, in Temporal | dial, workflow and activity tasks |
| Configuration, images, dashboards, docs | `helm/`, `grafana/`, ... | none | none |

How they interact. The page calls the HTTP API; each request is a goroutine that
calls one Manager operation; an operation reads a Deployment and writes it back
with the resourceVersion it read, so the API server is where concurrent requests
meet, together with Kubernetes' deployment controller (status updates), timers'
callbacks, `start.sh` and other participants. Kubernetes turns what Deployments
say into pods, which kill and log requests act on directly. `start.sh` installs
all of it and restarts the control UI's process each time it runs. The codec
worker is switched on by the page and serves workflows that participants start
through the CLI; the Web UI shows their histories through the codec server.

What is hard, and what makes each component correct:

- **Manager.** Read-then-write on an object others write; timers whose `Stop`
  may come too late; a fault between any two steps; a process that forgets its
  timers. Correct means: no lost update, no change undone by a late write, no
  timer left behind, and a runner that was started does get stopped.
- **Pods.** A list that is stale when it is worked through, an exec cut by its own
  effect, a count that lags, a pod that is replaced while its log is followed.
  Correct means: a kill that reports success spared nobody, and the status and an
  open log stream settle on what is there.
- **Control panel.** Polls overlap, answers come in any order and about a cluster
  no longer selected, two clicks share a busy flag, a request that failed may have
  had its effect. Correct means: one log stream, of the selected cluster; no
  foreign lines in a pane; a page that ends up telling the truth.
- **Runner configuration.** A number passes through a text field, JavaScript, JSON,
  Go and a command line, and in each another value stands for "not given". Correct
  means: the load is what the form's labels say, and never none.
- **Bring-up.** It dies at any command and is run again over what it left, while
  services come up, break and time out. Correct means: what it reports as up is
  up, and some later run succeeds.
- **Codec.** Batches that mix plain payloads, sealed ones and some nobody can open;
  a worker that comes before the frontend, crashes, and is given tasks twice.
  Correct means: nothing readable leaves the worker, everything readable is shown,
  workflows complete, with their own results.

`PROJECT.json` lists the hazards at their lines and the properties that cover them.

## Modules

**Workload** is the vocabulary: the Deployments (`Runners`, `Workers`,
`CodecWorker`), what a Deployment asks for (`Desired`: a replica count and a pod
template), who calls (`Requests` and `Timers`, since an expired timer's callback
is a goroutine that calls StopRunner), and what a call does (`Effect`).

**WorkloadControl** is what the Manager promises: a call changes its workload at
most once, in one step, on top of what the workload says then; a start asks for one
instance at least; success is only answered after that; an answer "error" leaves the change possible, but never once
something else has changed the workload. Nothing but a call changes a workload,
except that `BringUp` stops the codec worker.

**Manager** is the code. A goroutine is at `pc[t]`, executing `call[t]`, holding
the Deployment it read in `seen[t]`:

| Model | Code |
|---|---|
| `deployment[w]` (version, says) | the Deployment in the API server; version 0: none |
| `runnerTimers`, `timer` | the map, and the Go timers in or out of it |
| `RejectRequest`, `StartWorker` ... `CodecWorkerStop` | a handler up to its Manager call's first API call |
| `Get`, `NotFound` | the `Get` of start, stop and scale, and its not-found branches |
| `Write`, `WriteRefused` | `Create`/`Update`; refused when the version moved |
| `Written` | the return of start/stop/scale |
| `ArmRunnerTTL`, `DisarmRunnerTTL` | the two critical sections of `runnerTimersMu` |
| `Expire` | `time.AfterFunc` fires its callback |
| `ApiFailure`, `LateWrite` | an API call fails; a failed write may still land |
| `StatusWrite` | the deployment controller updates a status, moving the version; `StopUnderWay`: while a stop is between its `Get` and its `Update`, which is then refused |
| `disturbed[w]` (history) | since w was armed, a fault took its auto-stop away |
| `ApplyManifests` | `kubectl apply` of codec-demo's manifests (start.sh:239) puts codec-worker at 0 replicas |
| `Restart` | the process ends and `NewManager` starts with no timers |

`disturbed` is set only by what takes an auto-stop away: a stop of the runner that
fails (it has disarmed first), a status update that makes one be refused, a start
that lands after it was answered with an error (it is never armed), and a restart of
the process. A status update at any other time, such as those the controller writes
after every start, a failed start of a runner that has a timer, and a failed call
about another workload exempt nothing.

Time is order only: an armed timer may expire at any moment, as `runnerTTL` may
pass between any two steps of a slow request.

**Pods** is what happens to the pods of one workload under the Specs that Manager
writes. What of Manager it needs is what WorkloadControl says: a start or stop
changes the Spec at once.

| Model | Code |
|---|---|
| `Start`, `Stop` | a start or stop has reached the Deployment |
| `CreatePod`, `DeletePod`, `StartContainer`, `RemovePod`, `StatusWrite` | Kubernetes (external) |
| `box`: up, dying, down | `wrappedCommand`: a shell and the binary; the shell alone; neither |
| `ListPods`, `Signal`, `NothingToSignal`, `ExecReturns`, `ExecSevered`, `KillDone` | `kill` and `signalContainer` |
| `Status` | `status`, over the Spec and the count written last |
| `OpenStream`, `FollowLogs`, `WaitTimesOut`, `LogsEnd`, `StreamFails`, `Leave` | `streamLogs`, `waitForPod`, `mostRecentStartedPod`, `streamPodLogs` |
| `Reconnect` | the browser's EventSource (external) |

An exec may return before the container ends or be ended by it (`ExecSevered`),
which manager.go:369-370 calls expected and lines 371-373 return as a failure, so
that the loop leaves the remaining pods alone. Creation timestamps have the
resolution of a second, hence pods of one second may be equally new.

**ControlPanel** is the page. An action is one handler up to its next `await`.
Each panel has `Slots` for status requests and for posts; a slot is free, sent,
answered or failed. The server's side is a Boolean per panel and cluster (`on`:
the status is "running" or "starting", which is all the page distinguishes), so
that overlapping requests may be served, and their answers arrive, in any order.
The codec-worker's panel is a panel without log and kill button, always about
`CodecCluster`, on an interval of its own (`Intervals`).

**RunnerConfig** holds operators only: the form and which of its knobs are enabled;
`Config`, the body it is sent as and what the server decodes; `Accepted`, the
server's validation (`Decodes` before it: a number that is not one of Go's ints
refuses the whole body); `Command`, the container's command; `Load`, what that command
dispatches, through the two tables of example workflows; and `Promised`, the
reference: what the labels of `index.html` say, knob by knob. **Launch** is a
runner that is reconfigured with them: `Turn` a knob, `SwitchOn`, `ApiStart` with a
request the page would not send, `StopRunner`. A knob may also be turned while the
runner runs, which the page forbids but for the stale answer `ControlPanel`
finds. **MCLaunch** lists the requests past the page.

**Bringup** is the script. `Program` is its main part, call by call; `at`,
`stage` and `attempt` say where it is; `state` holds the services, `granted`,
`namespaces`, `visible` and `attributes` what the calls leave behind. `Ensure` and
`EnsureRelease` distinguish a missing release (install, wait) from one that is
there (upgrade without a wait), as the script does; `Check`, `Remedy` and
`Recheck` are a `verify_*`. `set -e` is `Exit`: `CommandFails`, `TimesOut` and
`Unreachable` end the script anywhere, with or without the command's effect, and
`Start` runs it again. `Break` and `Recover` are the cluster's own doing;
a release recovers only if PostgreSQL is up and, for cluster-2, the grants are
there, and the bucket policy's job only if MinIO is up. What a bring-up does to a
running Manager is in Manager: `Restart` and `ApplyManifests`.

**Codec** is the codec as operators. A payload is its data under seals; `Encode`
and `Decode` transform a batch wholly or not at all; `Serve` is the codec server's
reply to a request, `Browse` the Web UI's two requests. **CodecDemo** is the worker
and its workflows over Temporal's histories and tasks:

| Model | Code |
|---|---|
| `Dial`, `DialFails`, `WakeUp`, `Crash` | `main` of `cmd/worker` |
| `Written`, `Read` | the client's `NewCodecDataConverter` |
| `CustomerOnboarding` | the workflow, one task |
| `ProcessPayment`, `PaymentCharged` | the workflow up to its `Get`, and after it |
| `ChargeCard`, `AnswerActivity` | `ChargeCardActivity` and its result's way back |
| `Start`, `TakeActivity`, `ActivityTimesOut`, `InputUnreadable`, `FrontendDown` | participants, Temporal and its SDK (external) |
| `astray`, `ChargeAstray` | executions of `ChargeCardActivity` that Temporal gave up while the worker still ran them: they charge the card all the same, perhaps after a later attempt, or the payment, has completed |
| `SwitchOn`, `SwitchOff` | the control panel's Codec Demo Worker toggle |

**Outcomes** is what the two workflows promise to whoever starts one, with no codec,
worker, task or attempt in it: a workflow is begun, a payment's card is charged at
least once before it completes, it completes once and with the result of its own
order, or fails because its input cannot be read, and then nothing is ever charged.
CodecDemo implements it (`ImplementsOutcomes`): the order is what the workflow was
started with, its status is read off the history's stage, and the result is the data
of the history's last payload.

**MCCodecDemo** gives CodecDemo a number and the last four digits of it.

## Runs and bounds

| Run | Instance | Checks |
|---|---|---|
| `manager` | 2 requests, 2 timers, 2 runners, worker, codec-worker, 2 configurations; each fault once | `TypeOK`, `NoOrphanTimer`, `GuardedUnlessDisturbed`, `ImplementsControl`, `TTLAutoStopsUndisturbed` |
| `manager_restart` | 1 request, one restart | `TTLAutoStops` is violated |
| `manager_conflict` | 1 request, one status write | `TTLAutoStops` is violated |
| `manager_cutoff` | 2 requests, 2 timers | `NoEarlyCutoff` is violated |
| `pods` | 2 pods, up to 2 replicas, 2 templates, 2 changes, 1 crash, 1 failure, a kill and a stream | `TypeOK`, `KilledWhenOk`, `StatusSettles`, `StreamsSettle` |
| `panel` | the runner's panel, 2 slots of each kind, 2 clicks, 1 change elsewhere, 1 failure | `TypeOK`, `OneStream`, `PaneOfOneCluster`, `StaysRight`, `Converges` |
| `panel_stale` | the runner's and the codec's panel, 1 click | `LockedWhileRunning` is violated |
| `launch` | 4 turns, typed values blank, -1, 0, 1, 7 and one more than the largest int; nine requests past the page | `TypeOK`, `KnobsHonoured`, `Dispatches`, `PageAccepted` |
| `bringup` | the whole script, 2 attempts, 1 failed command, 1 break, 1 restart | `TypeOK`, `HealthyWhenDone`, `RegisteredWhenDone`, `Resumable` |
| `bringup_attributes` | 1 failed command | `AttributesWhenDone` is violated |
| `bringup_namespaces` | nothing fails | `WorkshopOnBothClusters` is violated |
| `codec` | 2 workflows of either kind and number, inputs plain, sealed or foreign; each fault once | `TypeOK`, `NothingInTheClear`, `HistoriesReadable`, `ResultsRight`, `ImplementsOutcomes`, `Completes` |

Why these are enough to meet the interesting cases. In `Manager`, a lost update
or a misplaced timer takes two callers and, for a timer that expired too late to
be stopped, the callback as a third: two requests and two timers are four callers.
That a third request makes no difference to the safety properties and the
refinement is what the proofs say, for any number.
All workload kinds are there because the abstract specification has them. One run
asks both safety and liveness, as the same instance answers both.

In `Pods`, two pods are a rollover, or a kill whose second pod is spared when the
first fails; two changes are a start and a reconfiguration or stop at any point of a
kill, a stream or a rollout; a status that ends up wrong takes one of each. The
rolling update's 25% surge and unavailability round to 1 and 0 up to three
replicas, which is what `CreatePod` and `DeletePod` say. In `ControlPanel` the
panels share nothing but the selected cluster, so `panel` has one, with every kind of
control; two slots let an old answer overtake a newer one, and two clicks are a
switch of cluster with a toggle in flight or two toggles of which the first clears
the busy flag. The codec's panel has the same handlers without stream and kill
button, so that `panel` shows no less than a run of its own would; that panels do not
disturb each other is part of what is proved for any number of them. In `Launch`, four turns reach every mode and scenario
with any two numbers changed, and starts do not use up turns, so forms follow
each other in any order; -1, 0, 1, 7, 51 and blank stand on both sides of every test, as the instance's
largest int is 50.
In `Bringup` a budget is spent anywhere, so each single failure, break and restart is
met at every point of the script, and at every point of the run after it;
`MaxAttempts` (10 in the script) only needs a last attempt and one before. In
`CodecDemo` a workflow's payloads are its own, so two are enough to confuse their
results; two faults of different kinds meet at any point of an activity, and one
timeout leaves an execution astray beside the attempt that replaces it.

Deadlock checking is off in `Manager`, `Pods`, `Bringup` and `CodecDemo`: every
request may have been answered, the last pod may be in place, a script that has
finished is done, and so are workflows. The page and the form never stop.

`Manager`, `Pods`, `ControlPanel` and `Bringup` are small enough in their bounds to
be their own model-checking modules.

## Fairness

- `Manager`: weak fairness for each goroutine's next step (the Go scheduler) and
  for each armed timer (the runtime). Requests and faults are not fair: nobody has
  to click and nothing has to fail. With this, a runner is auto-stopped unless one
  of the four faults that take its auto-stop away comes in between
  (`TTLAutoStopsUndisturbed`); without the exception, `TTLAutoStops` is violated by a restart, or by one status update.
- `Pods`: weak fairness for what Kubernetes does with each pod and for its status
  writes, for the wrapper's `wait`, for the steps of a kill and of a log request,
  and for an EventSource's reconnecting. Nobody has to start, stop, kill or watch;
  crashes and failures are finitely many.
- `ControlPanel`: weak fairness for the poll timer, for the server's answer to
  each request, and for each handler once its answer is there. Failures are
  bounded, so some polls succeed.
- `Bringup`: weak fairness for the script's commands, for the participant who runs
  a script that failed again, for each service that can recover, and for the
  namespace cache. A wait for something that can come up times out only by
  spending the failure budget; otherwise timeouts are free.
- `CodecDemo`: weak fairness for the dial loop and its sleep, for the frontend
  coming back, for the tasks of each workflow, and for the timeout of a task whose
  worker is gone. Nobody has to start a workflow or turn the worker on, and a
  timeout of a task that is merely slow is a fault. `Completes` only exempts a worker
  that is left switched off: one that is switched off in the middle of an activity
  and on again has to finish what it found.

`Launch` has no liveness: nothing in it has to happen.

## Proofs

Eight modules hold proofs, checked by TLAPS for every value of the constants, from
the assumptions declared in `Workload`, `Manager`, `Pods`, `ControlPanel`,
`Bringup`, `RunnerConfig`, `Launch`, `Codec` and `CodecDemo`: callers, workloads,
seals and null values are distinct, the codec-worker's cluster is one of the
clusters, what users type are integers, bounds and the largest int are naturals.

- `ManagerProofs`: `TypeCorrect`, `TimersTracked`, `RunnersGuarded` are `Manager`'s
  `TypeOK`, `NoOrphanTimer` and `GuardedUnlessDisturbed`. None is inductive. `IInv`
  (in `Manager.tla`) adds where each goroutine may be (`CallsInv`), that an absent
  Deployment says nothing (`AbsentInv`), that what was read is either current or
  has a smaller version (`SnapshotInv`), that `runnerTimers` holds armed timers of
  its own runner (`TimersInv`), and, for an undisturbed running runner without a
  pending timer, which goroutine still guarantees a stop (`GuardInv`): a
  start that has yet to arm, an expired timer's callback that has yet to write, or
  a stop whose write is not refused as things stand. Which faults undo a guard
  (`DisturbEffect`, `FaultGuards`) is what `disturbed` records. The proof takes each action
  in turn, and under it each part of `IInv` the action can disturb.
- `ManagerRefinement`: `Implementation` is `Spec => ImplementsControl`, by the
  refinement mapping `desired <- Says`, `phase <- Phase`. A goroutine up to its
  write is "open"; a given-up write is "abandoned" only while its version is
  current. The heart is `SnapshotInv`: a write that is accepted was computed from
  what the Deployment still says, so it is the abstract, atomic change; any other
  change moves the version and so supersedes all given-up writes. A status update
  does too, with nothing desired changed: that is `Supersede`; and the manifests
  applied again are `BringUp`.
- `PodsProofs`: `PodsTypes`, and `KillsAreThorough` for `KilledWhenOk`. The
  invariant `SparedIsToDo` says that what a kill has spared so far is among what
  it has still to signal; a pod that leaves the list of pods, crashes or is killed
  by another request is no longer spared, and one created since was never listed.
  `RestTellsTheTruth` is the safety half of `StatusSettles` and `StreamsSettle`: when
  Kubernetes has nothing left to do (`AtRest`), the status is what the pods do and
  every followed pod is one of the present configuration. It takes counting
  (`RestIsCurrent`: a pod of an old template is one too many, or leaves a new one to
  be created) and that a stream only follows a container that is there
  (`FollowsOpen`, inductive). That rest is reached is the liveness left to TLC.
- `ControlPanelProofs`: `PanelTypes`, `StreamsFollowSelector`,
  `PanesFollowSelector` are `TypeOK`, `OneStream` and `PaneOfOneCluster`, inductive
  together. `TypeOK` needs `OneStream` for the number of open streams not to go
  below zero; `OneStream` holds although answers are about any cluster, because
  `openLogStream` looks at the cluster selected by then. `TruthIsStable` is the
  action property `StaysRight`, the safety half of `Converges`: a panel that tells the
  truth (`Agrees`) with nothing outdated on its way to it (`Calm`) goes on doing so
  until its user or someone else acts on it. `Agrees` and `Calm` are inductive
  together, given `TypeOK`; `AnswerIsTrue` is the case that matters.
- `LaunchProofs`: `LaunchTypes`, `FormsAreHonoured`, `EveryRunnerDispatches` and
  `PageFormsAccepted`, for all integers typed or sent and whatever omes' default
  is. The invariant says which configuration the command was made from
  (`MadeFrom`) and that what was refused is refused by `Accepted` (`Refused`); the
  rest is computation, a lemma per representation: `ConfigType`, `CommandType`,
  `ExamplesDo` (both tables do what the labels say), `FormAccepted`, `FormHonoured`.
- `BringupProofs`: `BringupTypes`, and `SuccessIsTrue` for `HealthyWhenDone`. The
  invariant `Settled` says that, while the script runs, a service no later call is
  about is up or broke since the start; that every service is verified after it
  was last taken down follows from `Program` (`EnsuredIsVerified`), but for MinIO,
  whose rollout is waited for. `NothingIsForgotten` is `RegisteredWhenDone`, by
  `RegisterInv`: the calls the script has passed have left their registrations
  (`Passed`); `OmesExecutionID`, which later runs look for, never comes without
  `KS_Keyword`, nor without `KS_Int` but between the two commands or after a mishap
  (`Half`); and cluster-1, verified before, is only down by then if it broke
  (`DownIsMishap`, from `Settled`).
- `CodecDemoProofs`: `CodecTypes`, `WorkerSealsAll`, `ResultsAreRight` and
  `HistoriesAreShown` are `TypeOK`, `NothingInTheClear`, `ResultsRight` and
  `HistoriesReadable`; the invariant ties each payload of a history to the number it
  was started with (`Contents`) and the history's stage to the activity's attempt,
  the executions astray and the charge (`Progress`). That a history is shown needs
  that only its input may be foreign (`Openable`), and about batches of any length
  `RoundTrip`, `MixedBatchesOpen` and `OneForeignSealRefusesAll`.
- `CodecDemoRefinement`: `PromisesAreKept` is `Spec => ImplementsOutcomes`. A step
  about one workflow leaves the others as they stand (`OneStands`); past its input a
  payment's input is one that opens, so its status stays "open" while tasks are lost,
  retried and answered late; a payment that is charged, by an attempt or by one
  astray, is one that has not failed and never will.

Only model-checked: the liveness properties (`TTLAutoStopsUndisturbed`,
`StatusSettles`, `StreamsSettle`, `Converges`, `Resumable`, `Completes`), which the
provers do not reach. Every invariant, action property and refinement that a passing
run checks is also a theorem.

## What the checks found

1. `manager_restart`: auto-stop timers are only in memory. A runner that was
   running when the process restarts (every `start.sh` does that) runs for ever.
2. `manager_conflict`: `StopRunner` disarms first. If the stop then fails, e.g.
   with a conflict because the status moved between `Get` and `Update`, the
   callback logs it and nobody tries again.
3. `manager_cutoff`: the callback of a timer that expired just before a restart of
   the runner does not check that it is still the current one; it disarms the new
   timer and stops the fresh runner.
4. `panel_stale`: an answer about the cluster that was left is applied to the panel
   of the one now selected, after it had been told better; for up to a poll, a
   running runner's knobs are unlocked.
5. `bringup_attributes`: if only the second search-attribute command fails, no
   later run ever registers `KS_Int`.
6. `bringup_namespaces`: the workshop namespace is registered on cluster-1 only,
   though manager.go says it must exist on both.

Four more that no run refutes, met while modelling. A kill's exec that is severed by
its own effect is called expected (manager.go:369-370) and returned as a failure,
and the loop stops there: `KilledWhenOk` holds because such a kill is not answered
with success, and says nothing of the pods a failed kill leaves alone. A start whose
write lands after its error was answered may leave a runner that no timer will stop
(`LateWrite`; manager.go:584 returns before `armRunnerTTL`): the fourth way in which
`TTLAutoStops` fails, and one of those `GuardedUnlessDisturbed` exempts. A number
typed with an exponent, which a number field accepts, is read by `parseInt` up to the
"e" (app.js:98, 108-112): a depth of "1e5" starts a runner of depth 1. And two
comments in `handlers.go` are out of date: lines 30 and 153
say that the Worker's start takes no config (`startWorker` decodes an instance
count), and line 189 that kill force-restarts the pod (it signals the process and
leaves the pod).

What holds, against first suspicion: no update is lost and no late write undoes
anything, under any fault; hidden knobs never reach a runner; a `verify_*` order
that looks fragile is right; a crash between charge and answer costs a second
charge, never a wrong or missing result.

## What is not modelled

- Scripts of one command (`start-worker.sh`, `start-benchmark.sh`,
  `setup-benchmark.sh`), images, charts, manifests, dashboards and documents.
- In `Manager`: the contents of pod templates (model values; `RunnerConfig` has the
  runner's).
- In `Pods`: `CreatePod` and `DeletePod` know one ReplicaSet per template and no
  back-off; a log request that fails between the choice of a pod and its stream is
  a stream that has ended; what lines say, so that a reconnected stream's replay of
  the log is not a duplicate.
- In `ControlPanel`: a reconnecting EventSource (it replays the same cluster's log,
  which a pane as a set of clusters cannot tell) and the knobs other than their lock.
- In `RunnerConfig`: fixed flags, environment variables and addresses; fractions of
  a number field other than the rate's tenths, numbers written with an exponent (see
  above) and the rounding of whole numbers beyond 2^53, which JavaScript's numbers do
  not tell apart: `NumberOf` takes what is typed as its value; what omes and benchmark-workers do
  with their options beyond reading them. The page lets fan-out's two numbers be 0
  (`min="0"`, index.html:101 and 104), which RunnerConfig (manager.go:129-135) takes
  as "omes' default": `Promised` says what manager.go says. The worker's number of
  instances is in Manager (`StartWorker`).
- In `Bringup`: what commands print and the two service checks' thresholds.
- In `Codec`: nonces, ciphertexts and tags; Encode's own failures (a proto that does
  not marshal, no entropy); a missing or malformed key, which ends both programs at
  their start; the server's failing to write a reply.
- In `CodecDemo`: the activity's two arguments are one payload; amounts, names and
  other fields; identifiers made from the last four digits, which two customers may
  share; a cancelled or terminated workflow. That a card is charged at most once is
  promised nowhere, and does not hold.

## Plan

Done: Workload, WorkloadControl, Manager; Pods; ControlPanel; RunnerConfig, Launch;
Bringup; Codec, Outcomes, CodecDemo; each with its runs and proofs.

What would add most next: an abstract specification of the control panel's view of
several participants' pages (each is one `ControlPanel` with `Elsewhere` standing
for the others), and Bringup composed with Manager in one instance, which today meet
only in `Restart` and `ApplyManifests`.
