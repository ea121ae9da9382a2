------------------------------ MODULE Manager ------------------------------
(***************************************************************************)
(* The k8s.Manager of worker-control-ui and the HTTP handlers that call    *)
(* it: start, stop and scale of the worker, runner and codec-worker        *)
(* Deployments, and the in-memory timers that stop a runner some time      *)
(* after it was last started.                                              *)
(*                                                                         *)
(* Every operation reads a Deployment, then writes it back with the        *)
(* resourceVersion it read; the API server refuses the write if the        *)
(* version has moved. Requests and timer callbacks interleave at these     *)
(* calls and at the critical sections of runnerTimersMu. Kubernetes'       *)
(* deployment controller writes a Deployment's status, start.sh applies    *)
(* the codec worker's manifest again, calls to the API server fail (before *)
(* or after taking effect), and the process restarts.                      *)
(*                                                                         *)
(* Time is abstracted to order: a pending timer may expire at any moment.  *)
(***************************************************************************)
EXTENDS Workload, FiniteSets

CONSTANTS
    MaxOutsideWrites, \* bound on writes to Deployments by anyone else
    MaxApiFailures,   \* bound on failed calls to the API server
    MaxRestarts       \* bound on restarts of the process

ASSUME BudgetsAreNat ==
    MaxOutsideWrites \in Nat /\ MaxApiFailures \in Nat /\ MaxRestarts \in Nat

VARIABLES
    deployment,    \* the Deployments in the API server
    runnerTimers,  \* Manager.runnerTimers: each runner's pending auto-stop
    timer,         \* the Go timers, in or out of that map
    pc,            \* where each caller's goroutine is
    call,          \* the operation it executes
    seen,          \* the Deployment its Get returned
    budget,        \* how many more faults may happen
    disturbed      \* (history) runners whose auto-stop a fault took away

vars ==
    <<deployment, runnerTimers, timer, pc, call, seen, budget, disturbed>>

-----------------------------------------------------------------------------
(* State.                                                                  *)

(* A Deployment object; version 0 says there is none of that name.         *)
Deployments == [version: Nat, says: Desired]

Absent == [version |-> 0, says |-> Nothing]

TimerStates == {"unset", "pending", "stopped", "expired"}

(* Where a goroutine is: about to disarm the timer, to Get, to write what  *)
(* it read back, to act on the write's reply, to arm the timer. The last   *)
(* four are ends; an abandoned call has been answered with an error while  *)
(* its write is still on its way to the API server.                        *)
Locations ==
    {"idle", "disarm", "get", "write", "written", "arm",
     "ok", "failed", "abandoned"}

Faults == {"outside write", "API failure", "restart"}

(* NewManager starts with no timers whatever runs in the cluster; start.sh *)
(* creates codec-worker with no replicas (or has not run yet).             *)
Init ==
    /\ \E v \in {0, 1}:
          deployment = [w \in Workloads |->
                           IF w = CodecWorker
                           THEN [version |-> v, says |-> Nothing] ELSE Absent]
    /\ runnerTimers = [w \in Runners |-> NoTimer]
    /\ timer = [x \in Timers |-> [state |-> "unset", runner |-> CodecWorker]]
    /\ pc = [t \in Callers |-> "idle"]
    /\ call = [t \in Callers |-> NoCall]
    /\ seen = [t \in Callers |-> Absent]
    /\ budget = [f \in Faults |->
                    CASE f = "outside write" -> MaxOutsideWrites
                      [] f = "API failure"  -> MaxApiFailures
                      [] f = "restart"      -> MaxRestarts]
    /\ disturbed = [w \in Runners |-> FALSE]

-----------------------------------------------------------------------------
(* Helpers.                                                                *)

Goto(t, l) == pc' = [pc EXCEPT ![t] = l]

(* The goroutine ends; what it had read is garbage.                        *)
Finish(t, l) == Goto(t, l) /\ seen' = [seen EXCEPT ![t] = Absent]

Begin(t, l, c) ==
    /\ pc[t] = "idle"
    /\ Goto(t, l)
    /\ call' = [call EXCEPT ![t] = c]
    /\ UNCHANGED <<deployment, runnerTimers, timer, seen, budget, disturbed>>

(* The history variable records that a fault takes w's auto-stop away.     *)
Disturb(w) == disturbed' = [u \in Runners |-> disturbed[u] \/ u = w]

DisturbIf(taken, w) == IF taken THEN Disturb(w) ELSE UNCHANGED disturbed

Spend(f) == budget[f] > 0 /\ budget' = [budget EXCEPT ![f] = @ - 1]

(* The object after a write: an update that changes nothing does not move  *)
(* the version.                                                            *)
Put(d, says) ==
    IF d.version > 0 /\ d.says = says
    THEN d ELSE [version |-> d.version + 1, says |-> says]

(* The object after its status was updated.                                *)
Touch(d) == [version |-> d.version + 1, says |-> d.says]

RunningState(w) == deployment[w].says.replicas > 0

-----------------------------------------------------------------------------
(* HTTP requests. A request that names no known cluster, does not decode,  *)
(* or asks for less than one instance or an unknown runner configuration   *)
(* is answered before anything is read.                                    *)

RejectRequest(r) ==
    /\ pc[r] = "idle"
    /\ Finish(r, "failed")
    /\ UNCHANGED <<deployment, runnerTimers, timer, call, budget, disturbed>>

(* Mutant: counts the default on top of what was asked for.                *)
StartWorkerOneMore(r, w, n) ==
    Begin(r, "get", StartCall(w, [replicas |-> n + 1, template |-> Fixed]))

(* No instance count, or zero, means one.                                  *)
StartWorker(r, w, n) ==
    Begin(r, "get",
          StartCall(w, [replicas |-> IF n = 0 THEN 1 ELSE n, template |-> Fixed]))

StopWorker(r, w) == Begin(r, "get", StopCall(w))

StartRunner(r, w, k) ==
    Begin(r, "get", StartCall(w, [replicas |-> 1, template |-> k]))

StopRunner(t, w) == Begin(t, "disarm", StopCall(w))

CodecWorkerStart(r) == Begin(r, "get", ScaleCall(CodecWorker))

CodecWorkerStop(r) == Begin(r, "get", StopCall(CodecWorker))

-----------------------------------------------------------------------------
(* Manager.start, stop and scale.                                          *)

Get(t) ==
    LET d == deployment[call[t].on]
    IN  /\ pc[t] = "get"
        /\ d.version > 0 \/ call[t].op = "start"
        /\ seen' = [seen EXCEPT ![t] = d]
        /\ Goto(t, "write")
        /\ UNCHANGED <<deployment, runnerTimers, timer, call, budget, disturbed>>

(* Stopping what was never started succeeds, scaling it is an error.       *)
NotFound(t) ==
    /\ pc[t] = "get"
    /\ deployment[call[t].on].version = 0
    /\ call[t].op # "start"
    /\ Finish(t, IF call[t].op = "stop" THEN "ok" ELSE "failed")
    /\ UNCHANGED <<deployment, runnerTimers, timer, call, budget, disturbed>>

(* The API server accepts a write of what t read, changed as t's call      *)
(* asks, only if the object is still the one t read. A start that found no *)
(* Deployment creates one, which fails if there is one by now.             *)
Unmoved(t) == deployment[call[t].on].version = seen[t].version

(* Mutant: the write carries no resourceVersion.                           *)
StoreBlindly(t) ==
    deployment' =
        [deployment EXCEPT ![call[t].on] =
            Put(@, Effect(call[t], seen[t].says))]

Store(t) ==
    /\ Unmoved(t)
    /\ deployment' =
          [deployment EXCEPT ![call[t].on] =
              Put(@, Effect(call[t], seen[t].says))]

Write(t) ==
    /\ pc[t] = "write"
    /\ Store(t)
    /\ Finish(t, "written")
    /\ UNCHANGED <<runnerTimers, timer, call, budget, disturbed>>

(* 409 Conflict or AlreadyExists: returned to the caller, never retried.   *)
WriteRefused(t) ==
    /\ pc[t] = "write"
    /\ ~Unmoved(t)
    /\ Finish(t, "failed")
    /\ UNCHANGED <<deployment, runnerTimers, timer, call, budget, disturbed>>

(* StartRunner goes on to arm the timer; everything else has succeeded.    *)
Written(t) ==
    /\ pc[t] = "written"
    /\ Goto(t, IF call[t].op = "start" /\ call[t].on \in Runners
               THEN "arm" ELSE "ok")
    /\ UNCHANGED <<deployment, runnerTimers, timer, call, seen, budget, disturbed>>

-----------------------------------------------------------------------------
(* The auto-stop timers. Both critical sections of runnerTimersMu are one  *)
(* step; Timer.Stop has no effect on a timer that has expired.             *)

StopTimer(w) ==
    [x \in Timers |->
        IF x = runnerTimers[w] /\ timer[x].state = "pending"
        THEN [timer[x] EXCEPT !.state = "stopped"] ELSE timer[x]]

(* Mutant: the timer that is replaced is not stopped.                      *)
ArmRunnerTTLOnTop(t, x) ==
    LET w == call[t].on
    IN  /\ pc[t] = "arm"
        /\ timer[x].state = "unset"
        /\ timer' = [timer EXCEPT ![x] = [state |-> "pending", runner |-> w]]
        /\ runnerTimers' = [runnerTimers EXCEPT ![w] = x]
        /\ disturbed' = [disturbed EXCEPT ![w] = FALSE]
        /\ Goto(t, "ok")
        /\ UNCHANGED <<deployment, call, seen, budget>>

(* Mutant: the old timer is stopped and only then, if there was none, a    *)
(* new one is made.                                                        *)
ArmRunnerTTLOrStop(t, x) ==
    LET w == call[t].on
    IN  /\ pc[t] = "arm"
        /\ timer[x].state = "unset"
        /\ IF runnerTimers[w] = NoTimer
           THEN /\ timer' = [timer EXCEPT ![x] = [state |-> "pending", runner |-> w]]
                /\ runnerTimers' = [runnerTimers EXCEPT ![w] = x]
           ELSE timer' = StopTimer(w) /\ UNCHANGED runnerTimers
        /\ disturbed' = [disturbed EXCEPT ![w] = FALSE]
        /\ Goto(t, "ok")
        /\ UNCHANGED <<deployment, call, seen, budget>>

ArmRunnerTTL(t, x) ==
    LET w == call[t].on
    IN  /\ pc[t] = "arm"
        /\ timer[x].state = "unset"
        /\ timer' = [StopTimer(w) EXCEPT ![x] = [state |-> "pending", runner |-> w]]
        /\ runnerTimers' = [runnerTimers EXCEPT ![w] = x]
        /\ disturbed' = [disturbed EXCEPT ![w] = FALSE]
        /\ Goto(t, "ok")
        /\ UNCHANGED <<deployment, call, seen, budget>>

(* Mutant: a callback runs with runnerTimersMu held, and waits for it.     *)
DisarmRunnerTTLLocked(t) ==
    LET w == call[t].on
    IN  /\ pc[t] = "disarm"
        /\ t \notin Timers
        /\ timer' = StopTimer(w)
        /\ runnerTimers' = [runnerTimers EXCEPT ![w] = NoTimer]
        /\ Goto(t, "get")
        /\ UNCHANGED <<deployment, call, seen, budget, disturbed>>

DisarmRunnerTTL(t) ==
    LET w == call[t].on
    IN  /\ pc[t] = "disarm"
        /\ timer' = StopTimer(w)
        /\ runnerTimers' = [runnerTimers EXCEPT ![w] = NoTimer]
        /\ Goto(t, "get")
        /\ UNCHANGED <<deployment, call, seen, budget, disturbed>>

(* The timer expires; its callback, a goroutine of its own, calls          *)
(* StopRunner and only logs an error. The entry stays in runnerTimers      *)
(* until the callback disarms.                                             *)
Expire(x) ==
    /\ timer[x].state = "pending"
    /\ timer' = [timer EXCEPT ![x].state = "expired"]
    /\ pc[x] = "idle"
    /\ Goto(x, "disarm")
    /\ call' = [call EXCEPT ![x] = StopCall(timer[x].runner)]
    /\ UNCHANGED <<deployment, runnerTimers, seen, budget, disturbed>>

-----------------------------------------------------------------------------
(* Faults.                                                                 *)

(* A call to the API server fails, or the client goes away and r.Context() *)
(* is cancelled. A failed write may have reached the server. A stop that   *)
(* fails has disarmed its runner already; a start that fails leaves the    *)
(* runner to the timer it has.                                             *)
ApiFailure(t) ==
    /\ Spend("API failure")
    /\ \/ pc[t] = "get" /\ Finish(t, "failed")
       \/ pc[t] = "write" /\ Goto(t, "abandoned") /\ UNCHANGED seen
    /\ DisturbIf(call[t].op = "stop", call[t].on)
    /\ UNCHANGED <<deployment, runnerTimers, timer, call>>

(* The write of a call that was answered with an error lands. Nobody arms  *)
(* the runner that starts that way.                                        *)
LateWrite(t) ==
    /\ pc[t] = "abandoned"
    /\ Store(t)
    /\ Finish(t, "failed")
    /\ DisturbIf(call[t].op = "start", call[t].on)
    /\ UNCHANGED <<runnerTimers, timer, call, budget>>

(* A stop of w is between its Get and its Update, which succeeds unless w  *)
(* is moved in between.                                                    *)
StopUnderWay(w) ==
    \E t \in Callers:
        pc[t] = "write" /\ call[t].op = "stop" /\ call[t].on = w /\ Unmoved(t)

(* The deployment controller updates the status of w's Deployment, as it   *)
(* does after every start.                                                 *)
StatusWrite(w) ==
    /\ Spend("outside write")
    /\ deployment[w].version > 0
    /\ deployment' = [deployment EXCEPT ![w] = Touch(@)]
    /\ DisturbIf(StopUnderWay(w), w)
    /\ UNCHANGED <<runnerTimers, timer, pc, call, seen>>

(* start.sh runs again and applies codec-demo/manifests.yaml, which pins   *)
(* codec-worker at no replicas; an apply that changes nothing is no step.  *)
ApplyManifests ==
    LET d == deployment[CodecWorker]
    IN  /\ Spend("outside write")
        /\ d.version = 0 \/ d.says.replicas > 0
        /\ deployment' =
              [deployment EXCEPT ![CodecWorker] =
                  [version |-> d.version + 1, says |-> [d.says EXCEPT !.replicas = 0]]]
        /\ UNCHANGED <<runnerTimers, timer, pc, call, seen, disturbed>>

(* The process ends and a new one starts: goroutines and timers are gone,  *)
(* and a write that was sent may still land.                               *)
Restart ==
    /\ Spend("restart")
    /\ pc' = [t \in Callers |->
                 CASE pc[t] = "write" -> "abandoned"
                   [] pc[t] \in {"disarm", "get", "written", "arm"} -> "failed"
                   [] OTHER -> pc[t]]
    /\ timer' = [x \in Timers |->
                    IF timer[x].state = "pending"
                    THEN [timer[x] EXCEPT !.state = "stopped"] ELSE timer[x]]
    /\ runnerTimers' = [w \in Runners |-> NoTimer]
    /\ disturbed' = [w \in Runners |-> TRUE]
    /\ UNCHANGED <<deployment, call, seen>>

-----------------------------------------------------------------------------
Request(r) ==
    \/ RejectRequest(r)
    \/ \E w \in Workers:
          \/ \E n \in 0..MaxInstances: StartWorker(r, w, n)
          \/ StopWorker(r, w)
    \/ \E w \in Runners:
          \/ \E k \in Configs: StartRunner(r, w, k)
          \/ StopRunner(r, w)
    \/ CodecWorkerStart(r)
    \/ CodecWorkerStop(r)

(* What a goroutine does next, given that it is scheduled.                 *)
Step(t) ==
    \/ Get(t)
    \/ NotFound(t)
    \/ Write(t)
    \/ WriteRefused(t)
    \/ Written(t)
    \/ \E x \in Timers: ArmRunnerTTL(t, x)
    \/ DisarmRunnerTTL(t)

Fault ==
    \/ \E t \in Callers: ApiFailure(t) \/ LateWrite(t)
    \/ \E w \in Workloads: StatusWrite(w)
    \/ ApplyManifests
    \/ Restart

Next ==
    \/ \E r \in Requests: Request(r)
    \/ \E t \in Callers: Step(t)
    \/ \E x \in Timers: Expire(x)
    \/ Fault

Spec == Init /\ [][Next]_vars

(* The Go scheduler runs every runnable goroutine and the runtime fires    *)
(* every timer that is still armed. Nothing obliges a participant to send  *)
(* a request, or a fault to happen.                                        *)
Fairness ==
    /\ \A t \in Callers: WF_vars(Step(t))
    /\ \A x \in Timers: WF_vars(Expire(x))

FairSpec == Spec /\ Fairness

-----------------------------------------------------------------------------
(* Properties.                                                             *)

(* The variables have their types: in particular no Deployment is ever     *)
(* asked for more instances than some request asked for.                   *)
TypeOK ==
    /\ deployment \in [Workloads -> Deployments]
    /\ runnerTimers \in [Runners -> Timers \cup {NoTimer}]
    /\ timer \in [Timers -> [state: TimerStates, runner: Workloads]]
    /\ pc \in [Callers -> Locations]
    /\ call \in [Callers -> Calls]
    /\ seen \in [Callers -> Deployments]
    /\ budget \in [Faults -> Nat]
    /\ disturbed \in [Runners -> BOOLEAN]

(* The replacing and deleting in armRunnerTTL and disarmRunnerTTL leave no *)
(* timer behind: a timer that can still expire is the one runnerTimers     *)
(* holds for its runner, so a runner never has two, and Stop always finds  *)
(* the one there is.                                                       *)
NoOrphanTimer ==
    \A x \in Timers:
        timer[x].state = "pending" =>
            /\ timer[x].runner \in Runners
            /\ runnerTimers[timer[x].runner] = x

(* What runnerTTL is for, at every moment: a runner that runs has an       *)
(* auto-stop pending, unless a call about it is in progress (a start on    *)
(* its way to armRunnerTTL, or a stop), or one of four faults has taken it *)
(* away since it was armed: a stop that failed, one that was refused       *)
(* because of a status update, a start that landed after it had been       *)
(* answered with an error, or a restart of the process.                    *)
InProgress(w) ==
    \E t \in Callers:
        call[t].on = w /\ pc[t] \in {"disarm", "get", "write", "written", "arm"}

Armed(w) == \E x \in Timers: timer[x].state = "pending" /\ runnerTimers[w] = x

GuardedUnlessDisturbed ==
    \A w \in Runners:
        RunningState(w) /\ ~disturbed[w] /\ ~InProgress(w) => Armed(w)

(* A write that was given up on can still land if nothing has moved the    *)
(* Deployment since.                                                       *)
CanLand(t) == pc[t] = "abandoned" /\ Unmoved(t)

Says == [w \in Workloads |-> deployment[w].says]

Phase ==
    [t \in Callers |->
        IF pc[t] \in {"disarm", "get", "write"} THEN "open"
        ELSE IF pc[t] \in {"written", "arm"} THEN "applied"
        ELSE IF pc[t] = "abandoned" /\ ~CanLand(t) THEN "failed"
        ELSE pc[t]]

Control == INSTANCE WorkloadControl WITH
    desired <- Says, phase <- Phase, request <- call

(* Reading, then writing with the version that was read, amounts to one    *)
(* atomic change per successful call, made on what the workload says at    *)
(* that moment; and a write that lands after its error was returned never  *)
(* undoes a change made in the meantime.                                   *)
ImplementsControl == Control!Spec

(* runnerTTL "auto-stops a Runner this long after it's (re)started, even   *)
(* if nobody ever flips its switch off" (manager.go:70-75).                *)
TTLAutoStops == \A w \in Runners: RunningState(w) ~> ~RunningState(w)

(* What of it holds under faults: a runner that runs is stopped, or one of *)
(* the four faults that take its auto-stop away has come in between.       *)
TTLAutoStopsUndisturbed ==
    \A w \in Runners:
        RunningState(w) /\ ~disturbed[w] ~> ~RunningState(w) \/ disturbed[w]

(* The expired auto-stop of an earlier start does not take away the timer  *)
(* of a runner that has been started again (and then stop it): a pending   *)
(* timer is replaced "so a reconfigure doesn't cut a freshly-started       *)
(* Runner off early" (manager.go:596-598).                                 *)
NoEarlyCutoff ==
    [][\A x \in Timers:
          DisarmRunnerTTL(x) =>
              \A y \in Timers: timer[y].state = "pending" =>
                                   timer[y].runner # call[x].on]_vars

-----------------------------------------------------------------------------
(* The inductive invariant behind the safety properties.                   *)

Active == {"get", "write", "written"}

(* A goroutine is only where its operation takes it.                       *)
CallsInv ==
    \A t \in Callers:
        /\ pc[t] = "disarm" => call[t].op = "stop" /\ call[t].on \in Runners
        /\ pc[t] = "arm" => call[t].op = "start" /\ call[t].on \in Runners
        /\ call[t].op = "start" => call[t].want.replicas > 0
        /\ call[t].op = "stop" => call[t].want.replicas = 0
        /\ call[t].op = "scale" => call[t].on = CodecWorker
        /\ pc[t] \in Active \cup {"abandoned"} => call[t].op # "none"
        /\ pc[t] = "idle" => call[t] = NoCall

(* There is no Deployment object that says nothing was ever created.       *)
AbsentInv ==
    \A w \in Workloads: deployment[w].version = 0 => deployment[w].says = Nothing

(* What was read is either what the API server still has, or has a smaller *)
(* version: versions are never used again. Only a start writes to what was *)
(* not there.                                                              *)
SnapshotInv ==
    \A t \in Callers:
        pc[t] \in {"write", "abandoned"} =>
            LET d == deployment[call[t].on]
            IN  /\ call[t].op # "start" => seen[t].version > 0
                /\ seen[t].version <= d.version
                /\ seen[t].version = d.version => seen[t].says = d.says

(* runnerTimers holds timers of its own runner only, already armed.        *)
TimersInv ==
    /\ \A w \in Runners:
          runnerTimers[w] # NoTimer =>
              /\ timer[runnerTimers[w]].runner = w
              /\ timer[runnerTimers[w]].state # "unset"
    /\ NoOrphanTimer

(* Who guarantees that runner w will be stopped.                           *)
Guards(t, w) ==
    /\ call[t].on = w
    /\ \/ pc[t] \in {"written", "arm"} /\ call[t].op = "start"
       \/ pc[t] = "disarm" /\ t \in Timers
       \/ pc[t] = "get" /\ call[t].op = "stop"
       \/ pc[t] = "write" /\ call[t].op = "stop" /\ Unmoved(t)

GuardInv ==
    \A w \in Runners:
        RunningState(w) /\ ~disturbed[w] =>
            Armed(w) \/ \E t \in Callers: Guards(t, w)

IInv ==
    /\ TypeOK
    /\ CallsInv
    /\ AbsentInv
    /\ SnapshotInv
    /\ TimersInv
    /\ GuardInv
=============================================================================
