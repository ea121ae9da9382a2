-------------------------------- MODULE Pods --------------------------------
(***************************************************************************)
(* What worker-control-ui does with the pods of one workload: kill, status *)
(* and log streaming (worker-control-ui/internal/k8s/manager.go), against  *)
(* Kubernetes, which creates, restarts and removes those pods on its own.  *)
(*                                                                         *)
(* A kill lists the pods and then execs into each of them in turn; a log   *)
(* request polls for a pod and follows it until its stream ends, when the  *)
(* browser asks again; a status request reads the Deployment, whose status *)
(* the deployment controller writes some time after the fact. All of them  *)
(* run while participants start, reconfigure, scale and stop the workload. *)
(* That each of those changes the Spec at once is what WorkloadControl     *)
(* says of Manager.                                                        *)
(*                                                                         *)
(* Time is abstracted to order: the 30 s of waitForPod may be over as soon *)
(* as a poll has found nothing.                                            *)
(***************************************************************************)
EXTENDS Naturals, FiniteSets

CONSTANTS
    Kills,        \* kill requests, each handled once
    Streams,      \* EventSources of browsers
    Templates,    \* the pod templates a runner may be reconfigured to
    NoTemplate,   \* the template of a Deployment that was never created
    MaxPods,      \* bound on the pods created
    MaxReplicas,  \* bound on the instances a worker is started with
    MaxChanges,   \* bound on starts and stops
    MaxCrashes,   \* bound on binaries that end by themselves
    MaxFailures   \* bound on failed calls to the API server

ASSUME PodBoundsAreNat ==
    /\ MaxPods \in Nat /\ MaxReplicas \in Nat \ {0}
    /\ MaxChanges \in Nat /\ MaxCrashes \in Nat /\ MaxFailures \in Nat

ASSUME NoTemplateIsNull == NoTemplate \notin Templates

VARIABLES
    kind,    \* which workload this is
    spec,    \* Deployment.Spec: replicas and template
    ready,   \* Deployment.Status.ReadyReplicas
    pod,     \* the pods, numbered in the order of their creation
    kill,    \* the kill requests
    stream,  \* the log requests
    left     \* how much more may happen

vars == <<kind, spec, ready, pod, kill, stream, left>>

-----------------------------------------------------------------------------
Pods == 1..MaxPods

(* A runner has one replica and its configuration's template, a worker any *)
(* number of replicas of its only one.                                     *)
Specs == [replicas: 0..MaxReplicas, template: Templates \cup {NoTemplate}]

Wants ==
    {s \in Specs:
        /\ s.replicas > 0
        /\ s.template # NoTemplate
        /\ kind = "runner" => s.replicas = 1
        /\ kind = "worker" => s.template = CHOOSE t \in Templates: TRUE}

(* The container of a pod runs a shell (PID 1) and the binary, its child:  *)
(* "dying" is the shell alone, about to exit with the binary's status.     *)
(* born is the creation timestamp, which pods of the same second share.    *)
PodStates ==
    [phase: {"none", "pending", "started", "gone"},
     template: Templates \cup {NoTemplate},
     born: Nat,
     deleting: BOOLEAN,
     box: {"down", "up", "dying"}]

NoPod == [phase |-> "none", template |-> NoTemplate, born |-> 0,
          deleting |-> FALSE, box |-> "down"]

(* A kill between its List and its answer: the pods still to signal and    *)
(* the last one signalled. spared (history) are the pods whose process ran *)
(* when they were listed and has not ended since.                          *)
KillStates ==
    [at: {"idle", "exec", "sent", "ok", "failed"},
     todo: SUBSET Pods,
     on: Pods \cup {0},
     spared: SUBSET Pods]

NewKill == [at |-> "idle", todo |-> {}, on |-> 0, spared |-> {}]

(* A log request: looking for a pod, following one, at the end of its      *)
(* output; answered; and its EventSource closed.                           *)
StreamStates ==
    [at: {"none", "waiting", "following", "ended", "lost", "left"},
     on: Pods \cup {0}]

NewStream == [at |-> "none", on |-> 0]

Occasions == {"change", "crash", "failure"}

Init ==
    /\ kind \in {"worker", "runner"}
    /\ spec = [replicas |-> 0, template |-> NoTemplate]
    /\ ready = 0
    /\ pod = [p \in Pods |-> NoPod]
    /\ kill = [k \in Kills |-> NewKill]
    /\ stream = [s \in Streams |-> NewStream]
    /\ left = [o \in Occasions |->
                  CASE o = "change"  -> MaxChanges
                    [] o = "crash"   -> MaxCrashes
                    [] o = "failure" -> MaxFailures]

Use(o) == left[o] > 0 /\ left' = [left EXCEPT ![o] = @ - 1]

-----------------------------------------------------------------------------
(* What the API server lists, and what Kubernetes counts.                  *)

Listed == {p \in Pods: pod[p].phase \in {"pending", "started"}}

Live == {p \in Listed: ~pod[p].deleting}

Current == {p \in Live: pod[p].template = spec.template}

(* The containers have no readiness probe: ready is running.               *)
Ready == {p \in Live: pod[p].box # "down"}

(* Mutant: the ready replicas are looked at before the wanted ones.        *)
StatusOfReady ==
    IF ready > 0 THEN "running" ELSE "starting"

(* Manager.status: one Get, of the Spec and of the status written last.    *)
Status ==
    IF spec.replicas = 0 THEN "stopped"
    ELSE IF ready > 0 THEN "running"
    ELSE "starting"

-----------------------------------------------------------------------------
(* Participants, and Kubernetes: a rolling update that adds one pod before *)
(* it takes one away (25% of up to three replicas, rounded up and down),    *)
(* and the kubelet, which restarts containers where they are.              *)

Start ==
    /\ Use("change")
    /\ spec' \in Wants
    /\ UNCHANGED <<kind, ready, pod, kill, stream>>

(* Mutant: one instance less, whatever there is.                           *)
StopOne ==
    /\ Use("change")
    /\ spec' = [spec EXCEPT !.replicas = @ - 1]
    /\ UNCHANGED <<kind, ready, pod, kill, stream>>

Stop ==
    /\ Use("change")
    /\ spec' = [spec EXCEPT !.replicas = 0]
    /\ UNCHANGED <<kind, ready, pod, kill, stream>>

PodMissing ==
    /\ Cardinality(Current) < spec.replicas
    /\ Cardinality(Live) <= spec.replicas

Superfluous(p) ==
    /\ p \in Live
    /\ IF p \in Current
       THEN Cardinality(Current) > spec.replicas
       ELSE p \notin Ready \/ Cardinality(Ready \ {p}) >= spec.replicas

CreatePod(p) ==
    /\ pod[p].phase = "none"
    /\ \A q \in Pods: q < p => pod[q].phase # "none"
    /\ PodMissing
    /\ \E second \in {0, 1}:
          LET last == IF p = 1 THEN 0 ELSE pod[p - 1].born
          IN  pod' = [pod EXCEPT ![p] =
                         [phase |-> "pending", template |-> spec.template,
                          born |-> last + second, deleting |-> FALSE, box |-> "down"]]
    /\ UNCHANGED <<kind, spec, ready, kill, stream, left>>

DeletePod(p) ==
    /\ Superfluous(p)
    /\ pod' = [pod EXCEPT ![p].deleting = TRUE]
    /\ UNCHANGED <<kind, spec, ready, kill, stream, left>>

StatusWrite ==
    /\ ready # Cardinality(Ready)
    /\ ready' = Cardinality(Ready)
    /\ UNCHANGED <<kind, spec, pod, kill, stream, left>>

(* The kubelet starts the container of a new pod, or of a crashed one.     *)
StartContainer(p) ==
    /\ p \in Live
    /\ pod[p].box = "down"
    /\ pod' = [pod EXCEPT ![p].phase = "started", ![p].box = "up"]
    /\ UNCHANGED <<kind, spec, ready, kill, stream, left>>

(* The binary in pod p has ended: nobody has spared it.                    *)
Bury(p) == [k \in Kills |-> [kill[k] EXCEPT !.spared = @ \ {p}]]

(* With the container of pod p its output ends.                            *)
CloseLogs(p) ==
    stream' = [s \in Streams |->
                  IF stream[s].at = "following" /\ stream[s].on = p
                  THEN [stream[s] EXCEPT !.at = "ended"] ELSE stream[s]]

RemovePod(p) ==
    /\ p \in Listed \ Live
    /\ pod' = [pod EXCEPT ![p].phase = "gone", ![p].box = "down"]
    /\ kill' = Bury(p)
    /\ CloseLogs(p)
    /\ UNCHANGED <<kind, spec, ready, left>>

(* wrappedCommand's shell: the binary it waits for has ended, so it exits. *)
WrapperExits(p) ==
    /\ pod[p].box = "dying"
    /\ pod' = [pod EXCEPT ![p].box = "down"]
    /\ CloseLogs(p)
    /\ UNCHANGED <<kind, spec, ready, kill, left>>

BinaryEnds(p) ==
    /\ pod[p].box = "up"
    /\ Use("crash")
    /\ pod' = [pod EXCEPT ![p].box = "dying"]
    /\ kill' = Bury(p)
    /\ UNCHANGED <<kind, spec, ready, stream>>

-----------------------------------------------------------------------------
(* kill and signalContainer.                                               *)

(* What was listed is forgotten with the answer that reports an error.     *)
Fail(k) == kill' = [kill EXCEPT ![k] = [NewKill EXCEPT !.at = "failed"]]

ListPods(k) ==
    /\ kill[k].at = "idle"
    /\ kill' = [kill EXCEPT ![k] =
                   [at |-> "exec", todo |-> Listed, on |-> 0,
                    spared |-> {p \in Listed: pod[p].box = "up"}]]
    /\ UNCHANGED <<kind, spec, ready, pod, stream, left>>

(* Mutant: the binary is PID 1, which its own container cannot signal.     *)
SignalPidOne(k, p) ==
    /\ kill[k].at = "exec"
    /\ p \in kill[k].todo
    /\ pod[p].box = "up"
    /\ kill' = [kill EXCEPT ![k].at = "sent", ![k].todo = @ \ {p}, ![k].on = p]
    /\ UNCHANGED <<kind, spec, ready, pod, stream, left>>

(* `kill -9 -1` ends the binary, and leaves the shell.                     *)
Signal(k, p) ==
    /\ kill[k].at = "exec"
    /\ p \in kill[k].todo
    /\ pod[p].box = "up"
    /\ kill' = [Bury(p) EXCEPT ![k].at = "sent", ![k].todo = @ \ {p}, ![k].on = p]
    /\ pod' = [pod EXCEPT ![p].box = "dying"]
    /\ UNCHANGED <<kind, spec, ready, stream, left>>

(* No container to exec into, or no process to signal in it.               *)
NothingToSignal(k, p) ==
    /\ kill[k].at = "exec"
    /\ p \in kill[k].todo
    /\ pod[p].box # "up"
    /\ Fail(k)
    /\ UNCHANGED <<kind, spec, ready, pod, stream, left>>

(* The exec ends before the container does, and the loop goes on; or the   *)
(* end of the container ends the exec, which is reported as an error.      *)
ExecReturns(k) ==
    /\ kill[k].at = "sent"
    /\ kill' = [kill EXCEPT ![k].at = "exec", ![k].on = 0]
    /\ UNCHANGED <<kind, spec, ready, pod, stream, left>>

ExecSevered(k) ==
    /\ kill[k].at = "sent"
    /\ pod[kill[k].on].box # "dying"
    /\ Fail(k)
    /\ UNCHANGED <<kind, spec, ready, pod, stream, left>>

(* The List or an exec fails, or the client goes away.                     *)
KillCallFails(k) ==
    /\ kill[k].at \in {"idle", "exec", "sent"}
    /\ Use("failure")
    /\ Fail(k)
    /\ UNCHANGED <<kind, spec, ready, pod, stream>>

KillDone(k) ==
    /\ kill[k].at = "exec"
    /\ kill[k].todo = {}
    /\ kill' = [kill EXCEPT ![k].at = "ok"]
    /\ UNCHANGED <<kind, spec, ready, pod, stream, left>>

-----------------------------------------------------------------------------
(* streamPodLogs, its SSE handler, and the EventSource that reconnects.    *)

Lose(s) == stream' = [stream EXCEPT ![s] = [NewStream EXCEPT !.at = "lost"]]

OpenStream(s) ==
    /\ stream[s].at = "none"
    /\ stream' = [stream EXCEPT ![s].at = "waiting"]
    /\ UNCHANGED <<kind, spec, ready, pod, kill, left>>

(* mostRecentStartedPod: of those that are not Pending, one that no other  *)
(* is newer than. The pods come in the order of their names.               *)
Started == {p \in Listed: pod[p].phase = "started"}

MostRecentStarted == {p \in Started: \A q \in Started: pod[q].born <= pod[p].born}

FollowLogs(s) ==
    /\ stream[s].at = "waiting"
    /\ \E p \in MostRecentStarted:
          stream' = [stream EXCEPT ![s] =
                        [at |-> IF pod[p].box = "down" THEN "ended" ELSE "following",
                         on |-> p]]
    /\ UNCHANGED <<kind, spec, ready, pod, kill, left>>

WaitTimesOut(s) ==
    /\ stream[s].at = "waiting"
    /\ Started = {}
    /\ Lose(s)
    /\ UNCHANGED <<kind, spec, ready, pod, kill, left>>

(* Mutant: the end of the output is taken for a pause while the pod lives. *)
LogsEndWithPod(s) ==
    /\ stream[s].at = "ended"
    /\ stream[s].on \notin Listed
    /\ Lose(s)
    /\ UNCHANGED <<kind, spec, ready, pod, kill, left>>

(* The scanner is at the end of the output: so is the response.            *)
LogsEnd(s) ==
    /\ stream[s].at = "ended"
    /\ Lose(s)
    /\ UNCHANGED <<kind, spec, ready, pod, kill, left>>

(* A List or log request fails, or a line is longer than the buffer.       *)
StreamFails(s) ==
    /\ stream[s].at \in {"waiting", "following"}
    /\ Use("failure")
    /\ Lose(s)
    /\ UNCHANGED <<kind, spec, ready, pod, kill>>

Reconnect(s) ==
    /\ stream[s].at = "lost"
    /\ stream' = [stream EXCEPT ![s].at = "waiting"]
    /\ UNCHANGED <<kind, spec, ready, pod, kill, left>>

(* The browser closes the EventSource: r.Context() is cancelled.           *)
Leave(s) ==
    /\ stream[s].at \in {"waiting", "following", "ended", "lost"}
    /\ stream' = [stream EXCEPT ![s] = [NewStream EXCEPT !.at = "left"]]
    /\ UNCHANGED <<kind, spec, ready, pod, kill, left>>

-----------------------------------------------------------------------------
Kubernetes(p) ==
    \/ CreatePod(p)
    \/ DeletePod(p)
    \/ StartContainer(p)
    \/ RemovePod(p)

KillStep(k) ==
    \/ \E p \in Pods: Signal(k, p) \/ NothingToSignal(k, p)
    \/ ExecReturns(k)
    \/ ExecSevered(k)
    \/ KillDone(k)

StreamStep(s) ==
    \/ FollowLogs(s)
    \/ WaitTimesOut(s)
    \/ LogsEnd(s)
    \/ Reconnect(s)

Next ==
    \/ Start
    \/ Stop
    \/ StatusWrite
    \/ \E p \in Pods: Kubernetes(p) \/ WrapperExits(p) \/ BinaryEnds(p)
    \/ \E k \in Kills: ListPods(k) \/ KillStep(k) \/ KillCallFails(k)
    \/ \E s \in Streams: OpenStream(s) \/ StreamStep(s) \/ StreamFails(s) \/ Leave(s)

Spec == Init /\ [][Next]_vars

(* Kubernetes' controllers keep working, the wrapper's wait returns, the   *)
(* goroutines of a request run and an EventSource reconnects. Nothing      *)
(* obliges anyone to start, stop, kill or watch; crashes and failures are  *)
(* finitely many.                                                          *)
Fairness ==
    /\ WF_vars(StatusWrite)
    /\ \A p \in Pods: WF_vars(Kubernetes(p)) /\ WF_vars(WrapperExits(p))
    /\ \A k \in Kills: WF_vars(KillStep(k))
    /\ \A s \in Streams: WF_vars(StreamStep(s))

FairSpec == Spec /\ Fairness

-----------------------------------------------------------------------------
(* Properties.                                                             *)

(* The variables have their types; the replicas reported ready never       *)
(* exceed the pods there can be at once.                                   *)
TypeOK ==
    /\ kind \in {"worker", "runner"}
    /\ spec \in Specs
    /\ ready \in 0..MaxPods
    /\ pod \in [Pods -> PodStates]
    /\ kill \in [Kills -> KillStates]
    /\ stream \in [Streams -> StreamStates]
    /\ left \in [Occasions -> Nat]

(* "kill sends SIGKILL to the worker/runner process of the pod(s) matching *)
(* selector" (manager.go:317): when a kill is answered with success, every *)
(* process that ran when it listed the pods has ended, though the list is  *)
(* read once, pods come and go under it, and others crash or kill them.    *)
KilledWhenOk == \A k \in Kills: kill[k].at = "ok" => kill[k].spared = {}

(* Once everyone leaves the workload alone, the status the pill and the    *)
(* switch show becomes what the pods really do, and stays so: "stopped" is *)
(* said as soon as nothing is wanted, "running" and "starting" by a count  *)
(* that lags behind, and neither is wrong for good.                        *)
Actual ==
    IF Listed = {} THEN "stopped"
    ELSE IF Ready # {} THEN "running"
    ELSE "starting"

StatusSettles == <>[](Status = Actual)

(* Whatever was killed, replaced or timed out in between, a log stream     *)
(* that stays open ends up following a container that runs the workload's  *)
(* present configuration, if there is to be one.                           *)
StreamsSettle ==
    \A s \in Streams:
        <>[](\/ stream[s].at \in {"none", "left"}
             \/ spec.replicas = 0
             \/ stream[s].at = "following" /\ stream[s].on \in Current)
=============================================================================
