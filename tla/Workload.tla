------------------------------ MODULE Workload ------------------------------
(***************************************************************************)
(* The vocabulary of worker-control-ui: which Deployments it drives, what  *)
(* a Deployment asks Kubernetes for, who calls the k8s.Manager, and what a *)
(* call changes in the Deployment it is about                              *)
(* (worker-control-ui/internal/k8s/manager.go).                            *)
(***************************************************************************)
EXTENDS Naturals

CONSTANTS
    Requests,     \* HTTP requests of the control panel, each handled once
    Timers,       \* the timers time.AfterFunc hands out, each used once
    Runners,      \* one runner Deployment per cluster
    Workers,      \* one worker Deployment per cluster
    CodecWorker,  \* the one codec-worker Deployment, created by start.sh
    Configs,      \* the runner configurations runnerDeployment accepts
    Fixed,        \* the pod template of a workload that has only one
    NoTimer,      \* no entry in runnerTimers
    MaxInstances  \* the largest instance count a request asks for (a bound)

ASSUME CallersDistinct == Requests \cap Timers = {}

ASSUME WorkloadsDistinct ==
    /\ Runners \cap Workers = {}
    /\ CodecWorker \notin Runners \cup Workers

ASSUME NullsDistinct == NoTimer \notin Timers /\ Fixed \notin Configs

ASSUME MaxInstancesPositive == MaxInstances \in Nat \ {0}

(* Every goroutine that runs a Manager operation: an HTTP handler, or the  *)
(* callback of an expired timer.                                           *)
Callers == Requests \cup Timers

Workloads == Runners \cup Workers \cup {CodecWorker}

Templates == Configs \cup {Fixed}

(* What a Deployment's Spec says: how many pods, running what.             *)
Desired == [replicas: 0..MaxInstances, template: Templates]

Nothing == [replicas |-> 0, template |-> Fixed]

Calls == [on: Workloads, op: {"none", "start", "stop", "scale"}, want: Desired]

NoCall == [on |-> CodecWorker, op |-> "none", want |-> Nothing]

StartCall(w, d) == [on |-> w, op |-> "start", want |-> d]

StopCall(w) == [on |-> w, op |-> "stop", want |-> Nothing]

ScaleCall(w) ==
    [on |-> w, op |-> "scale", want |-> [replicas |-> 1, template |-> Fixed]]

(* What a Deployment says once call c has been applied to one that said d: *)
(* start replaces the whole Spec, stop and scale only the replica count.   *)
Effect(c, d) ==
    IF c.op = "start" THEN c.want ELSE [d EXCEPT !.replicas = c.want.replicas]
=============================================================================
