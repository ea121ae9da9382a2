---------------------------- MODULE ManagerProofs ----------------------------
(***************************************************************************)
(* Theorems about Manager, for any number of requests, timers, clusters    *)
(* and configurations and any fault budgets.                               *)
(***************************************************************************)
EXTENDS Manager, TLAPS

USE DEF Callers, Workloads

-----------------------------------------------------------------------------
(* Lemmas about the operators of Workload and Manager.                     *)

(* A call leaves a well-formed Deployment spec behind.                     *)
LEMMA EffectType ==
    ASSUME NEW c \in Calls, NEW d \in Desired
    PROVE  Effect(c, d) \in Desired
BY DEF Effect, Calls, Desired

LEMMA NothingType == Nothing \in Desired
BY MaxInstancesPositive DEF Nothing, Desired, Templates

LEMMA AbsentType == Absent \in Deployments
BY NothingType DEF Absent, Deployments

LEMMA NoCallType == NoCall \in Calls
BY NothingType DEF NoCall, Calls

LEMMA StopCallType ==
    ASSUME NEW w \in Workloads
    PROVE  StopCall(w) \in Calls
BY NothingType DEF StopCall, Calls

LEMMA StartCallType ==
    ASSUME NEW w \in Workloads, NEW d \in Desired
    PROVE  StartCall(w, d) \in Calls
BY DEF StartCall, Calls

LEMMA ScaleCallType ==
    ASSUME NEW w \in Workloads
    PROVE  ScaleCall(w) \in Calls
BY MaxInstancesPositive DEF ScaleCall, Calls, Desired, Templates

(* A write either leaves the object as it is, because it already says what *)
(* is written, or moves its version.                                       *)
LEMMA PutEffect ==
    ASSUME NEW d \in Deployments, NEW s \in Desired
    PROVE  /\ Put(d, s) \in Deployments
           /\ Put(d, s).says = s
           /\ Put(d, s).version > 0
           /\ \/ Put(d, s) = d
              \/ /\ Put(d, s).version = d.version + 1
                 /\ d.version = 0 \/ d.says # s
BY DEF Put, Deployments

(* A status update moves the version and nothing else.                     *)
LEMMA TouchEffect ==
    ASSUME NEW d \in Deployments
    PROVE  /\ Touch(d) \in Deployments
           /\ Touch(d).version = d.version + 1
           /\ Touch(d).says = d.says
BY DEF Touch, Deployments

(* Timer.Stop changes the state of one timer and the runner of none.       *)
LEMMA StopTimerType ==
    ASSUME TypeOK, NEW w
    PROVE  StopTimer(w) \in [Timers -> [state: TimerStates, runner: Workloads]]
BY DEF StopTimer, TypeOK, TimerStates

LEMMA StopTimerEffect ==
    ASSUME TypeOK, NEW w, NEW x \in Timers
    PROVE  /\ StopTimer(w)[x].runner = timer[x].runner
           /\ x # runnerTimers[w] => StopTimer(w)[x] = timer[x]
           /\ x = runnerTimers[w] => StopTimer(w)[x].state # "pending"
           /\ StopTimer(w)[x].state = "unset" <=> timer[x].state = "unset"
BY DEF StopTimer, TypeOK, TimerStates

-----------------------------------------------------------------------------
(* Type correctness.                                                       *)

LEMMA InitTypeOK == Init => TypeOK
<1> SUFFICES ASSUME Init PROVE TypeOK
    OBVIOUS
<1>1. deployment \in [Workloads -> Deployments]
  <2>1. PICK v \in {0, 1}:
          deployment = [w \in Workloads |->
                           IF w = CodecWorker
                           THEN [version |-> v, says |-> Nothing] ELSE Absent]
      BY DEF Init
  <2>2. [version |-> v, says |-> Nothing] \in Deployments
      BY NothingType DEF Deployments
  <2> QED
      BY <2>1, <2>2, AbsentType
<1>2. budget \in [Faults -> Nat]
    BY BudgetsAreNat DEF Init, Faults
<1>3. /\ call \in [Callers -> Calls]
      /\ seen \in [Callers -> Deployments]
    BY NoCallType, AbsentType DEF Init
<1>4. QED
    BY <1>1, <1>2, <1>3 DEF Init, TypeOK, TimerStates, Locations

LEMMA StoreType ==
    ASSUME TypeOK, NEW t \in Callers, Store(t)
    PROVE  deployment' \in [Workloads -> Deployments]
<1>1. call[t].on \in Workloads /\ deployment[call[t].on] \in Deployments
    BY DEF TypeOK, Calls
<1>2. Effect(call[t], seen[t].says) \in Desired
    BY EffectType DEF TypeOK, Deployments
<1>3. QED
    BY <1>1, <1>2, PutEffect DEF Store, TypeOK

LEMMA BeginType ==
    ASSUME TypeOK, NEW t \in Callers, NEW l \in Locations, NEW c \in Calls,
           Begin(t, l, c)
    PROVE  TypeOK'
BY DEF TypeOK, Begin, Goto

LEMMA RequestType ==
    ASSUME TypeOK, NEW r \in Requests, Request(r)
    PROVE  TypeOK'
<1>1. CASE RejectRequest(r)
    BY <1>1, AbsentType DEF RejectRequest, Finish, Goto, TypeOK, Locations
<1>2. ASSUME NEW w \in Workers, NEW n \in 0..MaxInstances, StartWorker(r, w, n)
      PROVE  TypeOK'
  <2> DEFINE d == [replicas |-> IF n = 0 THEN 1 ELSE n, template |-> Fixed]
  <2>1. d \in Desired
      BY MaxInstancesPositive DEF Desired, Templates
  <2>2. StartCall(w, d) \in Calls
      BY <2>1, StartCallType
  <2>3. QED
      BY <1>2, <2>2, BeginType DEF StartWorker, Locations
<1>3. ASSUME NEW w \in Runners, NEW k \in Configs, StartRunner(r, w, k)
      PROVE  TypeOK'
  <2> DEFINE d == [replicas |-> 1, template |-> k]
  <2>1. d \in Desired
      BY MaxInstancesPositive DEF Desired, Templates
  <2>2. StartCall(w, d) \in Calls
      BY <2>1, StartCallType
  <2>3. QED
      BY <1>3, <2>2, BeginType DEF StartRunner, Locations
<1>4. ASSUME NEW w \in Workers, StopWorker(r, w) PROVE TypeOK'
    BY <1>4, StopCallType, BeginType DEF StopWorker, Locations
<1>5. ASSUME NEW w \in Runners, StopRunner(r, w) PROVE TypeOK'
    BY <1>5, StopCallType, BeginType DEF StopRunner, Locations
<1>6. CASE CodecWorkerStart(r)
    BY <1>6, ScaleCallType, BeginType DEF CodecWorkerStart, Locations
<1>7. CASE CodecWorkerStop(r)
    BY <1>7, StopCallType, BeginType DEF CodecWorkerStop, Locations
<1>8. QED
    BY <1>1, <1>2, <1>3, <1>4, <1>5, <1>6, <1>7 DEF Request

LEMMA StepType ==
    ASSUME TypeOK, NEW t \in Callers, Step(t)
    PROVE  TypeOK'
<1> USE AbsentType DEF Finish, Goto
<1>1. call[t].on \in Workloads
    BY DEF TypeOK, Calls
<1>2. CASE Get(t)
    BY <1>1, <1>2 DEF Get, TypeOK, Locations
<1>3. CASE NotFound(t)
    BY <1>3 DEF NotFound, TypeOK, Locations
<1>4. CASE Write(t)
    BY <1>4, StoreType DEF Write, TypeOK, Locations
<1>5. CASE WriteRefused(t)
    BY <1>5 DEF WriteRefused, TypeOK, Locations
<1>6. CASE Written(t)
    BY <1>6 DEF Written, TypeOK, Locations
<1>7. ASSUME NEW x \in Timers, ArmRunnerTTL(t, x) PROVE TypeOK'
  <2> DEFINE w == call[t].on
  <2>1. StopTimer(w) \in [Timers -> [state: TimerStates, runner: Workloads]]
      BY StopTimerType
  <2>2. [state |-> "pending", runner |-> w] \in [state: TimerStates, runner: Workloads]
      BY <1>1 DEF TimerStates
  <2>3. timer' \in [Timers -> [state: TimerStates, runner: Workloads]]
      BY <1>7, <2>1, <2>2 DEF ArmRunnerTTL
  <2>4. /\ runnerTimers' \in [Runners -> Timers \cup {NoTimer}]
        /\ disturbed' \in [Runners -> BOOLEAN]
        /\ pc' \in [Callers -> Locations]
      BY <1>7 DEF ArmRunnerTTL, TypeOK, Locations
  <2>5. QED
      BY <1>7, <2>3, <2>4 DEF ArmRunnerTTL, TypeOK
<1>8. CASE DisarmRunnerTTL(t)
  <2>1. timer' \in [Timers -> [state: TimerStates, runner: Workloads]]
      BY <1>8, StopTimerType DEF DisarmRunnerTTL
  <2>2. /\ runnerTimers' \in [Runners -> Timers \cup {NoTimer}]
        /\ pc' \in [Callers -> Locations]
      BY <1>8 DEF DisarmRunnerTTL, TypeOK, Locations
  <2>3. QED
      BY <1>8, <2>1, <2>2 DEF DisarmRunnerTTL, TypeOK
<1>9. QED
    BY <1>2, <1>3, <1>4, <1>5, <1>6, <1>7, <1>8 DEF Step

(* A fault spends budget that is there.                                    *)
LEMMA SpendType ==
    ASSUME TypeOK, NEW f \in Faults, Spend(f)
    PROVE  budget' \in [Faults -> Nat]
<1>1. budget[f] \in Nat /\ budget[f] > 0
    BY DEF Spend, TypeOK
<1>2. budget[f] - 1 \in Nat
    BY <1>1
<1>3. QED
    BY <1>2 DEF Spend, TypeOK

(* What a fault may do to the auto-stop of a runner.                       *)
LEMMA DisturbEffect ==
    ASSUME TypeOK, NEW taken \in BOOLEAN, NEW w, DisturbIf(taken, w)
    PROVE  /\ disturbed' \in [Runners -> BOOLEAN]
           /\ \A u \in Runners: u # w => disturbed'[u] = disturbed[u]
           /\ \A u \in Runners: disturbed[u] => disturbed'[u]
           /\ taken /\ w \in Runners => disturbed'[w]
<1>1. CASE taken
  <2>1. disturbed' = [u \in Runners |-> disturbed[u] \/ u = w]
      BY <1>1 DEF DisturbIf, Disturb
  <2>2. QED
      BY <2>1 DEF TypeOK
<1>2. CASE ~taken
  <2>1. disturbed' = disturbed
      BY <1>2 DEF DisturbIf
  <2>2. QED
      BY <1>2, <2>1 DEF TypeOK
<1>3. QED
    BY <1>1, <1>2

LEMMA FaultType ==
    ASSUME TypeOK, Fault
    PROVE  TypeOK'
<1> USE AbsentType DEF Finish, Goto, Faults
<1>1. ASSUME NEW t \in Callers, ApiFailure(t) PROVE TypeOK'
  <2>1. budget' \in [Faults -> Nat]
      BY <1>1, SpendType DEF ApiFailure
  <2>2. pc' \in [Callers -> Locations] /\ seen' \in [Callers -> Deployments]
      BY <1>1 DEF ApiFailure, TypeOK, Locations
  <2>3. disturbed' \in [Runners -> BOOLEAN]
      BY <1>1, DisturbEffect DEF ApiFailure
  <2>4. QED
      BY <1>1, <2>1, <2>2, <2>3 DEF ApiFailure, TypeOK
<1>2. ASSUME NEW t \in Callers, LateWrite(t) PROVE TypeOK'
  <2>1. disturbed' \in [Runners -> BOOLEAN]
      BY <1>2, DisturbEffect DEF LateWrite
  <2>2. deployment' \in [Workloads -> Deployments]
      BY <1>2, StoreType DEF LateWrite
  <2>3. pc' \in [Callers -> Locations] /\ seen' \in [Callers -> Deployments]
      BY <1>2 DEF LateWrite, TypeOK, Locations
  <2>4. QED
      BY <1>2, <2>1, <2>2, <2>3 DEF LateWrite, TypeOK
<1>3. ASSUME NEW w \in Workloads, StatusWrite(w) PROVE TypeOK'
  <2>1. Touch(deployment[w]) \in Deployments
      BY TouchEffect DEF TypeOK
  <2>2. deployment' \in [Workloads -> Deployments]
      BY <1>3, <2>1 DEF StatusWrite, TypeOK
  <2>3. budget' \in [Faults -> Nat] /\ disturbed' \in [Runners -> BOOLEAN]
    <3>1. StopUnderWay(w) \in BOOLEAN
        BY DEF StopUnderWay
    <3>2. QED
        BY <1>3, <3>1, SpendType, DisturbEffect DEF StatusWrite
  <2>4. QED
      BY <1>3, <2>2, <2>3 DEF StatusWrite, TypeOK
<1>4. CASE Restart
  <2>1. pc' \in [Callers -> Locations]
      BY <1>4 DEF Restart, TypeOK, Locations
  <2>2. timer' \in [Timers -> [state: TimerStates, runner: Workloads]]
      BY <1>4 DEF Restart, TypeOK, TimerStates
  <2>3. budget' \in [Faults -> Nat]
      BY <1>4, SpendType DEF Restart
  <2>4. /\ runnerTimers' \in [Runners -> Timers \cup {NoTimer}]
        /\ disturbed' \in [Runners -> BOOLEAN]
      BY <1>4 DEF Restart
  <2>5. QED
      BY <1>4, <2>1, <2>2, <2>3, <2>4 DEF Restart, TypeOK
<1>5. CASE ApplyManifests
  <2> DEFINE d == deployment[CodecWorker]
             e == [version |-> d.version + 1, says |-> [d.says EXCEPT !.replicas = 0]]
  <2>1. e \in Deployments
    <3>1. d.version \in Nat /\ d.says \in Desired
      <4>1. d \in Deployments
          BY DEF TypeOK
      <4>2. QED
          BY <4>1 DEF Deployments
    <3>2. [d.says EXCEPT !.replicas = 0] \in Desired
        BY <3>1, MaxInstancesPositive DEF Desired
    <3> DEFINE stopped == [d.says EXCEPT !.replicas = 0]
    <3> HIDE DEF stopped
    <3>3. [version |-> d.version + 1, says |-> stopped] \in Deployments
        BY <3>1, <3>2 DEF Deployments, stopped
    <3>4. QED
        BY <3>3 DEF stopped
  <2>2. deployment' = [deployment EXCEPT ![CodecWorker] = e]
      BY <1>5 DEF ApplyManifests
  <2> HIDE DEF e
  <2>3. deployment' \in [Workloads -> Deployments]
      BY <2>1, <2>2 DEF TypeOK
  <2>4. budget' \in [Faults -> Nat]
      BY <1>5, SpendType DEF ApplyManifests
  <2>5. QED
      BY <1>5, <2>3, <2>4 DEF ApplyManifests, TypeOK
<1>6. QED
    BY <1>1, <1>2, <1>3, <1>4, <1>5 DEF Fault

LEMMA NextTypeOK == TypeOK /\ [Next]_vars => TypeOK'
<1> SUFFICES ASSUME TypeOK, [Next]_vars PROVE TypeOK'
    OBVIOUS
<1>1. ASSUME NEW x \in Timers, Expire(x) PROVE TypeOK'
  <2>1. StopCall(timer[x].runner) \in Calls
      BY StopCallType DEF TypeOK
  <2>2. QED
      BY <1>1, <2>1 DEF Expire, Goto, TypeOK, Locations, TimerStates
<1>2. CASE UNCHANGED vars
    BY <1>2 DEF TypeOK, vars
<1>3. QED
    BY <1>1, <1>2, RequestType, StepType, FaultType DEF Next

(* The variables have their types: in particular no write ever asks a      *)
(* Deployment for more instances than some request did.                    *)
THEOREM TypeCorrect == Spec => []TypeOK
<1>1. QED
    BY InitTypeOK, NextTypeOK, PTL DEF Spec

-----------------------------------------------------------------------------
(* Where the goroutines are and what they do there.                        *)

LEMMA BeginCalls ==
    ASSUME TypeOK, CallsInv, NEW t \in Callers, NEW c \in Calls,
           NEW l \in {"disarm", "get"}, Begin(t, l, c),
           l = "disarm" => c.op = "stop" /\ c.on \in Runners,
           c.op = "start" => c.want.replicas > 0,
           c.op = "stop" => c.want.replicas = 0,
           c.op = "scale" => c.on = CodecWorker,
           c.op # "none"
    PROVE  CallsInv'
BY DEF Begin, Goto, TypeOK, CallsInv, Active

(* The calls StartX, StopX and CodecWorkerX begin with.                    *)
LEMMA RequestCalls ==
    ASSUME TypeOK, CallsInv, NEW r \in Requests, Request(r)
    PROVE  CallsInv'
<1> USE DEF StartCall, StopCall, ScaleCall, Nothing
<1>1. CASE RejectRequest(r)
    BY <1>1 DEF RejectRequest, Finish, Goto, TypeOK, CallsInv, Active
<1>2. ASSUME NEW w \in Workers, NEW n \in 0..MaxInstances, StartWorker(r, w, n)
      PROVE  CallsInv'
  <2> DEFINE d == [replicas |-> IF n = 0 THEN 1 ELSE n, template |-> Fixed]
  <2>1. d \in Desired
      BY MaxInstancesPositive DEF Desired, Templates
  <2>2. StartCall(w, d) \in Calls
      BY <2>1, StartCallType
  <2>3. QED
      BY <1>2, <2>2, BeginCalls DEF StartWorker
<1>3. ASSUME NEW w \in Runners, NEW k \in Configs, StartRunner(r, w, k)
      PROVE  CallsInv'
  <2> DEFINE d == [replicas |-> 1, template |-> k]
  <2>1. d \in Desired
      BY MaxInstancesPositive DEF Desired, Templates
  <2>2. StartCall(w, d) \in Calls
      BY <2>1, StartCallType
  <2>3. QED
      BY <1>3, <2>2, BeginCalls DEF StartRunner
<1>4. ASSUME NEW w \in Workers, StopWorker(r, w) PROVE CallsInv'
    BY <1>4, StopCallType, BeginCalls DEF StopWorker
<1>5. ASSUME NEW w \in Runners, StopRunner(r, w) PROVE CallsInv'
    BY <1>5, StopCallType, BeginCalls DEF StopRunner
<1>6. CASE CodecWorkerStart(r)
    BY <1>6, ScaleCallType, BeginCalls DEF CodecWorkerStart
<1>7. CASE CodecWorkerStop(r)
    BY <1>7, StopCallType, BeginCalls DEF CodecWorkerStop
<1>8. QED
    BY <1>1, <1>2, <1>3, <1>4, <1>5, <1>6, <1>7 DEF Request

LEMMA NextCallsInv ==
    ASSUME TypeOK, CallsInv, TimersInv, [Next]_vars
    PROVE  CallsInv'
<1> USE DEF Finish, Goto, CallsInv, Active
<1>1. ASSUME NEW t \in Callers, Step(t) PROVE CallsInv'
  <2>1. call' = call
      BY <1>1 DEF Step, Get, NotFound, Write, WriteRefused, Written,
                  ArmRunnerTTL, DisarmRunnerTTL
  <2>2. CASE Get(t)
      BY <2>1, <2>2 DEF Get, TypeOK
  <2>3. CASE NotFound(t)
      BY <2>1, <2>3 DEF NotFound, TypeOK
  <2>4. CASE Write(t)
      BY <2>1, <2>4 DEF Write, TypeOK
  <2>5. CASE WriteRefused(t)
      BY <2>1, <2>5 DEF WriteRefused, TypeOK
  <2>6. CASE Written(t)
      BY <2>1, <2>6 DEF Written, TypeOK
  <2>7. ASSUME NEW x \in Timers, ArmRunnerTTL(t, x) PROVE CallsInv'
      BY <2>1, <2>7 DEF ArmRunnerTTL, TypeOK
  <2>8. CASE DisarmRunnerTTL(t)
      BY <2>1, <2>8 DEF DisarmRunnerTTL, TypeOK
  <2>9. QED
      BY <1>1, <2>2, <2>3, <2>4, <2>5, <2>6, <2>7, <2>8 DEF Step
<1>2. ASSUME NEW x \in Timers, Expire(x) PROVE CallsInv'
  <2>1. timer[x].runner \in Runners
      BY <1>2 DEF Expire, TimersInv, NoOrphanTimer
  <2>2. QED
      BY <1>2, <2>1 DEF Expire, TypeOK, StopCall, Nothing
<1>3. CASE Fault
  <2>1. ASSUME NEW t \in Callers, ApiFailure(t) PROVE CallsInv'
      BY <2>1 DEF ApiFailure, TypeOK
  <2>2. ASSUME NEW t \in Callers, LateWrite(t) PROVE CallsInv'
      BY <2>2 DEF LateWrite, TypeOK
  <2>3. ASSUME NEW w \in Workloads, StatusWrite(w) PROVE CallsInv'
      BY <2>3 DEF StatusWrite
  <2>4. CASE Restart
      BY <2>4 DEF Restart, TypeOK
  <2>5. CASE ApplyManifests
      BY <2>5 DEF ApplyManifests
  <2>6. QED
      BY <1>3, <2>1, <2>2, <2>3, <2>4, <2>5 DEF Fault
<1>4. CASE UNCHANGED vars
    BY <1>4 DEF vars
<1>5. QED
    BY <1>1, <1>2, <1>3, <1>4, RequestCalls DEF Next

-----------------------------------------------------------------------------
(* Versions: what a write does to what others have read.                   *)

(* An accepted write applies the call to what the Deployment says now, and *)
(* moves its version if that changes anything.                             *)
LEMMA StoreEffect ==
    ASSUME TypeOK, CallsInv, AbsentInv, SnapshotInv, NEW t \in Callers,
           pc[t] \in {"write", "abandoned"}, Store(t)
    PROVE  LET w == call[t].on
               d == deployment[w]
           IN  /\ w \in Workloads
               /\ \A v \in Workloads \ {w}: deployment'[v] = deployment[v]
               /\ deployment'[w].says = Effect(call[t], d.says)
               /\ deployment'[w].version > 0
               /\ \/ deployment'[w] = d
                  \/ /\ deployment'[w].version = d.version + 1
                     /\ deployment'[w].says # d.says
<1> DEFINE w == call[t].on
           d == deployment[w]
           e == Effect(call[t], seen[t].says)
<1>1. w \in Workloads /\ d \in Deployments
    BY DEF TypeOK, Calls
<1>2. seen[t].says = d.says
    BY <1>1 DEF Store, Unmoved, SnapshotInv
<1>3. e \in Desired
    BY EffectType DEF TypeOK, Deployments
<1>4. deployment' = [deployment EXCEPT ![w] = Put(d, e)]
    BY <1>1 DEF Store
<1>5. deployment'[w] = Put(d, e) /\ \A v \in Workloads \ {w}: deployment'[v] = deployment[v]
    BY <1>1, <1>4 DEF TypeOK
(* Only a start creates, and what it creates has instances.                *)
<1>6. d.version = 0 => e # d.says
  <2>1. ASSUME d.version = 0 PROVE e # d.says
    <3>1. call[t].op = "start"
      <4>1. seen[t].version = 0
          BY <1>1, <2>1 DEF Store, Unmoved
      <4>2. QED
          BY <4>1 DEF SnapshotInv
    <3>2. e.replicas > 0
        BY <3>1 DEF Effect, CallsInv
    <3>3. d.says.replicas = 0
        BY <1>1, <2>1 DEF AbsentInv, Nothing
    <3>4. QED
        BY <3>2, <3>3
  <2>2. QED
      BY <2>1
<1>7. QED
    BY <1>1, <1>2, <1>3, <1>5, <1>6, PutEffect

(* A status update moves one Deployment's version and nothing else.        *)
LEMMA StatusEffect ==
    ASSUME TypeOK, NEW w \in Workloads, StatusWrite(w)
    PROVE  /\ \A v \in Workloads \ {w}: deployment'[v] = deployment[v]
           /\ deployment'[w].says = deployment[w].says
           /\ deployment'[w].version = deployment[w].version + 1
           /\ deployment'[w].version > 0
<1>1. deployment[w] \in Deployments
    BY DEF TypeOK
<1>2. /\ deployment'[w] = Touch(deployment[w])
      /\ \A v \in Workloads \ {w}: deployment'[v] = deployment[v]
    BY DEF StatusWrite, TypeOK
<1>3. deployment[w].version \in Nat
    BY <1>1 DEF Deployments
<1>4. QED
    BY <1>1, <1>2, <1>3, TouchEffect

(* Bringing the stack up again stops the codec worker and nothing else.    *)
LEMMA ApplyEffect ==
    ASSUME TypeOK, ApplyManifests
    PROVE  LET d == deployment[CodecWorker]
               e == deployment'[CodecWorker]
           IN  /\ \A v \in Workloads \ {CodecWorker}: deployment'[v] = deployment[v]
               /\ e.says = [d.says EXCEPT !.replicas = 0]
               /\ e.version = d.version + 1
               /\ e.version > 0
<1>1. deployment[CodecWorker].version \in Nat /\ CodecWorker \in Workloads
    BY DEF TypeOK, Deployments, Workloads
<1>2. /\ \A v \in Workloads \ {CodecWorker}: deployment'[v] = deployment[v]
      /\ deployment'[CodecWorker] =
            [version |-> deployment[CodecWorker].version + 1,
             says |-> [deployment[CodecWorker].says EXCEPT !.replicas = 0]]
    BY <1>1 DEF ApplyManifests, TypeOK
<1>3. QED
    BY <1>1, <1>2

(* Only writes, status updates and start.sh change Deployments.            *)
LEMMA WhoWrites ==
    ASSUME [Next]_vars
    PROVE  \/ \E t \in Callers: pc[t] \in {"write", "abandoned"} /\ Store(t)
           \/ \E w \in Workloads: StatusWrite(w)
           \/ ApplyManifests
           \/ deployment' = deployment
<1>1. ASSUME NEW r \in Requests, Request(r) PROVE deployment' = deployment
    BY <1>1 DEF Request, RejectRequest, StartWorker, StartRunner, StopWorker,
                StopRunner, CodecWorkerStart, CodecWorkerStop, Begin
<1>2. ASSUME NEW t \in Callers, Step(t)
      PROVE  (pc[t] = "write" /\ Store(t)) \/ deployment' = deployment
    BY <1>2 DEF Step, Get, NotFound, Write, WriteRefused, Written,
                ArmRunnerTTL, DisarmRunnerTTL
<1>3. ASSUME NEW x \in Timers, Expire(x) PROVE deployment' = deployment
    BY <1>3 DEF Expire
<1>4. ASSUME Fault
      PROVE  \/ \E t \in Callers: pc[t] = "abandoned" /\ Store(t)
             \/ \E w \in Workloads: StatusWrite(w)
             \/ ApplyManifests
             \/ deployment' = deployment
    BY <1>4 DEF Fault, ApiFailure, LateWrite, Restart
<1>5. QED
    BY <1>1, <1>2, <1>3, <1>4 DEF Next, vars

LEMMA NextAbsentInv ==
    ASSUME TypeOK, CallsInv, AbsentInv, SnapshotInv, [Next]_vars
    PROVE  AbsentInv'
<1>1. ASSUME NEW t \in Callers, pc[t] \in {"write", "abandoned"}, Store(t)
      PROVE  AbsentInv'
    BY <1>1, StoreEffect DEF AbsentInv
<1>2. ASSUME NEW w \in Workloads, StatusWrite(w)
      PROVE  AbsentInv'
    BY <1>2, StatusEffect DEF AbsentInv
<1>3. ASSUME deployment' = deployment PROVE AbsentInv'
    BY <1>3 DEF AbsentInv
<1>4. ASSUME ApplyManifests PROVE AbsentInv'
    BY <1>4, ApplyEffect DEF AbsentInv
<1>5. QED
    BY <1>1, <1>2, <1>3, <1>4, WhoWrites

(* A Deployment changes only under a new, larger version.                  *)
LEMMA VersionsGrow ==
    ASSUME TypeOK, CallsInv, AbsentInv, SnapshotInv, [Next]_vars, NEW w \in Workloads
    PROVE  /\ deployment[w].version \in Nat
           /\ \/ deployment'[w] = deployment[w]
              \/ deployment'[w].version = deployment[w].version + 1
<1>1. deployment[w].version \in Nat
    BY DEF TypeOK, Deployments
<1>2. QED
    BY <1>1, StoreEffect, StatusEffect, ApplyEffect, WhoWrites

(* A goroutine about to write has just read, or keeps what it had read.    *)
LEMMA SnapshotSource ==
    ASSUME TypeOK, [Next]_vars, NEW u \in Callers,
           pc'[u] \in {"write", "abandoned"}
    PROVE  /\ call'[u] = call[u]
           /\ \/ pc[u] \in {"write", "abandoned"} /\ seen'[u] = seen[u]
              \/ /\ seen'[u] = deployment[call[u].on]
                 /\ call[u].op # "start" => seen'[u].version > 0
                 /\ deployment' = deployment
<1> USE DEF Finish, Goto, TypeOK
<1>1. ASSUME NEW r \in Requests, Request(r)
      PROVE  pc[u] \in {"write", "abandoned"} /\ seen'[u] = seen[u] /\ call'[u] = call[u]
  <2>1. CASE RejectRequest(r)
      BY <2>1 DEF RejectRequest
  <2>2. ASSUME NEW l \in {"disarm", "get"}, NEW c, Begin(r, l, c)
        PROVE  pc[u] \in {"write", "abandoned"} /\ seen'[u] = seen[u] /\ call'[u] = call[u]
      BY <2>2 DEF Begin
  <2>3. QED
      BY <1>1, <2>1, <2>2 DEF Request, StartWorker, StartRunner, StopWorker,
             StopRunner, CodecWorkerStart, CodecWorkerStop
<1>2. ASSUME NEW t \in Callers, Step(t)
      PROVE  /\ call' = call
             /\ \/ pc[u] \in {"write", "abandoned"} /\ seen'[u] = seen[u]
                \/ /\ seen'[u] = deployment[call[u].on]
                   /\ call[u].op # "start" => seen'[u].version > 0
                   /\ deployment' = deployment
  <2>1. CASE Get(t)
      BY <2>1 DEF Get
  <2>2. CASE NotFound(t)
      BY <2>2 DEF NotFound
  <2>3. CASE Write(t)
      BY <2>3 DEF Write
  <2>4. CASE WriteRefused(t)
      BY <2>4 DEF WriteRefused
  <2>5. CASE Written(t)
      BY <2>5 DEF Written
  <2>6. ASSUME NEW x \in Timers, ArmRunnerTTL(t, x)
        PROVE  call' = call /\ pc[u] \in {"write", "abandoned"} /\ seen'[u] = seen[u]
      BY <2>6 DEF ArmRunnerTTL
  <2>7. CASE DisarmRunnerTTL(t)
      BY <2>7 DEF DisarmRunnerTTL
  <2>8. QED
      BY <1>2, <2>1, <2>2, <2>3, <2>4, <2>5, <2>6, <2>7 DEF Step
<1>3. ASSUME NEW x \in Timers, Expire(x)
      PROVE  pc[u] \in {"write", "abandoned"} /\ seen'[u] = seen[u] /\ call'[u] = call[u]
    BY <1>3 DEF Expire
<1>4. ASSUME Fault
      PROVE  pc[u] \in {"write", "abandoned"} /\ seen'[u] = seen[u] /\ call' = call
  <2>1. ASSUME NEW t \in Callers, ApiFailure(t)
        PROVE  pc[u] \in {"write", "abandoned"} /\ seen'[u] = seen[u] /\ call' = call
      BY <2>1 DEF ApiFailure
  <2>2. ASSUME NEW t \in Callers, LateWrite(t)
        PROVE  pc[u] \in {"write", "abandoned"} /\ seen'[u] = seen[u] /\ call' = call
      BY <2>2 DEF LateWrite
  <2>3. CASE Restart
      BY <2>3 DEF Restart
  <2>4. QED
      BY <1>4, <2>1, <2>2, <2>3 DEF Fault, StatusWrite, ApplyManifests
<1>5. QED
    BY <1>1, <1>2, <1>3, <1>4 DEF Next, vars

LEMMA NextSnapshotInv ==
    ASSUME TypeOK, CallsInv, AbsentInv, SnapshotInv, [Next]_vars
    PROVE  SnapshotInv'
<1> SUFFICES ASSUME NEW u \in Callers, pc'[u] \in {"write", "abandoned"}
             PROVE  LET d == deployment'[call'[u].on]
                    IN  /\ call'[u].op # "start" => seen'[u].version > 0
                        /\ seen'[u].version <= d.version
                        /\ seen'[u].version = d.version => seen'[u].says = d.says
    BY DEF SnapshotInv
<1>1. call[u].on \in Workloads /\ seen[u].version \in Nat
    BY DEF TypeOK, Calls, Deployments
<1>2. call'[u] = call[u]
    BY SnapshotSource
<1>3. CASE pc[u] \in {"write", "abandoned"} /\ seen'[u] = seen[u]
    BY <1>1, <1>2, <1>3, VersionsGrow DEF SnapshotInv
<1>4. CASE /\ seen'[u] = deployment[call[u].on]
           /\ call[u].op # "start" => seen'[u].version > 0
           /\ deployment' = deployment
    BY <1>1, <1>2, <1>4, VersionsGrow
<1>5. QED
    BY <1>3, <1>4, SnapshotSource

-----------------------------------------------------------------------------
(* Timers.                                                                 *)

LEMMA NextTimersInv ==
    ASSUME TypeOK, CallsInv, TimersInv, [Next]_vars
    PROVE  TimersInv'
<1>1. ASSUME NEW t \in Callers, NEW x \in Timers, ArmRunnerTTL(t, x)
      PROVE  TimersInv'
  <2> DEFINE w == call[t].on
  <2>1. w \in Runners
      BY <1>1 DEF ArmRunnerTTL, CallsInv
  <2>2. /\ runnerTimers' = [runnerTimers EXCEPT ![w] = x]
        /\ timer[x].state = "unset"
        /\ timer'[x] = [state |-> "pending", runner |-> w]
        /\ \A y \in Timers \ {x}: timer'[y] = StopTimer(w)[y]
      BY <1>1, StopTimerType DEF ArmRunnerTTL
  <2>3. ASSUME NEW v \in Runners, runnerTimers'[v] # NoTimer
        PROVE  /\ timer'[runnerTimers'[v]].runner = v
               /\ timer'[runnerTimers'[v]].state # "unset"
    <3>1. CASE v = w
        BY <2>1, <2>2, <3>1 DEF TypeOK
    <3>2. CASE v # w
      <4>1. runnerTimers'[v] = runnerTimers[v] /\ runnerTimers[v] \in Timers
          BY <2>1, <2>2, <2>3, <3>2 DEF TypeOK
      <4>2. runnerTimers[v] # x
          BY <2>2, <4>1, <2>3 DEF TimersInv
      <4>3. QED
          BY <2>2, <2>3, <4>1, <4>2, StopTimerEffect DEF TimersInv
    <3>3. QED
        BY <3>1, <3>2
  <2>4. ASSUME NEW y \in Timers, timer'[y].state = "pending"
        PROVE  timer'[y].runner \in Runners /\ runnerTimers'[timer'[y].runner] = y
    <3>1. CASE y = x
        BY <2>1, <2>2, <3>1 DEF TypeOK
    <3>2. CASE y # x
      <4>1. y # runnerTimers[w] /\ timer'[y] = timer[y]
          BY <2>2, <2>4, <3>2, StopTimerEffect
      <4>2. timer[y].runner # w /\ timer[y].runner \in Runners
          BY <2>4, <4>1 DEF TimersInv, NoOrphanTimer
      <4>3. QED
          BY <2>2, <2>4, <4>1, <4>2 DEF TimersInv, NoOrphanTimer, TypeOK
    <3>3. QED
        BY <3>1, <3>2
  <2>5. QED
      BY <2>3, <2>4 DEF TimersInv, NoOrphanTimer
<1>2. ASSUME NEW t \in Callers, DisarmRunnerTTL(t) PROVE TimersInv'
  <2> DEFINE w == call[t].on
  <2>1. /\ w \in Runners
        /\ runnerTimers' = [runnerTimers EXCEPT ![w] = NoTimer]
        /\ timer' = StopTimer(w)
      BY <1>2 DEF DisarmRunnerTTL, CallsInv
  <2>2. ASSUME NEW v \in Runners, runnerTimers'[v] # NoTimer
        PROVE  /\ timer'[runnerTimers'[v]].runner = v
               /\ timer'[runnerTimers'[v]].state # "unset"
    <3>1. runnerTimers'[v] = runnerTimers[v] /\ runnerTimers[v] \in Timers
        BY <2>1, <2>2 DEF TypeOK
    <3>2. QED
        BY <2>1, <2>2, <3>1, StopTimerEffect DEF TimersInv
  <2>3. ASSUME NEW y \in Timers, timer'[y].state = "pending"
        PROVE  timer'[y].runner \in Runners /\ runnerTimers'[timer'[y].runner] = y
    <3>1. y # runnerTimers[w] /\ timer'[y] = timer[y]
        BY <2>1, <2>3, StopTimerEffect
    <3>2. QED
        BY <2>1, <2>3, <3>1 DEF TimersInv, NoOrphanTimer, TypeOK
  <2>4. QED
      BY <2>2, <2>3 DEF TimersInv, NoOrphanTimer
<1>3. ASSUME NEW x \in Timers, Expire(x) PROVE TimersInv'
    BY <1>3 DEF Expire, TimersInv, NoOrphanTimer, TypeOK
<1>4. CASE Restart
    BY <1>4 DEF Restart, TimersInv, NoOrphanTimer, TypeOK
<1>5. CASE UNCHANGED <<timer, runnerTimers>>
    BY <1>5 DEF TimersInv, NoOrphanTimer
<1>6. ASSUME NEW r \in Requests, Request(r) PROVE UNCHANGED <<timer, runnerTimers>>
    BY <1>6 DEF Request, RejectRequest, StartWorker, StartRunner, StopWorker,
                StopRunner, CodecWorkerStart, CodecWorkerStop, Begin
<1>7. ASSUME NEW t \in Callers, Step(t)
      PROVE  \/ UNCHANGED <<timer, runnerTimers>>
             \/ \E x \in Timers: ArmRunnerTTL(t, x)
             \/ DisarmRunnerTTL(t)
    BY <1>7 DEF Step, Get, NotFound, Write, WriteRefused, Written
<1>8. CASE Fault
    BY <1>4, <1>5, <1>8 DEF Fault, ApiFailure, LateWrite, StatusWrite, ApplyManifests
<1>9. QED
    BY <1>1, <1>2, <1>3, <1>5, <1>6, <1>7, <1>8 DEF Next, vars

-----------------------------------------------------------------------------
(* Who will stop a running runner.                                         *)

(* A guarding goroutine that an action leaves alone goes on guarding, as   *)
(* long as its runner's Deployment is left alone too.                      *)
LEMMA GuardKept ==
    ASSUME NEW w, NEW u, Guards(u, w),
           pc'[u] = pc[u], call'[u] = call[u], seen'[u] = seen[u],
           deployment'[w] = deployment[w]
    PROVE  Guards(u, w)'
BY DEF Guards, Unmoved

LEMMA ArmedKept ==
    ASSUME NEW w, Armed(w), timer' = timer, runnerTimers' = runnerTimers
    PROVE  Armed(w)'
BY DEF Armed

LEMMA BeginGuards ==
    ASSUME TypeOK, GuardInv, NEW t \in Callers, NEW l, NEW c, Begin(t, l, c)
    PROVE  GuardInv'
<1> SUFFICES ASSUME NEW w \in Runners, RunningState(w)', ~disturbed'[w]
             PROVE  Armed(w)' \/ \E u \in Callers: Guards(u, w)'
    BY DEF GuardInv
<1>1. Armed(w) \/ \E u \in Callers: Guards(u, w)
    BY DEF Begin, GuardInv, RunningState
<1>2. ASSUME NEW u \in Callers, Guards(u, w) PROVE Guards(u, w)'
  <2>1. u # t
      BY <1>2 DEF Guards, Begin
  <2>2. QED
      BY <1>2, <2>1, GuardKept DEF Begin, Goto, TypeOK
<1>3. QED
    BY <1>1, <1>2, ArmedKept DEF Begin

LEMMA RequestGuards ==
    ASSUME TypeOK, GuardInv, NEW r \in Requests, Request(r)
    PROVE  GuardInv'
<1>1. CASE RejectRequest(r)
  <2> SUFFICES ASSUME NEW w \in Runners, RunningState(w)', ~disturbed'[w]
               PROVE  Armed(w)' \/ \E u \in Callers: Guards(u, w)'
      BY DEF GuardInv
  <2>1. Armed(w) \/ \E u \in Callers: Guards(u, w)
      BY <1>1 DEF RejectRequest, GuardInv, RunningState
  <2>2. ASSUME NEW u \in Callers, Guards(u, w) PROVE Guards(u, w)'
    <3>1. u # r
        BY <1>1, <2>2 DEF Guards, RejectRequest
    <3>2. QED
        BY <1>1, <2>2, <3>1, GuardKept DEF RejectRequest, Finish, Goto, TypeOK
  <2>3. QED
      BY <1>1, <2>1, <2>2, ArmedKept DEF RejectRequest
<1>2. QED
    BY <1>1, BeginGuards DEF Request, StartWorker, StartRunner, StopWorker,
           StopRunner, CodecWorkerStart, CodecWorkerStop

LEMMA StepGuards ==
    ASSUME IInv, NEW t \in Callers, Step(t)
    PROVE  GuardInv'
<1> SUFFICES ASSUME NEW w \in Runners, RunningState(w)', ~disturbed'[w]
             PROVE  Armed(w)' \/ \E u \in Callers: Guards(u, w)'
    BY DEF GuardInv
<1> USE DEF Finish, Goto, IInv
<1>1. t \in DOMAIN pc /\ t \in DOMAIN call /\ t \in DOMAIN seen
    BY DEF TypeOK
(* What holds after an action of t that leaves timers and w's Deployment   *)
(* alone: only t may have ceased to guard.                                 *)
<1>2. ASSUME timer' = timer, runnerTimers' = runnerTimers, call' = call,
             deployment'[w] = deployment[w], disturbed' = disturbed,
             \A u \in Callers \ {t}: pc'[u] = pc[u] /\ seen'[u] = seen[u],
             Guards(t, w) => Guards(t, w)'
      PROVE  Armed(w)' \/ \E u \in Callers: Guards(u, w)'
  <2>1. Armed(w) \/ \E u \in Callers: Guards(u, w)
      BY <1>2 DEF GuardInv, RunningState
  <2>2. ASSUME NEW u \in Callers, Guards(u, w) PROVE Guards(u, w)'
      BY <1>2, <2>2, GuardKept
  <2>3. QED
      BY <1>2, <2>1, <2>2, ArmedKept
<1>3. CASE Get(t)
  <2>1. ASSUME Guards(t, w) PROVE Guards(t, w)'
      BY <1>3, <2>1 DEF Get, Guards, Unmoved, TypeOK
  <2>2. QED
      BY <1>2, <1>3, <2>1 DEF Get, TypeOK
<1>4. CASE NotFound(t)
  <2>1. ~Guards(t, w)
    <3>1. deployment'[w].says.replicas > 0 /\ deployment' = deployment
        BY <1>4 DEF NotFound, RunningState
    <3>2. deployment[w].version # 0
        BY <3>1 DEF AbsentInv, Nothing
    <3>3. QED
        BY <1>4, <3>2 DEF NotFound, Guards
  <2>2. QED
      BY <1>2, <1>4, <2>1 DEF NotFound, TypeOK
<1>5. CASE Write(t)
  <2>1. pc[t] = "write" /\ Store(t) /\ call' = call /\ pc'[t] = "written"
      BY <1>5 DEF Write, TypeOK
  <2>2. CASE call[t].on = w
    <3>1. /\ call[t].op \in {"start", "stop", "scale"}
          /\ call[t].op # "scale"
      <4>1. call[t].op \in {"none", "start", "stop", "scale"}
          BY DEF TypeOK, Calls
      <4>2. w # CodecWorker
          BY WorkloadsDistinct
      <4>3. QED
          BY <2>1, <2>2, <4>1, <4>2 DEF CallsInv, Active
    <3>2. call[t].op # "stop"
      <4>1. deployment'[w].says = Effect(call[t], deployment[w].says)
          BY <2>1, <2>2, StoreEffect
      <4>2. ASSUME call[t].op = "stop" PROVE FALSE
        <5>1. deployment'[w].says = [deployment[w].says EXCEPT !.replicas = 0]
            BY <4>1, <4>2 DEF Effect, CallsInv
        <5>2. deployment[w].says \in Desired
            BY DEF TypeOK, Deployments
        <5>3. deployment'[w].says.replicas = 0
            BY <5>1, <5>2 DEF Desired
        <5>4. QED
            BY <5>3 DEF RunningState
      <4>3. QED
          BY <4>2
    <3>3. QED
        BY <2>1, <2>2, <3>1, <3>2 DEF Guards
  <2>3. CASE call[t].on # w
    <3>1. deployment'[w] = deployment[w]
        BY <2>1, <2>3, StoreEffect
    <3>2. QED
        BY <1>2, <1>5, <2>3, <3>1 DEF Write, Guards, TypeOK
  <2>4. QED
      BY <2>2, <2>3
<1>6. CASE WriteRefused(t)
  <2>1. ~Guards(t, w)
      BY <1>6 DEF WriteRefused, Guards
  <2>2. QED
      BY <1>2, <1>6, <2>1 DEF WriteRefused, TypeOK
<1>7. CASE Written(t)
  <2>1. ASSUME Guards(t, w) PROVE Guards(t, w)'
      BY <1>7, <2>1 DEF Written, Guards, TypeOK
  <2>2. QED
      BY <1>2, <1>7, <2>1 DEF Written, TypeOK
(* The timers of other runners are not touched.                            *)
<1>8. ASSUME NEW v \in Runners, v # w, Armed(w),
             \A y \in Timers: timer[y].state = "pending" /\ y # runnerTimers[v]
                                  => timer'[y] = timer[y],
             runnerTimers'[w] = runnerTimers[w]
      PROVE  Armed(w)'
  <2>1. PICK y \in Timers: timer[y].state = "pending" /\ runnerTimers[w] = y
      BY <1>8 DEF Armed
  <2>2. timer[y].runner = w
      BY <2>1, NullsDistinct DEF TimersInv
  <2>3. y # runnerTimers[v]
      BY <1>8, <2>1, <2>2, NullsDistinct DEF TimersInv
  <2>4. QED
      BY <1>8, <2>1, <2>3 DEF Armed
<1>9. ASSUME NEW x \in Timers, ArmRunnerTTL(t, x)
      PROVE  Armed(w)' \/ \E u \in Callers: Guards(u, w)'
  <2> DEFINE v == call[t].on
  <2>1. /\ v \in Runners
        /\ runnerTimers' = [runnerTimers EXCEPT ![v] = x]
        /\ timer[x].state = "unset"
        /\ timer'[x] = [state |-> "pending", runner |-> v]
        /\ \A y \in Timers \ {x}: timer'[y] = StopTimer(v)[y]
      BY <1>9, StopTimerType DEF ArmRunnerTTL, CallsInv
  <2>2. CASE v = w
      BY <2>1, <2>2 DEF Armed, TypeOK
  <2>3. CASE v # w
    <3>1. ~Guards(t, w)
        BY <2>3 DEF Guards
    <3>2. disturbed'[w] = disturbed[w] /\ deployment' = deployment
        BY <1>9, <2>3 DEF ArmRunnerTTL, TypeOK
    <3>3. Armed(w) \/ \E u \in Callers: Guards(u, w)
        BY <3>2 DEF GuardInv, RunningState
    <3>4. ASSUME NEW u \in Callers, Guards(u, w) PROVE Guards(u, w)'
        BY <1>9, <3>1, <3>2, <3>4, GuardKept DEF ArmRunnerTTL, TypeOK
    <3>5. ASSUME Armed(w) PROVE Armed(w)'
      <4>1. \A y \in Timers: timer[y].state = "pending" /\ y # runnerTimers[v]
                                 => timer'[y] = timer[y]
          BY <2>1, StopTimerEffect
      <4>2. runnerTimers'[w] = runnerTimers[w]
          BY <2>1, <2>3 DEF TypeOK
      <4>3. QED
          BY <1>8, <2>1, <2>3, <3>5, <4>1, <4>2
    <3>6. QED
        BY <3>3, <3>4, <3>5
  <2>4. QED
      BY <2>2, <2>3
<1>10. CASE DisarmRunnerTTL(t)
  <2> DEFINE v == call[t].on
  <2>1. /\ v \in Runners
        /\ call[t].op = "stop"
        /\ runnerTimers' = [runnerTimers EXCEPT ![v] = NoTimer]
        /\ timer' = StopTimer(v)
        /\ UNCHANGED <<deployment, call, seen, disturbed>>
        /\ pc'[t] = "get"
        /\ \A u \in Callers \ {t}: pc'[u] = pc[u]
      BY <1>10 DEF DisarmRunnerTTL, CallsInv, TypeOK
  <2>2. CASE v = w
      BY <2>1, <2>2 DEF Guards
  <2>3. CASE v # w
    <3>1. Armed(w) \/ \E u \in Callers: Guards(u, w)
        BY <2>1 DEF GuardInv, RunningState
    <3>2. ASSUME NEW u \in Callers, Guards(u, w) PROVE Guards(u, w)'
      <4>1. u # t
          BY <2>3, <3>2 DEF Guards
      <4>2. QED
          BY <2>1, <3>2, <4>1, GuardKept
    <3>3. ASSUME Armed(w) PROVE Armed(w)'
      <4>1. runnerTimers'[w] = runnerTimers[w]
          BY <2>1, <2>3 DEF TypeOK
      <4>2. QED
          BY <1>8, <2>1, <2>3, <3>3, <4>1, StopTimerEffect
    <3>4. QED
        BY <3>1, <3>2, <3>3
  <2>4. QED
      BY <2>2, <2>3
<1>11. QED
    BY <1>3, <1>4, <1>5, <1>6, <1>7, <1>9, <1>10 DEF Step

LEMMA ExpireGuards ==
    ASSUME IInv, NEW x \in Timers, Expire(x)
    PROVE  GuardInv'
<1> SUFFICES ASSUME NEW w \in Runners, RunningState(w)', ~disturbed'[w]
             PROVE  Armed(w)' \/ \E u \in Callers: Guards(u, w)'
    BY DEF GuardInv
<1> USE DEF IInv, Goto
<1>1. Armed(w) \/ \E u \in Callers: Guards(u, w)
    BY DEF Expire, GuardInv, RunningState
<1>2. ASSUME NEW u \in Callers, Guards(u, w) PROVE Guards(u, w)'
  <2>1. u # x
      BY <1>2 DEF Guards, Expire
  <2>2. QED
      BY <1>2, <2>1, GuardKept DEF Expire, TypeOK
<1>3. ASSUME NEW y \in Timers, timer[y].state = "pending", runnerTimers[w] = y
      PROVE  Armed(w)' \/ \E u \in Callers: Guards(u, w)'
  <2>1. CASE y = x
    <3>1. timer[x].runner = w
        BY <1>3, <2>1, NullsDistinct DEF TimersInv
    <3>2. call'[x] = StopCall(w) /\ pc'[x] = "disarm"
        BY <3>1 DEF Expire, TypeOK
    <3>3. Guards(x, w)'
        BY <3>2 DEF Guards, StopCall
    <3>4. QED
        BY <3>3
  <2>2. CASE y # x
      BY <1>3, <2>2 DEF Expire, Armed, TypeOK
  <2>3. QED
      BY <2>1, <2>2
<1>4. QED
    BY <1>1, <1>2, <1>3 DEF Armed

LEMMA FaultGuards ==
    ASSUME IInv, Fault
    PROVE  GuardInv'
<1> SUFFICES ASSUME NEW w \in Runners, RunningState(w)', ~disturbed'[w]
             PROVE  Armed(w)' \/ \E u \in Callers: Guards(u, w)'
    BY DEF GuardInv
<1> USE DEF IInv, Finish, Goto
(* The fault took no auto-stop of w away: whatever guarded w still does.   *)
<1>1. ASSUME timer' = timer, runnerTimers' = runnerTimers, call' = call,
             deployment'[w] = deployment[w], ~disturbed[w],
             \A u \in Callers: Guards(u, w) =>
                                   pc'[u] = pc[u] /\ seen'[u] = seen[u]
      PROVE  Armed(w)' \/ \E u \in Callers: Guards(u, w)'
  <2>1. Armed(w) \/ \E u \in Callers: Guards(u, w)
      BY <1>1 DEF GuardInv, RunningState
  <2>2. ASSUME NEW u \in Callers, Guards(u, w) PROVE Guards(u, w)'
      BY <1>1, <2>2, GuardKept
  <2>3. QED
      BY <1>1, <2>1, <2>2, ArmedKept
<1>2. ASSUME NEW t \in Callers, ApiFailure(t)
      PROVE  Armed(w)' \/ \E u \in Callers: Guards(u, w)'
  <2>1. ~disturbed[w] /\ ~(call[t].on = w /\ call[t].op = "stop")
      BY <1>2, DisturbEffect DEF ApiFailure
  <2>2. /\ pc[t] \in {"get", "write"}
        /\ \A u \in Callers \ {t}: pc'[u] = pc[u] /\ seen'[u] = seen[u]
      BY <1>2 DEF ApiFailure, TypeOK
  <2>3. ~Guards(t, w)
      BY <2>1, <2>2 DEF Guards
  <2>4. QED
      BY <1>1, <1>2, <2>1, <2>2, <2>3 DEF ApiFailure
<1>3. ASSUME NEW t \in Callers, LateWrite(t)
      PROVE  Armed(w)' \/ \E u \in Callers: Guards(u, w)'
  <2>1. ~disturbed[w] /\ ~(call[t].on = w /\ call[t].op = "start")
      BY <1>3, DisturbEffect DEF LateWrite
  <2>2. pc[t] = "abandoned" /\ Store(t)
      BY <1>3 DEF LateWrite
(* A stop that lands late has stopped w.                                   *)
  <2>3. call[t].on # w
    <3> SUFFICES ASSUME call[t].on = w PROVE FALSE
        OBVIOUS
    <3>1. call[t].op = "stop"
      <4>1. call[t].op \in {"none", "start", "stop", "scale"}
          BY DEF TypeOK, Calls
      <4>2. w # CodecWorker
          BY WorkloadsDistinct
      <4>3. QED
          BY <2>1, <2>2, <4>1, <4>2 DEF CallsInv, Active
    <3>2. deployment'[w].says = [deployment[w].says EXCEPT !.replicas = 0]
      <4>1. deployment'[w].says = Effect(call[t], deployment[w].says)
          BY <2>2, StoreEffect
      <4>2. QED
          BY <3>1, <4>1 DEF Effect, CallsInv
    <3>3. deployment[w].says \in Desired
        BY DEF TypeOK, Deployments
    <3>4. deployment'[w].says.replicas = 0
        BY <3>2, <3>3 DEF Desired
    <3>5. QED
        BY <3>4 DEF RunningState
  <2>4. deployment'[w] = deployment[w]
      BY <2>2, <2>3, StoreEffect
  <2>5. /\ ~Guards(t, w)
        /\ \A u \in Callers \ {t}: pc'[u] = pc[u] /\ seen'[u] = seen[u]
      BY <1>3, <2>2 DEF LateWrite, Guards, TypeOK
  <2>6. QED
      BY <1>1, <1>3, <2>1, <2>4, <2>5 DEF LateWrite
<1>4. ASSUME NEW v \in Workloads, StatusWrite(v)
      PROVE  Armed(w)' \/ \E u \in Callers: Guards(u, w)'
  <2>1. ~disturbed[w] /\ ~(v = w /\ StopUnderWay(w))
    <3>1. StopUnderWay(v) \in BOOLEAN
        BY DEF StopUnderWay
    <3>2. QED
        BY <1>4, <3>1, DisturbEffect DEF StatusWrite
  <2>2. UNCHANGED <<runnerTimers, timer, pc, call, seen>>
      BY <1>4 DEF StatusWrite
  <2>3. CASE v # w
    <3>1. deployment'[w] = deployment[w]
        BY <1>4, <2>3, StatusEffect
    <3>2. QED
        BY <1>1, <2>1, <2>2, <3>1
(* Only a stop that has read w and not yet written it back is refused.     *)
  <2>4. CASE v = w
    <3>1. deployment'[w].says = deployment[w].says
        BY <1>4, <2>4, StatusEffect
    <3>2. Armed(w) \/ \E u \in Callers: Guards(u, w)
        BY <2>1, <3>1 DEF GuardInv, RunningState
    <3>3. ASSUME NEW u \in Callers, Guards(u, w) PROVE Guards(u, w)'
      <4>1. ~(pc[u] = "write" /\ call[u].op = "stop" /\ Unmoved(u))
          BY <2>1, <2>4, <3>3 DEF Guards, StopUnderWay
      <4>2. QED
          BY <2>2, <3>3, <4>1 DEF Guards
    <3>4. QED
        BY <2>2, <3>2, <3>3, ArmedKept
  <2>5. QED
      BY <2>3, <2>4
<1>5. CASE Restart
    BY <1>5 DEF Restart
<1>6. CASE ApplyManifests
  <2>1. CodecWorker # w /\ disturbed'[w] = disturbed[w]
      BY <1>6, WorkloadsDistinct DEF ApplyManifests
  <2>2. deployment'[w] = deployment[w]
      BY <1>6, <2>1, ApplyEffect DEF Workloads
  <2>3. QED
      BY <1>1, <1>6, <2>1, <2>2 DEF ApplyManifests
<1>7. QED
    BY <1>2, <1>3, <1>4, <1>5, <1>6 DEF Fault

-----------------------------------------------------------------------------
(* The inductive invariant and what follows from it.                       *)

LEMMA InitIInv == Init => IInv
<1> SUFFICES ASSUME Init PROVE IInv
    OBVIOUS
<1>1. TypeOK
    BY InitTypeOK
<1>2. CallsInv
  <2>1. \A t \in Callers: pc[t] = "idle" /\ call[t] = NoCall
      BY DEF Init
  <2>2. NoCall.op = "none"
      BY DEF NoCall
  <2>3. QED
      BY <2>1, <2>2 DEF CallsInv, Active
<1>3. AbsentInv
  <2>1. \A w \in Workloads: deployment[w].says = Nothing
    <3>1. PICK v \in {0, 1}:
            deployment = [w \in Workloads |->
                             IF w = CodecWorker
                             THEN [version |-> v, says |-> Nothing] ELSE Absent]
        BY DEF Init
    <3>2. [version |-> v, says |-> Nothing].says = Nothing /\ Absent.says = Nothing
        BY DEF Absent
    <3>3. QED
        BY <3>1, <3>2
  <2>2. QED
      BY <2>1 DEF AbsentInv
<1>4. SnapshotInv
    BY DEF Init, SnapshotInv
<1>5. TimersInv
    BY DEF Init, TimersInv, NoOrphanTimer
<1>6. GuardInv
  <2>1. \A w \in Runners: deployment[w] = Absent
      BY WorkloadsDistinct DEF Init
  <2>2. QED
      BY <2>1 DEF GuardInv, RunningState, Absent, Nothing
<1>7. QED
    BY <1>1, <1>2, <1>3, <1>4, <1>5, <1>6 DEF IInv

LEMMA NextIInv == IInv /\ [Next]_vars => IInv'
<1> SUFFICES ASSUME IInv, [Next]_vars PROVE IInv'
    OBVIOUS
<1>1. /\ TypeOK'
      /\ CallsInv'
      /\ AbsentInv'
      /\ SnapshotInv'
      /\ TimersInv'
    BY NextTypeOK, NextCallsInv, NextAbsentInv, NextSnapshotInv, NextTimersInv
       DEF IInv
<1>2. CASE UNCHANGED vars
  <2>1. GuardInv'
      BY <1>2 DEF IInv, GuardInv, Guards, Armed, RunningState, Unmoved, vars
  <2>2. QED
      BY <1>1, <2>1 DEF IInv
<1>3. GuardInv'
    BY <1>2, RequestGuards, StepGuards, ExpireGuards, FaultGuards DEF IInv, Next
<1>4. QED
    BY <1>1, <1>3 DEF IInv

LEMMA Inductive == Spec => []IInv
<1>1. QED
    BY InitIInv, NextIInv, PTL DEF Spec

(* At any moment a timer that can still expire is the one runnerTimers     *)
(* holds for its runner: Start and Stop never lose track of one.           *)
THEOREM TimersTracked == Spec => []NoOrphanTimer
<1>1. IInv => NoOrphanTimer
    BY DEF IInv, TimersInv
<1>2. QED
    BY <1>1, Inductive, PTL

(* A runner that runs and met no fault since it was armed has its          *)
(* auto-stop pending, or a call about it is in progress.                   *)
THEOREM RunnersGuarded == Spec => []GuardedUnlessDisturbed
<1>1. IInv => GuardedUnlessDisturbed
  <2>1. ASSUME NEW w, NEW t, Guards(t, w)
        PROVE  /\ call[t].on = w
               /\ pc[t] \in {"disarm", "get", "write", "written", "arm"}
      BY <2>1 DEF Guards
  <2>2. QED
      BY <2>1 DEF IInv, GuardInv, GuardedUnlessDisturbed, InProgress
<1>2. QED
    BY <1>1, Inductive, PTL
=============================================================================
