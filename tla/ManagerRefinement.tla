-------------------------- MODULE ManagerRefinement --------------------------
(***************************************************************************)
(* Manager implements WorkloadControl: every step of a goroutine, a timer, *)
(* the deployment controller or the process is one step of the abstract    *)
(* specification, or none.                                                 *)
(***************************************************************************)
EXTENDS ManagerProofs

USE DEF Callers, Workloads, Control!Callers, Control!Workloads

(* Both specifications speak of the same calls.                            *)
LEMMA SameVocabulary ==
    /\ Control!Nothing = Nothing
    /\ Control!NoCall = NoCall
    /\ Control!Templates = Templates
    /\ \A c, d: Control!Effect(c, d) = Effect(c, d)
    /\ \A w, d: Control!StartCall(w, d) = StartCall(w, d)
    /\ \A w: Control!StopCall(w) = StopCall(w)
    /\ \A w: Control!ScaleCall(w) = ScaleCall(w)
BY DEF Control!Nothing, Nothing, Control!NoCall, NoCall, Control!Templates,
       Templates, Control!Effect, Effect, Control!StartCall, StartCall,
       Control!StopCall, StopCall, Control!ScaleCall, ScaleCall

(* An idle caller's phase follows its location; a caller that nothing      *)
(* touched keeps its phase unless its Deployment has moved.                *)
LEMMA PhaseKept ==
    ASSUME NEW u \in Callers, pc'[u] = pc[u],
           \/ pc[u] # "abandoned"
           \/ /\ call'[u] = call[u]
              /\ seen'[u] = seen[u]
              /\ deployment'[call[u].on].version = deployment[call[u].on].version
    PROVE  Phase'[u] = Phase[u]
BY DEF Phase, CanLand, Unmoved

LEMMA SaysKept ==
    ASSUME deployment' = deployment
    PROVE  Says' = Says
BY DEF Says

(* A step of t that leaves the Deployments alone changes t's phase only.   *)
LEMMA OnePhase ==
    ASSUME TypeOK, NEW t \in Callers, NEW p,
           deployment' = deployment,
           \A u \in Callers \ {t}:
              pc'[u] = pc[u] /\ seen'[u] = seen[u] /\ call'[u] = call[u],
           Phase'[t] = p
    PROVE  /\ Says' = Says
           /\ Phase' = [Phase EXCEPT ![t] = p]
<1>1. Says' = Says
    BY SaysKept
<1>2. \A u \in Callers \ {t}: Phase'[u] = Phase[u]
    BY PhaseKept
<1>3. Phase' = [u \in Callers |-> Phase'[u]] /\ DOMAIN Phase = Callers
    BY DEF Phase
<1>4. QED
    BY <1>1, <1>2, <1>3

LEMMA InitRefines == Init => Control!Init
<1> SUFFICES ASSUME Init PROVE Control!Init
    OBVIOUS
<1>1. \A w \in Workloads: deployment[w].says = Nothing
  <2>1. PICK v \in {0, 1}:
          deployment = [w \in Workloads |->
                           IF w = CodecWorker
                           THEN [version |-> v, says |-> Nothing] ELSE Absent]
      BY DEF Init
  <2>2. [version |-> v, says |-> Nothing].says = Nothing /\ Absent.says = Nothing
      BY DEF Absent
  <2>3. QED
      BY <2>1, <2>2
<1>2. Says = [w \in Workloads |-> Nothing]
    BY <1>1 DEF Says
<1>3. Phase = [t \in Callers |-> "idle"]
    BY DEF Init, Phase
<1>4. call = [t \in Callers |-> NoCall]
    BY DEF Init
<1>5. QED
    BY <1>2, <1>3, <1>4, SameVocabulary DEF Control!Init

-----------------------------------------------------------------------------
(* Steps that change no Deployment.                                        *)

(* Every call a request or a timer begins with is one the abstract         *)
(* specification invokes.                                                  *)
LEMMA BeginRefines ==
    ASSUME TypeOK, NEW t \in Callers, NEW l \in {"disarm", "get"}, NEW w \in Workloads,
           NEW c,
           \/ \E n \in 1..MaxInstances, k \in Templates:
                 c = StartCall(w, [replicas |-> n, template |-> k])
           \/ c = StopCall(w)
           \/ c = ScaleCall(w),
           pc[t] = "idle", pc' = [pc EXCEPT ![t] = l], call' = [call EXCEPT ![t] = c],
           UNCHANGED <<deployment, seen>>
    PROVE  Control!Invoke(t)
<1>1. Phase[t] = "idle" /\ Phase'[t] = "open"
    BY DEF Phase, TypeOK
<1>2. Says' = Says /\ Phase' = [Phase EXCEPT ![t] = "open"]
    BY <1>1, OnePhase DEF TypeOK
<1>3. QED
    BY <1>1, <1>2, SameVocabulary DEF Control!Invoke

LEMMA RequestRefines ==
    ASSUME TypeOK, NEW r \in Requests, Request(r)
    PROVE  Control!Next
<1> USE MaxInstancesPositive DEF Goto, Begin
<1>1. ASSUME Control!Invoke(r) \/ Control!Reject(r) PROVE Control!Next
    BY <1>1 DEF Control!Next
<1>2. CASE RejectRequest(r)
  <2>1. Phase[r] = "idle" /\ Phase'[r] = "failed"
      BY <1>2 DEF Phase, TypeOK, RejectRequest, Finish
  <2>2. Says' = Says /\ Phase' = [Phase EXCEPT ![r] = "failed"]
      BY <1>2, <2>1, OnePhase DEF TypeOK, RejectRequest, Finish
  <2>3. QED
      BY <1>1, <1>2, <2>1, <2>2 DEF Control!Reject, RejectRequest
<1>3. ASSUME NEW w \in Workers, NEW n \in 0..MaxInstances, StartWorker(r, w, n)
      PROVE  Control!Next
  <2>1. PICK m \in 1..MaxInstances: m = IF n = 0 THEN 1 ELSE n
      OBVIOUS
  <2>2. Fixed \in Templates
      BY DEF Templates
  <2>3. Control!Invoke(r)
      BY <1>3, <2>1, <2>2, BeginRefines DEF StartWorker
  <2>4. QED
      BY <1>1, <2>3
<1>4. ASSUME NEW w \in Runners, NEW k \in Configs, StartRunner(r, w, k)
      PROVE  Control!Next
  <2>1. k \in Templates /\ 1 \in 1..MaxInstances
      BY DEF Templates
  <2>2. Control!Invoke(r)
      BY <1>4, <2>1, BeginRefines DEF StartRunner
  <2>3. QED
      BY <1>1, <2>2
<1>5. ASSUME NEW w \in Workers, StopWorker(r, w) PROVE Control!Next
    BY <1>1, <1>5, BeginRefines DEF StopWorker
<1>6. ASSUME NEW w \in Runners, StopRunner(r, w) PROVE Control!Next
    BY <1>1, <1>6, BeginRefines DEF StopRunner
<1>7. CASE CodecWorkerStart(r)
    BY <1>1, <1>7, BeginRefines DEF CodecWorkerStart
<1>8. CASE CodecWorkerStop(r)
    BY <1>1, <1>8, BeginRefines DEF CodecWorkerStop
<1>9. QED
    BY <1>2, <1>3, <1>4, <1>5, <1>6, <1>7, <1>8 DEF Request

LEMMA ExpireRefines ==
    ASSUME IInv, NEW x \in Timers, Expire(x)
    PROVE  Control!Next
<1>1. timer[x].runner \in Workloads
    BY DEF IInv, TimersInv, NoOrphanTimer, Expire
<1>2. Control!Invoke(x)
    BY <1>1, BeginRefines DEF IInv, Expire, Goto
<1>3. QED
    BY <1>2 DEF Control!Next

-----------------------------------------------------------------------------
(* Steps that write a Deployment.                                          *)

(* A stored write is the abstract change: it takes effect on what the      *)
(* Deployment says now, and if that is news, every write that was given up *)
(* on finds the version moved.                                             *)
LEMMA StoreRefines ==
    ASSUME IInv, NEW t \in Callers, NEW p \in {"written", "failed"},
           pc[t] \in {"write", "abandoned"}, Store(t), Finish(t, p),
           UNCHANGED call
    PROVE  Control!Change(t, IF p = "written" THEN "applied" ELSE "failed")
<1> DEFINE w == call[t].on
           d == Effect(call[t], deployment[w].says)
           q == IF p = "written" THEN "applied" ELSE "failed"
<1> USE DEF IInv
<1>1. /\ w \in Workloads
      /\ \A v \in Workloads \ {w}: deployment'[v] = deployment[v]
      /\ deployment'[w].says = d
      /\ \/ deployment'[w] = deployment[w]
         \/ /\ deployment'[w].version = deployment[w].version + 1
            /\ d # deployment[w].says
    BY StoreEffect
<1>2. Says' = [Says EXCEPT ![w] = d]
    BY <1>1 DEF Says
<1>3. ASSUME NEW u \in Callers
      PROVE  Phase'[u] = IF u = t THEN q
                         ELSE IF Phase[u] = "abandoned" /\ call[u].on = w /\ Says[w] # d
                         THEN "failed" ELSE Phase[u]
  <2>1. Says[w] = deployment[w].says
      BY <1>1 DEF Says
  <2>2. CASE u = t
      BY <2>2 DEF Phase, Finish, Goto, TypeOK
  <2>3. CASE u # t
    <3>1. pc'[u] = pc[u] /\ seen'[u] = seen[u] /\ call'[u] = call[u]
        BY <2>3 DEF Finish, Goto, TypeOK
    <3>2. CASE Phase[u] = "abandoned" /\ call[u].on = w /\ Says[w] # d
      <4>1. pc[u] = "abandoned"
          BY <3>2 DEF Phase
      <4>2. deployment'[w].version = deployment[w].version + 1
          BY <1>1, <2>1, <3>2
      <4>3. seen[u].version <= deployment[w].version
          BY <3>2, <4>1 DEF SnapshotInv
      <4>4. seen[u].version \in Nat /\ deployment[w].version \in Nat
          BY <1>1 DEF TypeOK, Deployments
      <4>5. deployment'[w].version # seen[u].version
          BY <4>2, <4>3, <4>4
      <4>6. ~CanLand(u)'
          BY <3>1, <3>2, <4>5 DEF CanLand, Unmoved
      <4>7. Phase'[u] = "failed"
          BY <3>1, <4>1, <4>6 DEF Phase
      <4>8. QED
          BY <2>3, <3>2, <4>7
    <3>3. CASE ~(Phase[u] = "abandoned" /\ call[u].on = w /\ Says[w] # d)
      <4>1. CASE pc[u] = "abandoned" /\ ~CanLand(u)
        <5>1. seen[u].version # deployment[call[u].on].version
            BY <4>1 DEF CanLand, Unmoved
        <5>2. seen[u].version <= deployment[call[u].on].version
            BY <4>1 DEF SnapshotInv
        <5>3. call[u].on \in Workloads
            BY DEF TypeOK, Calls
        <5>4. /\ seen[u].version \in Nat
              /\ deployment[call[u].on].version \in Nat
            BY <5>3 DEF TypeOK, Deployments
        <5>5. \/ deployment'[call[u].on].version = deployment[call[u].on].version
              \/ deployment'[call[u].on].version = deployment[call[u].on].version + 1
            BY <1>1, <5>3
        <5>6. deployment'[call[u].on].version # seen[u].version
            BY <5>1, <5>2, <5>4, <5>5
        <5>7. ~CanLand(u)'
            BY <3>1, <5>6 DEF CanLand, Unmoved
        <5>8. QED
            BY <2>3, <3>1, <3>3, <4>1, <5>7 DEF Phase
      <4>2. CASE pc[u] = "abandoned" /\ CanLand(u)
        <5>1. Phase[u] = "abandoned"
            BY <4>2 DEF Phase
        <5>2. call[u].on \in Workloads
            BY DEF TypeOK, Calls
        <5>3. deployment'[call[u].on] = deployment[call[u].on]
            BY <1>1, <2>1, <3>3, <5>1, <5>2
        <5>4. QED
            BY <2>3, <3>1, <3>3, <5>3, PhaseKept
      <4>3. CASE pc[u] # "abandoned"
          BY <2>3, <3>1, <3>3, <4>3, PhaseKept
      <4>4. QED
          BY <4>1, <4>2, <4>3
    <3>4. QED
        BY <3>2, <3>3
  <2>4. QED
      BY <2>2, <2>3
<1>4. Phase' = Control!Superseding(t, q, w, d)
  <2>1. Phase' = [u \in Callers |-> Phase'[u]]
      BY DEF Phase
  <2>2. QED
      BY <1>3, <2>1 DEF Control!Superseding
<1>5. d = Control!Effect(call[t], Says[w])
    BY <1>1, SameVocabulary DEF Says
<1>6. QED
    BY <1>2, <1>4, <1>5 DEF Control!Change

LEMMA StepRefines ==
    ASSUME IInv, NEW t \in Callers, Step(t)
    PROVE  Control!Next \/ UNCHANGED Control!vars
<1> USE DEF IInv, Finish, Goto
(* A step that leaves the Deployments alone moves t from phase p to q.     *)
<1>1. ASSUME NEW p, NEW q, Phase[t] = p, Phase'[t] = q,
             deployment' = deployment, call' = call,
             \A u \in Callers \ {t}: pc'[u] = pc[u] /\ seen'[u] = seen[u],
             \/ p = q
             \/ p = "open" /\ q = "failed"
             \/ p = "applied" /\ q = "ok"
             \/ /\ p = "open" /\ q = "ok" /\ call[t].op = "stop"
                /\ deployment[call[t].on].says.replicas = 0
      PROVE  Control!Next \/ UNCHANGED Control!vars
  <2>1. Says' = Says /\ Phase' = [Phase EXCEPT ![t] = q]
      BY <1>1, OnePhase
  <2>2. CASE p = q
    <3>1. Phase = [u \in Callers |-> Phase[u]]
        BY DEF Phase
    <3>2. Phase' = Phase
        BY <1>1, <2>1, <2>2, <3>1
    <3>3. QED
        BY <1>1, <2>1, <3>2 DEF Control!vars
  <2>3. CASE p = "open" /\ q = "failed"
      BY <1>1, <2>1, <2>3 DEF Control!Fail, Control!Next
  <2>4. CASE p = "applied" /\ q = "ok"
      BY <1>1, <2>1, <2>4 DEF Control!Succeed, Control!Next
  <2>5. CASE /\ p = "open" /\ q = "ok" /\ call[t].op = "stop"
             /\ deployment[call[t].on].says.replicas = 0
    <3>1. Says[call[t].on].replicas = 0
        BY <2>5 DEF Says, TypeOK, Calls
    <3>2. Control!NothingToStop(t)
        BY <1>1, <2>1, <2>5, <3>1 DEF Control!NothingToStop
    <3>3. QED
        BY <3>2 DEF Control!Next
  <2>6. QED
      BY <1>1, <2>2, <2>3, <2>4, <2>5
<1>2. CASE Get(t)
  <2>1. Phase[t] = "open" /\ Phase'[t] = "open"
      BY <1>2 DEF Get, Phase, TypeOK
  <2>2. \A u \in Callers \ {t}: pc'[u] = pc[u] /\ seen'[u] = seen[u]
      BY <1>2 DEF Get, TypeOK
  <2>3. QED
      BY <1>1, <1>2, <2>1, <2>2 DEF Get
<1>3. CASE NotFound(t)
  <2>1. Phase[t] = "open"
      BY <1>3 DEF NotFound, Phase
  <2>2. Phase'[t] = IF call[t].op = "stop" THEN "ok" ELSE "failed"
      BY <1>3 DEF NotFound, Phase, TypeOK
  <2>3. \A u \in Callers \ {t}: pc'[u] = pc[u] /\ seen'[u] = seen[u]
      BY <1>3 DEF NotFound, TypeOK
  <2>4. deployment[call[t].on].says.replicas = 0
      BY <1>3 DEF NotFound, AbsentInv, Nothing, TypeOK, Calls
  <2>5. QED
      BY <1>1, <1>3, <2>1, <2>2, <2>3, <2>4 DEF NotFound
<1>4. CASE Write(t)
  <2>1. Phase[t] = "open"
      BY <1>4 DEF Write, Phase
  <2>2. Control!Change(t, "applied")
      BY <1>4, StoreRefines DEF Write
  <2>3. QED
      BY <2>1, <2>2 DEF Control!Apply, Control!Next
<1>5. CASE WriteRefused(t)
  <2>1. Phase[t] = "open" /\ Phase'[t] = "failed"
      BY <1>5 DEF WriteRefused, Phase, TypeOK
  <2>2. \A u \in Callers \ {t}: pc'[u] = pc[u] /\ seen'[u] = seen[u]
      BY <1>5 DEF WriteRefused, TypeOK
  <2>3. QED
      BY <1>1, <1>5, <2>1, <2>2 DEF WriteRefused
<1>6. CASE Written(t)
  <2>1. Phase[t] = "applied" /\ Phase'[t] \in {"applied", "ok"}
      BY <1>6 DEF Written, Phase, TypeOK
  <2>2. \A u \in Callers \ {t}: pc'[u] = pc[u] /\ seen'[u] = seen[u]
      BY <1>6 DEF Written, TypeOK
  <2>3. QED
      BY <1>1, <1>6, <2>1, <2>2 DEF Written
<1>7. ASSUME NEW x \in Timers, ArmRunnerTTL(t, x)
      PROVE  Control!Next \/ UNCHANGED Control!vars
  <2>1. Phase[t] = "applied" /\ Phase'[t] = "ok"
      BY <1>7 DEF ArmRunnerTTL, Phase, TypeOK
  <2>2. \A u \in Callers \ {t}: pc'[u] = pc[u] /\ seen'[u] = seen[u]
      BY <1>7 DEF ArmRunnerTTL, TypeOK
  <2>3. QED
      BY <1>1, <1>7, <2>1, <2>2 DEF ArmRunnerTTL
<1>8. CASE DisarmRunnerTTL(t)
  <2>1. Phase[t] = "open" /\ Phase'[t] = "open"
      BY <1>8 DEF DisarmRunnerTTL, Phase, TypeOK
  <2>2. \A u \in Callers \ {t}: pc'[u] = pc[u] /\ seen'[u] = seen[u]
      BY <1>8 DEF DisarmRunnerTTL, TypeOK
  <2>3. QED
      BY <1>1, <1>8, <2>1, <2>2 DEF DisarmRunnerTTL
<1>9. QED
    BY <1>2, <1>3, <1>4, <1>5, <1>6, <1>7, <1>8 DEF Step

-----------------------------------------------------------------------------
(* Faults.                                                                 *)

(* Once workload w has moved, no call on it that was given up can land.    *)
LEMMA MovedOutdates ==
    ASSUME TypeOK, SnapshotInv, NEW w \in Workloads,
           \A v \in Workloads \ {w}: deployment'[v] = deployment[v],
           deployment'[w].version = deployment[w].version + 1,
           UNCHANGED <<pc, call, seen>>
    PROVE  Control!Outdate(w)
<1>1. ASSUME NEW u \in Callers
      PROVE  Phase'[u] = IF Phase[u] = "abandoned" /\ call[u].on = w
                         THEN "failed" ELSE Phase[u]
  <2>1. call[u].on \in Workloads
      BY DEF TypeOK, Calls
  <2>2. CASE call[u].on = w /\ pc[u] = "abandoned"
    <3>1. seen[u].version <= deployment[w].version
        BY <2>2 DEF SnapshotInv
    <3>2. seen[u].version \in Nat /\ deployment[w].version \in Nat
        BY DEF TypeOK, Deployments
    <3>3. deployment'[w].version # seen[u].version
        BY <3>1, <3>2
    <3>4. ~CanLand(u)'
        BY <2>2, <3>3 DEF CanLand, Unmoved
    <3>5. Phase'[u] = "failed"
        BY <2>2, <3>4 DEF Phase
    <3>6. Phase[u] \in {"failed", "abandoned"}
        BY <2>2 DEF Phase
    <3>7. QED
        BY <2>2, <3>5, <3>6
  <2>3. CASE call[u].on = w /\ pc[u] # "abandoned"
    <3>1. Phase[u] # "abandoned"
        BY <2>3 DEF Phase
    <3>2. QED
        BY <2>3, <3>1, PhaseKept
  <2>4. CASE call[u].on # w
      BY <2>1, <2>4, PhaseKept
  <2>5. QED
      BY <2>2, <2>3, <2>4
<1>2. Phase' = [u \in Callers |-> Phase'[u]]
    BY DEF Phase
<1>3. QED
    BY <1>1, <1>2 DEF Control!Outdate

LEMMA FaultRefines ==
    ASSUME IInv, Fault
    PROVE  Control!Next \/ UNCHANGED Control!vars
<1> USE DEF IInv, Finish, Goto
<1>1. ASSUME NEW t \in Callers, ApiFailure(t) PROVE Control!Next
  <2>1. Phase[t] = "open" /\ Phase'[t] \in {"failed", "abandoned"}
      BY <1>1 DEF ApiFailure, Phase, TypeOK
  <2>2. \A u \in Callers \ {t}: pc'[u] = pc[u] /\ seen'[u] = seen[u]
      BY <1>1 DEF ApiFailure, TypeOK
  <2>3. Says' = Says /\ Phase' = [Phase EXCEPT ![t] = Phase'[t]]
      BY <1>1, <2>2, OnePhase DEF ApiFailure
  <2>4. Control!Fail(t)
      BY <1>1, <2>1, <2>3 DEF ApiFailure, Control!Fail
  <2>5. QED
      BY <2>4 DEF Control!Next
<1>2. ASSUME NEW t \in Callers, LateWrite(t) PROVE Control!Next
  <2>1. Phase[t] = "abandoned"
      BY <1>2 DEF LateWrite, Store, Phase, CanLand
  <2>2. Control!Change(t, "failed")
      BY <1>2, StoreRefines DEF LateWrite
  <2>3. QED
      BY <2>1, <2>2 DEF Control!ApplyLate, Control!Next
<1>3. ASSUME NEW w \in Workloads, StatusWrite(w) PROVE Control!Next
  <2>1. /\ \A v \in Workloads \ {w}: deployment'[v] = deployment[v]
        /\ deployment'[w].says = deployment[w].says
        /\ deployment'[w].version = deployment[w].version + 1
      BY <1>3, StatusEffect
  <2>2. Says' = Says
      BY <2>1 DEF Says
  <2>3. UNCHANGED <<pc, call, seen>>
      BY <1>3 DEF StatusWrite
  <2>4. Control!Outdate(w)
      BY <2>1, <2>3, MovedOutdates
  <2>5. Control!Supersede(w)
      BY <2>2, <2>3, <2>4 DEF Control!Supersede
  <2>6. QED
      BY <2>5 DEF Control!Next
<1>4. CASE Restart
  <2> DEFINE late == {t \in Callers: pc[t] = "write" /\ Unmoved(t)}
             open == {t \in Callers: Phase[t] = "open"}
  <2>1. late \in SUBSET open
      BY DEF Phase
  <2>2. UNCHANGED <<deployment, call, seen>>
      BY <1>4 DEF Restart
  <2>3. ASSUME NEW u \in Callers
        PROVE  Phase'[u] = IF u \in late THEN "abandoned"
                           ELSE IF Phase[u] \in {"open", "applied"} THEN "failed"
                           ELSE Phase[u]
    <3>1. CanLand(u)' <=> pc'[u] = "abandoned" /\ Unmoved(u)
        BY <2>2 DEF CanLand, Unmoved
    <3>2. CASE pc[u] = "write"
      <4>1. pc'[u] = "abandoned"
          BY <1>4, <3>2 DEF Restart
      <4>2. QED
          BY <3>1, <3>2, <4>1 DEF Phase
    <3>3. CASE pc[u] \in {"disarm", "get", "written", "arm"}
      <4>1. pc'[u] = "failed"
          BY <1>4, <3>3 DEF Restart
      <4>2. QED
          BY <3>3, <4>1 DEF Phase
    <3>4. CASE pc[u] \in {"idle", "ok", "failed", "abandoned"}
      <4>1. pc'[u] = pc[u]
          BY <1>4, <3>4 DEF Restart
      <4>2. Phase'[u] = Phase[u]
          BY <2>2, <4>1, PhaseKept
      <4>3. Phase[u] \notin {"open", "applied"}
          BY <3>4 DEF Phase
      <4>4. QED
          BY <3>4, <4>2, <4>3
    <3>5. QED
        BY <3>2, <3>3, <3>4 DEF TypeOK, Locations
  <2>4. Phase' = [u \in Callers |-> Phase'[u]]
      BY DEF Phase
  <2>5. Says' = Says
      BY <2>2, SaysKept
  <2>6. Control!Crash
      BY <2>1, <2>2, <2>3, <2>4, <2>5 DEF Control!Crash
  <2>7. QED
      BY <2>6 DEF Control!Next
<1>5. CASE ApplyManifests
  <2> DEFINE w == CodecWorker
  <2>1. /\ \A v \in Workloads \ {w}: deployment'[v] = deployment[v]
        /\ deployment'[w].says = [deployment[w].says EXCEPT !.replicas = 0]
        /\ deployment'[w].version = deployment[w].version + 1
      BY <1>5, ApplyEffect
  <2>2. Says' = [Says EXCEPT ![w].replicas = 0]
      BY <2>1 DEF Says
  <2>3. UNCHANGED <<pc, call, seen>>
      BY <1>5 DEF ApplyManifests
  <2>4. Control!Outdate(w)
      BY <2>1, <2>3, MovedOutdates
  <2>5. Control!BringUp
      BY <2>2, <2>3, <2>4 DEF Control!BringUp
  <2>6. QED
      BY <2>5 DEF Control!Next
<1>6. QED
    BY <1>1, <1>2, <1>3, <1>4, <1>5 DEF Fault

-----------------------------------------------------------------------------
LEMMA NextRefines ==
    ASSUME IInv, [Next]_vars
    PROVE  [Control!Next]_(Control!vars)
<1>1. CASE UNCHANGED vars
  <2>1. UNCHANGED <<Says, Phase, call>>
      BY <1>1 DEF vars, Says, Phase, CanLand, Unmoved
  <2>2. QED
      BY <2>1 DEF Control!vars
<1>2. CASE Next
    BY <1>2, RequestRefines, StepRefines, ExpireRefines, FaultRefines
       DEF Next, IInv
<1>3. QED
    BY <1>1, <1>2

(* The k8s.Manager keeps its promises: reading and then writing with the   *)
(* version that was read is, to every caller, one atomic change made at    *)
(* most once, on what the workload says at that moment, and a write that   *)
(* lands after its error was returned never undoes a change made since.    *)
THEOREM Implementation == Spec => ImplementsControl
<1>1. Init => Control!Init
    BY InitRefines
<1>2. IInv /\ [Next]_vars => [Control!Next]_(Control!vars)
    BY NextRefines
<1>3. QED
    BY <1>1, <1>2, Inductive, PTL DEF Spec, ImplementsControl, Control!Spec
=============================================================================
