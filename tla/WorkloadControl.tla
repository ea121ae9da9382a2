-------------------------- MODULE WorkloadControl --------------------------
(***************************************************************************)
(* What the k8s.Manager promises the callers of start, stop and scale,     *)
(* whatever they do concurrently and whatever the API server or the        *)
(* process does to them:                                                   *)
(*   - a call changes its workload at most once, in one step, on top of    *)
(*     what the workload says at that moment (no update is lost);          *)
(*   - a call is answered with success only after that step;               *)
(*   - a start leaves its workload with an instance at least;              *)
(*   - a call answered with an error may still change its workload later,  *)
(*     but never once something else has changed it in the meantime.       *)
(***************************************************************************)
EXTENDS Workload

VARIABLES
    desired,  \* what each workload's Deployment says
    phase,    \* where each caller's call stands
    request   \* the call each caller makes

vars == <<desired, phase, request>>

Phases == {"idle", "open", "applied", "ok", "failed", "abandoned"}

(* Every workload starts stopped.                                          *)
Init ==
    /\ desired = [w \in Workloads |-> Nothing]
    /\ phase = [t \in Callers |-> "idle"]
    /\ request = [t \in Callers |-> NoCall]

(* A start asks for one instance at least.                                 *)
Invoke(t) ==
    /\ phase[t] = "idle"
    /\ phase' = [phase EXCEPT ![t] = "open"]
    /\ \E w \in Workloads:
          \/ \E n \in 1..MaxInstances, k \in Templates:
                request' = [request EXCEPT ![t] =
                    StartCall(w, [replicas |-> n, template |-> k])]
          \/ request' = [request EXCEPT ![t] = StopCall(w)]
          \/ request' = [request EXCEPT ![t] = ScaleCall(w)]
    /\ UNCHANGED desired

Reject(t) ==
    /\ phase[t] = "idle"
    /\ phase' = [phase EXCEPT ![t] = "failed"]
    /\ UNCHANGED <<desired, request>>

(* The phases once caller t stands at p and workload w says d: if that is  *)
(* news, no call on w that was given up can land any more.                 *)
Superseding(t, p, w, d) ==
    [u \in Callers |->
        IF u = t THEN p
        ELSE IF phase[u] = "abandoned" /\ request[u].on = w /\ desired[w] # d
        THEN "failed"
        ELSE phase[u]]

Change(t, p) ==
    LET w == request[t].on
        d == Effect(request[t], desired[w])
    IN  /\ desired' = [desired EXCEPT ![w] = d]
        /\ phase' = Superseding(t, p, w, d)
        /\ UNCHANGED request

Apply(t) == phase[t] = "open" /\ Change(t, "applied")

(* A call whose answer was an error takes effect after all.                *)
ApplyLate(t) == phase[t] = "abandoned" /\ Change(t, "failed")

NothingToStop(t) ==
    /\ phase[t] = "open"
    /\ request[t].op = "stop"
    /\ desired[request[t].on].replicas = 0
    /\ phase' = [phase EXCEPT ![t] = "ok"]
    /\ UNCHANGED <<desired, request>>

Succeed(t) ==
    /\ phase[t] = "applied"
    /\ phase' = [phase EXCEPT ![t] = "ok"]
    /\ UNCHANGED <<desired, request>>

(* The call is answered with an error; it may or may not still land.       *)
Fail(t) ==
    /\ phase[t] = "open"
    /\ \E p \in {"failed", "abandoned"}: phase' = [phase EXCEPT ![t] = p]
    /\ UNCHANGED <<desired, request>>

(* Calls that were given up on workload w can no longer land.              *)
Outdate(w) ==
    phase' = [u \in Callers |->
                 IF phase[u] = "abandoned" /\ request[u].on = w
                 THEN "failed" ELSE phase[u]]

Supersede(w) == Outdate(w) /\ UNCHANGED <<desired, request>>

(* Nothing but a call changes a workload, except that the codec worker is  *)
(* stopped when the stack is brought up again.                             *)
BringUp ==
    /\ desired' = [desired EXCEPT ![CodecWorker].replicas = 0]
    /\ Outdate(CodecWorker)
    /\ UNCHANGED request

(* The process dies: no call in progress is answered, and those in late    *)
(* have sent something that can still land.                                *)
Crash ==
    /\ \E late \in SUBSET {t \in Callers: phase[t] = "open"}:
          phase' = [t \in Callers |->
                      IF t \in late THEN "abandoned"
                      ELSE IF phase[t] \in {"open", "applied"} THEN "failed"
                      ELSE phase[t]]
    /\ UNCHANGED <<desired, request>>

Next ==
    \/ \E t \in Callers:
          \/ Invoke(t)
          \/ Reject(t)
          \/ Apply(t)
          \/ ApplyLate(t)
          \/ NothingToStop(t)
          \/ Succeed(t)
          \/ Fail(t)
    \/ \E w \in Workloads: Supersede(w)
    \/ BringUp
    \/ Crash

Spec == Init /\ [][Next]_vars
=============================================================================
