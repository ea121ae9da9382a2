----------------------------- MODULE PodsProofs -----------------------------
(***************************************************************************)
(* Proofs about Pods, for any number of pods, kills and streams: the       *)
(* variables keep their types, a kill that is answered with success has    *)
(* spared no process, and what the page is told is true once Kubernetes    *)
(* has nothing left to do.                                                 *)
(*                                                                         *)
(* KilledWhenOk is not inductive: what a kill has spared so far must be    *)
(* among what it has still to signal, and it keeps no such account before  *)
(* it lists or after it answers. That streams are right at rest needs that *)
(* they only follow containers that are there.                             *)
(***************************************************************************)
EXTENDS Pods, FiniteSetTheorems, TLAPS

SparedIsToDo ==
    \A k \in Kills:
        IF kill[k].at \in {"exec", "sent"}
        THEN kill[k].spared \subseteq kill[k].todo
        ELSE kill[k].spared = {}

KillInv == TypeOK /\ SparedIsToDo

-----------------------------------------------------------------------------
LEMMA NewsAreTyped ==
    /\ NoPod \in PodStates
    /\ NewKill \in KillStates
    /\ NewStream \in StreamStates
BY DEF NoPod, PodStates, NewKill, KillStates, NewStream, StreamStates

(* Whatever is counted, the count fits.                                    *)
LEMMA ReadyFits == Cardinality(Ready) \in 0..MaxPods
<1>1. Ready \subseteq Pods
    BY DEF Ready, Live, Listed
<1>2. IsFiniteSet(Pods) /\ Cardinality(Pods) = MaxPods
    BY PodBoundsAreNat, FS_Interval DEF Pods
<1>3. /\ IsFiniteSet(Ready)
      /\ Cardinality(Ready) <= Cardinality(Pods)
    BY <1>1, <1>2, FS_Subset
<1>4. Cardinality(Ready) \in Nat
    BY <1>3, FS_CardinalityType
<1> QED
    BY <1>2, <1>3, <1>4, PodBoundsAreNat

LEMMA UseType ==
    ASSUME left \in [Occasions -> Nat], NEW o \in Occasions, Use(o)
    PROVE  left' \in [Occasions -> Nat]
BY DEF Use

(* A kill record with some of its fields replaced.                         *)
LEMMA BuryTypes ==
    ASSUME kill \in [Kills -> KillStates], NEW p \in Pods
    PROVE  /\ Bury(p) \in [Kills -> KillStates]
           /\ \A k \in Kills: /\ Bury(p)[k].at = kill[k].at
                              /\ Bury(p)[k].todo = kill[k].todo
                              /\ Bury(p)[k].on = kill[k].on
                              /\ Bury(p)[k].spared = kill[k].spared \ {p}
BY DEF Bury, KillStates

LEMMA CloseLogsTypes ==
    ASSUME stream \in [Streams -> StreamStates], NEW p, CloseLogs(p)
    PROVE  stream' \in [Streams -> StreamStates]
BY DEF CloseLogs, StreamStates

LEMMA FailKeeps ==
    ASSUME KillInv, NEW k \in Kills, Fail(k)
    PROVE  kill' \in [Kills -> KillStates] /\ SparedIsToDo'
<1>1. [NewKill EXCEPT !.at = "failed"] \in KillStates
    BY DEF NewKill, KillStates
<1>2. [NewKill EXCEPT !.at = "failed"].at = "failed"
      /\ [NewKill EXCEPT !.at = "failed"].spared = {}
    BY DEF NewKill
<1> DEFINE failed == [NewKill EXCEPT !.at = "failed"]
<1>3. kill' = [kill EXCEPT ![k] = failed]
    BY DEF Fail
<1> HIDE DEF failed
<1> QED
    BY <1>1, <1>2, <1>3 DEF KillInv, TypeOK, SparedIsToDo, failed

LEMMA LoseTypes ==
    ASSUME stream \in [Streams -> StreamStates], NEW s \in Streams, Lose(s)
    PROVE  stream' \in [Streams -> StreamStates]
BY DEF Lose, NewStream, StreamStates

-----------------------------------------------------------------------------
LEMMA PodsInit == Init => KillInv
<1> SUFFICES ASSUME Init PROVE KillInv
    OBVIOUS
<1>1. TypeOK
    <2>1. left \in [Occasions -> Nat]
        BY PodBoundsAreNat DEF Init, Occasions
    <2>2. spec \in Specs /\ ready \in 0..MaxPods
        BY PodBoundsAreNat DEF Init, Specs
    <2> QED
        BY <2>1, <2>2, NewsAreTyped DEF Init, TypeOK
<1>2. SparedIsToDo
    BY DEF Init, SparedIsToDo, NewKill
<1> QED
    BY <1>1, <1>2 DEF KillInv

(* Participants and Kubernetes.                                            *)
LEMMA WorldStep ==
    ASSUME KillInv,
           \/ Start \/ Stop \/ StatusWrite
           \/ \E p \in Pods: Kubernetes(p) \/ WrapperExits(p) \/ BinaryEnds(p)
    PROVE  KillInv'
<1> USE DEF KillInv
<1>1. CASE Start
    <2>1. left' \in [Occasions -> Nat]
        BY <1>1, UseType DEF Start, TypeOK, Occasions
    <2>2. spec' \in Specs
        BY <1>1 DEF Start, Wants
    <2> QED
        BY <1>1, <2>1, <2>2 DEF Start, TypeOK, SparedIsToDo
<1>2. CASE Stop
    <2>1. left' \in [Occasions -> Nat]
        BY <1>2, UseType DEF Stop, TypeOK, Occasions
    <2>2. spec' \in Specs
        BY <1>2, PodBoundsAreNat DEF Stop, TypeOK, Specs
    <2> QED
        BY <1>2, <2>1, <2>2 DEF Stop, TypeOK, SparedIsToDo
<1>3. CASE StatusWrite
    BY <1>3, ReadyFits DEF StatusWrite, TypeOK, SparedIsToDo
<1>4. ASSUME NEW p \in Pods, CreatePod(p) PROVE KillInv'
    <2>1. /\ UNCHANGED <<kind, spec, ready, kill, stream, left>>
          /\ pod' \in [Pods -> PodStates]
        <3>1. PICK second \in {0, 1}:
                  LET last == IF p = 1 THEN 0 ELSE pod[p - 1].born
                  IN  pod' = [pod EXCEPT ![p] =
                         [phase |-> "pending", template |-> spec.template,
                          born |-> last + second, deleting |-> FALSE, box |-> "down"]]
            BY <1>4 DEF CreatePod
        <3> DEFINE last == IF p = 1 THEN 0 ELSE pod[p - 1].born
        <3>2. last \in Nat
            BY PodBoundsAreNat DEF TypeOK, Pods, PodStates
        <3> HIDE DEF last
        <3>3. [phase |-> "pending", template |-> spec.template,
               born |-> last + second, deleting |-> FALSE, box |-> "down"] \in PodStates
            BY <3>2 DEF PodStates, TypeOK, Specs
        <3>4. pod' \in [Pods -> PodStates]
            BY <3>1, <3>3 DEF TypeOK, last
        <3> QED
            BY <1>4, <3>4 DEF CreatePod
    <2> QED
        BY <2>1 DEF TypeOK, SparedIsToDo
<1>5. ASSUME NEW p \in Pods, DeletePod(p) PROVE KillInv'
    BY <1>5 DEF DeletePod, TypeOK, PodStates, SparedIsToDo
<1>6. ASSUME NEW p \in Pods, StartContainer(p) PROVE KillInv'
    BY <1>6 DEF StartContainer, TypeOK, PodStates, SparedIsToDo
<1>7. ASSUME NEW p \in Pods, RemovePod(p) PROVE KillInv'
    <2>1. pod' \in [Pods -> PodStates]
        BY <1>7 DEF RemovePod, TypeOK, PodStates
    <2>2. stream' \in [Streams -> StreamStates]
        BY <1>7, CloseLogsTypes DEF RemovePod, TypeOK
    <2>3. kill' \in [Kills -> KillStates] /\ SparedIsToDo'
        <3>1. kill' = Bury(p) /\ kill \in [Kills -> KillStates]
            BY <1>7 DEF RemovePod, TypeOK
        <3> QED
            BY <3>1, BuryTypes DEF SparedIsToDo
    <2> QED
        BY <1>7, <2>1, <2>2, <2>3 DEF RemovePod, TypeOK
<1>8. ASSUME NEW p \in Pods, WrapperExits(p) PROVE KillInv'
    <2>1. pod' \in [Pods -> PodStates]
        BY <1>8 DEF WrapperExits, TypeOK, PodStates
    <2>2. stream' \in [Streams -> StreamStates]
        BY <1>8, CloseLogsTypes DEF WrapperExits, TypeOK
    <2> QED
        BY <1>8, <2>1, <2>2 DEF WrapperExits, TypeOK, SparedIsToDo
<1>9. ASSUME NEW p \in Pods, BinaryEnds(p) PROVE KillInv'
    <2>1. pod' \in [Pods -> PodStates]
        BY <1>9 DEF BinaryEnds, TypeOK, PodStates
    <2>2. left' \in [Occasions -> Nat]
        BY <1>9, UseType DEF BinaryEnds, TypeOK, Occasions
    <2>3. kill' \in [Kills -> KillStates] /\ SparedIsToDo'
        BY <1>9, BuryTypes DEF BinaryEnds, TypeOK, SparedIsToDo
    <2> QED
        BY <1>9, <2>1, <2>2, <2>3 DEF BinaryEnds, TypeOK
<1> QED
    BY <1>1, <1>2, <1>3, <1>4, <1>5, <1>6, <1>7, <1>8, <1>9 DEF Kubernetes

(* Kills.                                                                  *)
LEMMA KillKeepsInv ==
    ASSUME KillInv, NEW k \in Kills,
           ListPods(k) \/ KillStep(k) \/ KillCallFails(k)
    PROVE  KillInv'
<1> USE DEF KillInv
<1>1. CASE ListPods(k)
    <2> DEFINE listed == [at |-> "exec", todo |-> Listed, on |-> 0,
                          spared |-> {p \in Listed: pod[p].box = "up"}]
    <2>1. kill' = [kill EXCEPT ![k] = listed]
        BY <1>1 DEF ListPods
    <2>2. listed \in KillStates /\ listed.at = "exec" /\ listed.spared \subseteq listed.todo
        BY DEF KillStates, Listed
    <2> HIDE DEF listed
    <2> QED
        BY <1>1, <2>1, <2>2 DEF ListPods, TypeOK, SparedIsToDo
<1>2. ASSUME NEW p \in Pods, Signal(k, p) PROVE KillInv'
    <2>1. pod' \in [Pods -> PodStates]
        BY <1>2 DEF Signal, TypeOK, PodStates
    <2> DEFINE B == Bury(p)
    <2>2. kill' = [B EXCEPT ![k] = [B[k] EXCEPT !.at = "sent", !.todo = @ \ {p}, !.on = p]]
        BY <1>2, BuryTypes DEF Signal, TypeOK
    <2>3. /\ B \in [Kills -> KillStates]
          /\ \A j \in Kills: /\ B[j].at = kill[j].at
                             /\ B[j].todo = kill[j].todo
                             /\ B[j].spared = kill[j].spared \ {p}
        BY BuryTypes DEF TypeOK
    <2> HIDE DEF B
    <2>4. kill' \in [Kills -> KillStates]
        <3>1. [B[k] EXCEPT !.at = "sent", !.todo = @ \ {p}, !.on = p] \in KillStates
            BY <2>3 DEF KillStates
        <3> QED
            BY <2>2, <2>3, <3>1
    <2>5. /\ kill'[k].at = "sent" /\ kill'[k].todo = B[k].todo \ {p}
          /\ kill'[k].spared = B[k].spared
        BY <2>2, <2>3 DEF KillStates
    <2>6. \A j \in Kills \ {k}: kill'[j] = B[j]
        BY <2>2, <2>3
    <2>7. kill[k].spared \subseteq kill[k].todo
        BY <1>2 DEF Signal, SparedIsToDo
    <2>8. SparedIsToDo'
        BY <2>3, <2>5, <2>6, <2>7 DEF SparedIsToDo
    <2> QED
        BY <1>2, <2>1, <2>4, <2>8 DEF Signal, TypeOK
<1>3. ASSUME NEW p \in Pods, NothingToSignal(k, p) PROVE KillInv'
    BY <1>3, FailKeeps DEF NothingToSignal, TypeOK
<1>4. CASE ExecReturns(k)
    <2>1. kill' = [kill EXCEPT ![k] = [kill[k] EXCEPT !.at = "exec", !.on = 0]]
        BY <1>4 DEF ExecReturns, TypeOK
    <2> QED
        BY <1>4, <2>1 DEF ExecReturns, TypeOK, KillStates, SparedIsToDo
<1>5. CASE ExecSevered(k)
    BY <1>5, FailKeeps DEF ExecSevered, TypeOK
<1>6. CASE KillDone(k)
    <2>1. kill[k].spared = {}
        BY <1>6 DEF KillDone, SparedIsToDo
    <2>2. kill' = [kill EXCEPT ![k] = [kill[k] EXCEPT !.at = "ok"]]
        BY <1>6 DEF KillDone, TypeOK
    <2> QED
        BY <1>6, <2>1, <2>2 DEF KillDone, TypeOK, KillStates, SparedIsToDo
<1>7. CASE KillCallFails(k)
    <2>1. left' \in [Occasions -> Nat]
        BY <1>7, UseType DEF KillCallFails, TypeOK, Occasions
    <2> QED
        BY <1>7, <2>1, FailKeeps DEF KillCallFails, TypeOK
<1> QED
    BY <1>1, <1>2, <1>3, <1>4, <1>5, <1>6, <1>7 DEF KillStep

(* Log streams: nothing a kill knows changes.                              *)
LEMMA StreamKeepsInv ==
    ASSUME KillInv, NEW s \in Streams,
           OpenStream(s) \/ StreamStep(s) \/ StreamFails(s) \/ Leave(s)
    PROVE  KillInv'
<1>1. UNCHANGED <<kind, spec, ready, pod, kill>>
    BY DEF OpenStream, StreamStep, FollowLogs, WaitTimesOut, LogsEnd, Reconnect,
           StreamFails, Leave
<1>2. left' \in [Occasions -> Nat]
    <2>1. CASE StreamFails(s)
        BY <2>1, UseType DEF StreamFails, KillInv, TypeOK, Occasions
    <2>2. CASE UNCHANGED left
        BY <2>2 DEF KillInv, TypeOK
    <2> QED
        BY <2>1, <2>2 DEF OpenStream, StreamStep, FollowLogs, WaitTimesOut, LogsEnd,
                          Reconnect, Leave
<1>3. stream' \in [Streams -> StreamStates]
    <2>1. stream \in [Streams -> StreamStates]
        BY DEF KillInv, TypeOK
    <2>2. CASE WaitTimesOut(s) \/ LogsEnd(s) \/ StreamFails(s)
        BY <2>1, <2>2, LoseTypes DEF WaitTimesOut, LogsEnd, StreamFails
    <2>3. CASE OpenStream(s) \/ Reconnect(s) \/ Leave(s)
        BY <2>1, <2>3 DEF OpenStream, Reconnect, Leave, NewStream, StreamStates
    <2>4. CASE FollowLogs(s)
        BY <2>1, <2>4 DEF FollowLogs, MostRecentStarted, Started, Listed, StreamStates
    <2> QED
        BY <2>2, <2>3, <2>4 DEF StreamStep
<1> QED
    BY <1>1, <1>2, <1>3 DEF KillInv, TypeOK, SparedIsToDo

LEMMA PodsStep == KillInv /\ [Next]_vars => KillInv'
<1> SUFFICES ASSUME KillInv, [Next]_vars
             PROVE  KillInv'
    OBVIOUS
<1>1. CASE \/ Start \/ Stop \/ StatusWrite
           \/ \E p \in Pods: Kubernetes(p) \/ WrapperExits(p) \/ BinaryEnds(p)
    BY <1>1, WorldStep
<1>2. CASE \E k \in Kills: ListPods(k) \/ KillStep(k) \/ KillCallFails(k)
    BY <1>2, KillKeepsInv
<1>3. CASE \E s \in Streams: OpenStream(s) \/ StreamStep(s) \/ StreamFails(s) \/ Leave(s)
    BY <1>3, StreamKeepsInv
<1>4. CASE UNCHANGED vars
    BY <1>4 DEF vars, KillInv, TypeOK, SparedIsToDo
<1> QED
    BY <1>1, <1>2, <1>3, <1>4 DEF Next

(* KillInv holds in every reachable state.                                 *)
THEOREM PodsInvariant == Spec => []KillInv
<1> QED
    BY PodsInit, PodsStep, PTL DEF Spec

-----------------------------------------------------------------------------
(* The variables keep their types, and what is reported ready is never     *)
(* more than there is.                                                     *)
THEOREM PodsTypes == Spec => []TypeOK
<1>1. KillInv => TypeOK
    BY DEF KillInv
<1> QED
    BY <1>1, PodsInvariant, PTL

(* A kill that is answered with success has spared no process that ran     *)
(* when it listed the pods, however many pods, kills, crashes, restarts    *)
(* and reconfigurations there were meanwhile.                              *)
THEOREM KillsAreThorough == Spec => []KilledWhenOk
<1>1. KillInv => KilledWhenOk
    BY DEF KillInv, SparedIsToDo, KilledWhenOk
<1> QED
    BY <1>1, PodsInvariant, PTL

-----------------------------------------------------------------------------
(* The workload at rest: every pod is there to stay, its container up, the *)
(* count of them written, and the deployment controller content.           *)
AtRest ==
    /\ Listed = Ready
    /\ ready = Cardinality(Ready)
    /\ ~PodMissing
    /\ \A p \in Pods: ~Superfluous(p)

RightAtRest ==
    AtRest =>
        /\ Status = Actual
        /\ \A s \in Streams: stream[s].at = "following" => stream[s].on \in Current

(* A stream only follows a container that is there.                        *)
FollowsOpen ==
    \A s \in Streams:
        stream[s].at = "following" =>
            stream[s].on \in Listed /\ pod[stream[s].on].box # "down"

(* With nothing to create or delete, the pods are as many as are wanted    *)
(* and all of the present template: one pod of another template would be   *)
(* one too many, or leave one of the present template to be created.       *)
LEMMA RestIsCurrent ==
    ASSUME TypeOK, AtRest
    PROVE  Listed = Current /\ Cardinality(Current) = spec.replicas
<1>1. IsFiniteSet(Pods)
    BY PodBoundsAreNat, FS_Interval DEF Pods
<1>2. Live = Listed /\ Ready = Listed /\ Current \subseteq Listed /\ Listed \subseteq Pods
    BY DEF AtRest, Live, Ready, Current, Listed
<1>3. IsFiniteSet(Listed) /\ IsFiniteSet(Current)
    BY <1>1, <1>2, FS_Subset
<1>4. /\ Cardinality(Listed) \in Nat /\ Cardinality(Current) \in Nat
      /\ spec.replicas \in Nat
    BY <1>3, FS_CardinalityType DEF TypeOK, Specs
<1>5. ASSUME NEW p \in Current PROVE Cardinality(Current) <= spec.replicas
    <2>1. p \in Pods /\ p \in Live
        BY <1>2
    <2>2. ~(Cardinality(Current) > spec.replicas)
        BY <2>1 DEF AtRest, Superfluous
    <2> QED
        BY <1>4, <2>2
<1>6. Cardinality(Current) <= spec.replicas
    <2>1. CASE Current = {}
        BY <1>4, <2>1, FS_EmptySet
    <2>2. CASE Current # {}
        BY <1>5, <2>2
    <2> QED
        BY <2>1, <2>2
<1>7. ASSUME NEW p \in Listed \ Current PROVE FALSE
    <2>1. Cardinality(Listed \ {p}) < spec.replicas
        <3>1. IsFiniteSet(Listed \ {p})
            BY <1>3, FS_RemoveElement
        <3>2. Cardinality(Listed \ {p}) \in Nat
            BY <3>1, FS_CardinalityType
        <3> QED
            BY <1>2, <1>4, <1>7, <3>2 DEF AtRest, Superfluous
    <2>2. Cardinality(Listed \ {p}) = Cardinality(Listed) - 1
        BY <1>3, <1>7, FS_RemoveElement
    <2>3. Cardinality(Listed) <= spec.replicas
        BY <1>4, <2>1, <2>2
    <2>4. Cardinality(Current) >= spec.replicas
        BY <1>2, <1>4, <2>3 DEF AtRest, PodMissing
    <2>5. Cardinality(Current) <= Cardinality(Listed \ {p})
        <3>1. Current \subseteq Listed \ {p} /\ IsFiniteSet(Listed \ {p})
            BY <1>2, <1>3, <1>7, FS_RemoveElement
        <3> QED
            BY <3>1, FS_Subset
    <2> QED
        BY <1>4, <2>1, <2>2, <2>4, <2>5
<1>8. Listed = Current
    BY <1>2, <1>7
<1>9. Cardinality(Current) >= spec.replicas
    BY <1>2, <1>4, <1>8 DEF AtRest, PodMissing
<1> QED
    BY <1>4, <1>6, <1>8, <1>9

LEMMA RestIsRight == TypeOK /\ FollowsOpen => RightAtRest
<1> SUFFICES ASSUME TypeOK, FollowsOpen, AtRest PROVE RightAtRest
    BY DEF RightAtRest
<1>1. Listed = Current /\ Cardinality(Current) = spec.replicas
    BY RestIsCurrent
<1>2. Ready = Listed /\ ready = spec.replicas
    BY <1>1 DEF AtRest
<1>3. Listed = {} <=> spec.replicas = 0
    <2>1. IsFiniteSet(Pods) /\ Listed \subseteq Pods
        BY PodBoundsAreNat, FS_Interval DEF Pods, Listed
    <2> QED
        BY <1>1, <2>1, FS_Subset, FS_EmptySet
<1>4. spec.replicas \in Nat
    BY DEF TypeOK, Specs
<1>5. Status = Actual
    BY <1>2, <1>3, <1>4 DEF Status, Actual
<1> QED
    BY <1>1, <1>5 DEF RightAtRest, FollowsOpen

LEMMA FollowsInit == Init => FollowsOpen
BY DEF Init, FollowsOpen, NewStream

(* The streams stay, and so do the containers they follow.                 *)
LEMMA FollowsStays ==
    ASSUME FollowsOpen, UNCHANGED stream,
           \A p \in Listed: pod[p].box # "down" =>
               /\ pod'[p].phase = pod[p].phase /\ pod'[p].box # "down"
    PROVE  FollowsOpen'
BY DEF FollowsOpen, Listed

(* The container of pod q ends, and with it the streams that followed it.  *)
LEMMA FollowsClosed ==
    ASSUME TypeOK, FollowsOpen, NEW q \in Pods, CloseLogs(q),
           \A p \in Listed \ {q}: pod'[p] = pod[p]
    PROVE  FollowsOpen'
<1> SUFFICES ASSUME NEW s \in Streams, stream'[s].at = "following"
             PROVE  stream'[s].on \in Listed' /\ pod'[stream'[s].on].box # "down"
    BY DEF FollowsOpen
<1>1. stream[s] \in StreamStates
    BY DEF TypeOK
<1>2. stream'[s] = stream[s] /\ stream[s].on # q
    BY <1>1 DEF CloseLogs, StreamStates
<1> QED
    BY <1>2 DEF FollowsOpen, Listed

LEMMA FollowsStep == TypeOK /\ FollowsOpen /\ [Next]_vars => FollowsOpen'
<1> SUFFICES ASSUME TypeOK, FollowsOpen, [Next]_vars PROVE FollowsOpen'
    OBVIOUS
<1>0. pod \in [Pods -> PodStates]
    BY DEF TypeOK
<1>1. CASE Start \/ Stop \/ StatusWrite
    BY <1>1, FollowsStays DEF Start, Stop, StatusWrite
<1>2. ASSUME NEW p \in Pods, CreatePod(p) PROVE FollowsOpen'
    BY <1>0, <1>2, FollowsStays DEF CreatePod, Listed
<1>3. ASSUME NEW p \in Pods, DeletePod(p) PROVE FollowsOpen'
    BY <1>0, <1>3, FollowsStays DEF DeletePod, Listed, PodStates
<1>4. ASSUME NEW p \in Pods, StartContainer(p) PROVE FollowsOpen'
    BY <1>0, <1>4, FollowsStays DEF StartContainer, Listed, PodStates
<1>5. ASSUME NEW p \in Pods, RemovePod(p) PROVE FollowsOpen'
    BY <1>0, <1>5, FollowsClosed DEF RemovePod, Listed
<1>6. ASSUME NEW p \in Pods, WrapperExits(p) PROVE FollowsOpen'
    BY <1>0, <1>6, FollowsClosed DEF WrapperExits, Listed
<1>7. ASSUME NEW p \in Pods, BinaryEnds(p) PROVE FollowsOpen'
    BY <1>0, <1>7, FollowsStays DEF BinaryEnds, Listed, PodStates
<1>8. ASSUME NEW k \in Kills, ListPods(k) \/ KillStep(k) \/ KillCallFails(k)
      PROVE  FollowsOpen'
    <2>1. CASE UNCHANGED <<pod, stream>>
        BY <2>1, FollowsStays
    <2>2. ASSUME NEW p \in Pods, Signal(k, p) PROVE FollowsOpen'
        BY <1>0, <2>2, FollowsStays DEF Signal, Listed, PodStates
    <2> QED
        BY <1>8, <2>1, <2>2
        DEF ListPods, KillStep, NothingToSignal, ExecReturns, ExecSevered,
            KillDone, KillCallFails
<1>9. ASSUME NEW s \in Streams,
             OpenStream(s) \/ StreamStep(s) \/ StreamFails(s) \/ Leave(s)
      PROVE  FollowsOpen'
    <2>0. pod' = pod /\ stream \in [Streams -> StreamStates]
        BY <1>9 DEF TypeOK, OpenStream, StreamStep, FollowLogs, WaitTimesOut, LogsEnd,
                    Reconnect, StreamFails, Leave
    <2>1. CASE FollowLogs(s)
        <3>1. PICK p \in MostRecentStarted:
                  stream' = [stream EXCEPT ![s] =
                      [at |-> IF pod[p].box = "down" THEN "ended" ELSE "following",
                       on |-> p]]
            BY <2>1 DEF FollowLogs
        <3>2. p \in Listed
            BY DEF MostRecentStarted, Started
        <3> QED
            BY <2>0, <3>1, <3>2 DEF FollowsOpen, Listed
    <2>2. CASE ~FollowLogs(s)
        <3>1. PICK r: stream' = [stream EXCEPT ![s] = r] /\ r.at # "following"
            BY <1>9, <2>0, <2>2
            DEF OpenStream, StreamStep, WaitTimesOut, LogsEnd, Reconnect,
                StreamFails, Leave, Lose, NewStream, StreamStates
        <3> QED
            BY <2>0, <3>1 DEF FollowsOpen, Listed
    <2> QED
        BY <2>1, <2>2
<1>10. CASE UNCHANGED vars
    BY <1>10, FollowsStays DEF vars
<1> QED
    BY <1>1, <1>2, <1>3, <1>4, <1>5, <1>6, <1>7, <1>8, <1>9, <1>10
    DEF Next, Kubernetes

(* What StatusSettles and StreamsSettle settle on, for any number of pods  *)
(* and streams: whenever Kubernetes has nothing left to do, the status is  *)
(* what the pods really do, and every stream that follows a pod follows    *)
(* one of the present configuration.                                       *)
THEOREM RestTellsTheTruth == Spec => []RightAtRest
<1>1. KillInv => TypeOK
    BY DEF KillInv
<1> QED
    BY <1>1, RestIsRight, FollowsInit, FollowsStep, PodsInvariant, PTL DEF Spec
=============================================================================
