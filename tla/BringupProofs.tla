--------------------------- MODULE BringupProofs ---------------------------
(***************************************************************************)
(* Proofs about Bringup, for any number of attempts and any bounds: the    *)
(* variables keep their types; success is only reported when every service *)
(* is up or has broken since the script started, and when everything the   *)
(* script registers is there.                                              *)
(*                                                                         *)
(* The last two are not inductive. While the script runs, a service no     *)
(* later call is about is up or has broken; that a call returns only with  *)
(* its service up, unless a later call verifies it, comes from the Program.*)
(* And what the calls it has passed register is there.                     *)
(***************************************************************************)
EXTENDS Bringup, TLAPS

(* The calls that bring services down and up.                              *)
Touching == {"ensure", "release", "verify"}

Touched(s, from) ==
    \E j \in from..22: Program[j].op \in Touching /\ Program[j].on = s

Settled ==
    status = "running" => \A s \in Services: Touched(s, at) \/ Up(s) \/ s \in broke

(* Where the stages belong.                                                *)
StagesInv ==
    /\ status # "running" => at = 1 /\ stage = "begin"
    /\ stage = "wait" => Call.op \in {"ensure", "release"}
    /\ stage \in {"remedy", "rewait", "recheck"} => Call.op = "verify"
    /\ stage \in {"create", "KS_Int"} => Call.op = "attributes"
    /\ stage = "grants" => Call.op = "release"

BringupInv == TypeOK /\ StagesInv /\ Settled /\ HealthyWhenDone

-----------------------------------------------------------------------------
(* The Program, call by call: its services, and that what is ensured is    *)
(* verified later, but for minio, whose rollout is waited for.             *)
LEMMA ProgramLength == Len(Program) = 22 /\ DOMAIN Program = 1..22
BY DEF Program

LEMMA ProgramIs ==
    /\ Program[1] = Do("setup", "k3d")
    /\ Program[2] = Do("ensure", "postgresql")
    /\ Program[3] = Do("ensure", "minio")
    /\ Program[4] = Do("ensure", "prometheus")
    /\ Program[5] = Do("ensure", "grafana")
    /\ Program[6] = Do("release", "cluster-1")
    /\ Program[7] = Do("release", "cluster-2")
    /\ Program[8] = Do("ensure", "bucket-policy")
    /\ Program[9] = Do("ensure", "worker-control-ui")
    /\ Program[10] = Do("ensure", "codec-server")
    /\ Program[11] = Do("verify", "postgresql")
    /\ Program[12] = Do("verify", "cluster-1")
    /\ Program[13] = Register("cluster-1", "default")
    /\ Program[14] = Register("cluster-1", "workshop")
    /\ Program[15] = Do("attributes", "cluster-1")
    /\ Program[16] = Do("verify", "cluster-2")
    /\ Program[17] = Register("cluster-2", "default")
    /\ Program[18] = Do("verify", "bucket-policy")
    /\ Program[19] = Do("verify", "grafana")
    /\ Program[20] = Do("verify", "prometheus")
    /\ Program[21] = Do("verify", "worker-control-ui")
    /\ Program[22] = Do("verify", "codec-server")
BY DEF Program

LEMMA ProgramCalls ==
    ASSUME NEW i \in 1..22
    PROVE  /\ Program[i].op \in Touching => Program[i].on \in Services
           /\ Program[i].op = "namespace" =>
                  <<Program[i].on, Program[i].name>> \in Namespaces
           /\ Program[i].op = "verify" => Program[i].on # "minio"
           /\ Program[i].op = "release" => Program[i].on \in Releases
<1>1. i \in {1,2,3,4,5,6,7,8,9,10,11,12,13,14,15,16,17,18,19,20,21,22}
    OBVIOUS
<1> QED
    BY <1>1, ProgramIs DEF Do, Register, Touching, Services, Releases, Namespaces

LEMMA TouchedBy ==
    ASSUME NEW j \in 1..22, NEW k \in 1..j, NEW s, Program[j] = Do("verify", s)
    PROVE  Touched(s, k)
<1>1. j \in k..22
    OBVIOUS
<1> QED
    BY <1>1 DEF Touched, Touching, Do

LEMMA VerifiedLater ==
    /\ Touched("postgresql", 3)
    /\ Touched("prometheus", 5)
    /\ Touched("grafana", 6)
    /\ Touched("cluster-1", 7)
    /\ Touched("cluster-2", 8)
    /\ Touched("bucket-policy", 9)
    /\ Touched("worker-control-ui", 10)
    /\ Touched("codec-server", 11)
<1>1. Touched("postgresql", 3)
    BY ProgramIs, TouchedBy, 3 \in 1..11
<1>2. Touched("prometheus", 5)
    BY ProgramIs, TouchedBy, 5 \in 1..20
<1>3. Touched("grafana", 6)
    BY ProgramIs, TouchedBy, 6 \in 1..19
<1>4. Touched("cluster-1", 7)
    BY ProgramIs, TouchedBy, 7 \in 1..12
<1>5. Touched("cluster-2", 8)
    BY ProgramIs, TouchedBy, 8 \in 1..16
<1>6. Touched("bucket-policy", 9)
    BY ProgramIs, TouchedBy, 9 \in 1..18
<1>7. Touched("worker-control-ui", 10)
    BY ProgramIs, TouchedBy, 10 \in 1..21
<1>8. Touched("codec-server", 11)
    BY ProgramIs, TouchedBy, 11 \in 1..22
<1> QED
    BY <1>1, <1>2, <1>3, <1>4, <1>5, <1>6, <1>7, <1>8

LEMMA EnsuredIsVerified ==
    ASSUME NEW i \in 1..22, Program[i].op \in {"ensure", "release"},
           Program[i].on # "minio"
    PROVE  Touched(Program[i].on, i + 1)
<1>1. i \in {1,2,3,4,5,6,7,8,9,10,11,12,13,14,15,16,17,18,19,20,21,22}
    OBVIOUS
<1>2. i \in {2, 4, 5, 6, 7, 8, 9, 10}
    BY <1>1, ProgramIs DEF Do, Register
<1> QED
    BY <1>2, ProgramIs, VerifiedLater DEF Do

LEMMA AllAreTouched == \A s \in Services: Touched(s, 1)
<1>1. \A s, k: k \in 1..22 /\ Touched(s, k) => Touched(s, 1)
    BY DEF Touched
<1>2. Touched("minio", 1)
    <2>1. 3 \in 1..22
        OBVIOUS
    <2> QED
        BY <2>1, ProgramIs DEF Touched, Touching, Do
<1> QED
    BY <1>1, <1>2, VerifiedLater DEF Services, Releases

-----------------------------------------------------------------------------
(* How the script goes on.                                                 *)
LEMMA SpendType ==
    ASSUME TypeOK, NEW b \in Troubles, Spend(b)
    PROVE  budget' \in [Troubles -> Nat]
BY DEF TypeOK, Spend

LEMMA PutType ==
    ASSUME TypeOK, NEW s, NEW x \in {"absent", "unhealthy", "healthy"}, Put(s, x)
    PROVE  /\ state' \in [Services -> {"absent", "unhealthy", "healthy"}]
           /\ \A u \in Services: u # s => state'[u] = state[u]
BY DEF TypeOK, Put

LEMMA CycledType ==
    ASSUME TypeOK, NEW s \in Services, Cycled(s)
    PROVE  /\ state' \in [Services -> {"absent", "unhealthy", "healthy"}]
           /\ \A u \in Services: u # s => state'[u] = state[u]
BY DEF TypeOK, Cycled, Put

(* Where the script is.                                                    *)
Control ==
    /\ status \in {"stopped", "running", "done", "aborted"}
    /\ at \in DOMAIN Program
    /\ stage \in Stages
    /\ attempt \in 1..MaxAttempts
    /\ StagesInv

LEMMA ExitKeeps ==
    ASSUME Exit
    PROVE  Control' /\ Settled' /\ HealthyWhenDone'
<1>1. at' \in DOMAIN Program /\ attempt' \in 1..MaxAttempts
    BY ProgramLength, BoundsAreNat DEF Exit
<1> QED
    BY <1>1 DEF Exit, Control, StagesInv, Stages, Settled, HealthyWhenDone

(* Only the service the call is about has changed.                         *)
Local ==
    \A s \in Services:
        (Call.op \in Touching /\ s = Call.on) \/ state'[s] = state[s]

LEMMA InCall ==
    ASSUME BringupInv, status = "running", Local, UNCHANGED <<status, at, broke>>
    PROVE  Settled' /\ HealthyWhenDone'
<1>1. HealthyWhenDone'
    BY DEF HealthyWhenDone
<1>2. ASSUME NEW s \in Services PROVE Touched(s, at) \/ Up(s)' \/ s \in broke
    <2>1. CASE Call.op \in Touching /\ s = Call.on
        <3>1. at \in at..22
            BY ProgramLength DEF BringupInv, TypeOK
        <3> QED
            BY <2>1, <3>1 DEF Touched, Call
    <2>2. CASE state'[s] = state[s]
        BY <2>2 DEF BringupInv, Settled, Up
    <2> QED
        BY <2>1, <2>2 DEF Local
<1> QED
    BY <1>1, <1>2 DEF Settled, Touched

(* A call that returns leaves its service up, or a later one will.         *)
LEMMA ReturnKeeps ==
    ASSUME BringupInv, status = "running", Return, Local, UNCHANGED broke,
           Call.op \in Touching => Touched(Call.on, at + 1) \/ state'[Call.on] = "healthy"
    PROVE  Control' /\ Settled' /\ HealthyWhenDone'
<1>1. at \in 1..22 /\ Len(Program) = 22
    BY ProgramLength DEF BringupInv, TypeOK
<1>2. ASSUME NEW s \in Services
      PROVE  Touched(s, at + 1) \/ Up(s)' \/ s \in broke
    <2>1. CASE Call.op \in Touching /\ s = Call.on
        BY <2>1 DEF Up
    <2>2. CASE ~(Call.op \in Touching /\ s = Call.on)
        <3>1. state'[s] = state[s]
            BY <2>2 DEF Local
        <3>2. Touched(s, at) \/ Up(s) \/ s \in broke
            BY DEF BringupInv, Settled
        <3>3. Touched(s, at) => Touched(s, at + 1)
            <4> SUFFICES ASSUME NEW j \in at..22, Program[j].op \in Touching,
                                Program[j].on = s
                         PROVE  Touched(s, at + 1)
                BY DEF Touched
            <4>1. j # at
                BY <2>2 DEF Call
            <4>2. j \in (at + 1)..22
                BY <1>1, <4>1
            <4> QED
                BY <4>2 DEF Touched
        <3> QED
            BY <3>1, <3>2, <3>3 DEF Up
    <2> QED
        BY <2>1, <2>2
<1>3. CASE at < 22
    <2>1. at' = at + 1 /\ status' = "running" /\ stage' = "begin" /\ attempt' = 1
        BY <1>1, <1>3 DEF Return
    <2>2. Control'
        BY <1>1, <1>3, <2>1, ProgramLength, BoundsAreNat
        DEF Control, StagesInv, Stages
    <2>3. Settled'
        BY <1>2, <2>1 DEF Settled, Touched
    <2> QED
        BY <2>1, <2>2, <2>3 DEF HealthyWhenDone
<1>4. CASE at = 22
    <2>1. at' = 1 /\ status' = "done" /\ stage' = "begin" /\ attempt' = 1
        BY <1>1, <1>4 DEF Return
    <2>2. Control'
        BY <2>1, ProgramLength, BoundsAreNat DEF Control, StagesInv, Stages
    <2>3. HealthyWhenDone'
        <3>1. \A s: ~Touched(s, 23)
            BY DEF Touched
        <3> QED
            BY <1>2, <1>4, <3>1 DEF HealthyWhenDone, Up
    <2> QED
        BY <2>1, <2>2, <2>3 DEF Settled
<1> QED
    BY <1>1, <1>3, <1>4

-----------------------------------------------------------------------------
(* The invariant holds at first.                                           *)
LEMMA BringupInit == Init => BringupInv
<1> SUFFICES ASSUME Init PROVE BringupInv
    OBVIOUS
<1>1. TypeOK
    <2>1. budget \in [Troubles -> Nat]
        BY BoundsAreNat DEF Init, Troubles
    <2>2. at \in DOMAIN Program /\ attempt \in 1..MaxAttempts
        BY ProgramLength, BoundsAreNat DEF Init
    <2>3. granted \in BOOLEAN /\ visible \in BOOLEAN
        BY DEF Init
    <2>4. state \in [Services -> {"absent", "unhealthy", "healthy"}]
        BY DEF Init
    <2> QED
        BY <2>1, <2>2, <2>3, <2>4 DEF Init, TypeOK, Stages
<1> QED
    BY <1>1 DEF Init, BringupInv, StagesInv, Settled, HealthyWhenDone

(* A service stays settled while others are started again.                 *)
LEMMA BringupBegins ==
    ASSUME BringupInv, status # "running", status' = "running",
           UNCHANGED <<at, stage, attempt>>
    PROVE  Control' /\ Settled' /\ HealthyWhenDone'
<1>1. at = 1 /\ stage = "begin"
    BY DEF BringupInv, StagesInv
<1> QED
    BY <1>1, AllAreTouched
    DEF BringupInv, TypeOK, Control, StagesInv, Settled, Touched, HealthyWhenDone

(* Calls that only return, or only look.                                   *)
LEMMA BringupScript == BringupInv /\ Script => BringupInv'
<1> SUFFICES ASSUME BringupInv, Script PROVE BringupInv'
    OBVIOUS
<1> DEFINE s == Call.on
<1> DEFINE Data == /\ state \in [Services -> {"absent", "unhealthy", "healthy"}]
                   /\ granted \in BOOLEAN
                   /\ namespaces \subseteq Namespaces
                   /\ visible \in BOOLEAN
                   /\ attributes \subseteq Attributes
                   /\ budget \in [Troubles -> Nat]
                   /\ broke \subseteq Services
<1>0. Data /\ Control /\ at \in 1..22
    BY ProgramLength DEF BringupInv, TypeOK, Control
<1>a. SUFFICES Data' /\ Control' /\ Settled' /\ HealthyWhenDone'
    BY DEF BringupInv, TypeOK, Control
<1>b. Call.op \in Touching => s \in Services
    BY <1>0, ProgramCalls DEF Call
<1>1. CASE Setup
    <2>1. Data' /\ Local
        BY <1>0, <1>1 DEF Setup, env, Local
    <2> QED
        BY <1>1, <2>1, ReturnKeeps DEF Setup, Doing, Touching
<1>2. CASE Ensure
    <2>1. Call.op = "ensure" /\ s \in Services /\ status = "running"
        BY <1>2, <1>b DEF Ensure, Doing, Touching
    <2>2. CASE UNCHANGED state /\ Return
        <3>1. s # "minio"
            BY <1>2, <2>1, <2>2, ProgramLength, <1>0
            DEF Ensure, Doing, GoOn, Return, Restarted
        <3>2. Touched(s, at + 1)
            BY <1>0, <2>1, <3>1, EnsuredIsVerified DEF Call
        <3> QED
            BY <1>0, <1>2, <2>1, <2>2, <3>2, ReturnKeeps DEF Ensure, Local
    <2>3. CASE s = "bucket-policy" /\ Put(s, "unhealthy") /\ Return
        <3>1. Touched(s, at + 1)
            BY <1>0, <2>1, <2>3, EnsuredIsVerified DEF Call
        <3>2. Local /\ state' \in [Services -> {"absent", "unhealthy", "healthy"}]
            BY <2>1, <2>3, PutType DEF Local, Touching, BringupInv
        <3> QED
            BY <1>0, <1>2, <2>1, <2>3, <3>1, <3>2, ReturnKeeps DEF Ensure
    <2>4. CASE Put(s, "unhealthy") /\ GoOn("wait")
        <3>1. Local /\ state' \in [Services -> {"absent", "unhealthy", "healthy"}]
            BY <2>1, <2>4, PutType DEF Local, Touching, BringupInv
        <3>2. Control'
            BY <1>0, <2>1, <2>4 DEF GoOn, Control, StagesInv, Stages, Call
        <3> QED
            BY <1>0, <1>2, <2>1, <2>4, <3>1, <3>2, InCall DEF Ensure, GoOn
    <2> QED
        BY <1>2, <2>2, <2>3, <2>4 DEF Ensure
<1>3. CASE EnsureRelease
    <2>1. Call.op = "release" /\ s \in Services /\ status = "running" /\ s # "minio"
        BY <1>0, <1>3, <1>b, ProgramCalls
        DEF EnsureRelease, Doing, Touching, Call, Releases
    <2>2. CASE UNCHANGED state /\ Return
        <3>1. Touched(s, at + 1)
            BY <1>0, <2>1, EnsuredIsVerified DEF Call
        <3> QED
            BY <1>0, <1>3, <2>1, <2>2, <3>1, ReturnKeeps DEF EnsureRelease, Local
    <2>3. ASSUME NEW g \in {"grants", "wait"}, Put(s, "unhealthy"), GoOn(g)
          PROVE  Data' /\ Control' /\ Settled' /\ HealthyWhenDone'
        <3>1. Local /\ state' \in [Services -> {"absent", "unhealthy", "healthy"}]
            BY <2>1, <2>3, PutType DEF Local, Touching, BringupInv
        <3>2. Control'
            BY <1>0, <2>1, <2>3 DEF GoOn, Control, StagesInv, Stages, Call
        <3> QED
            BY <1>0, <1>3, <2>1, <2>3, <3>1, <3>2, InCall DEF EnsureRelease, GoOn
    <2> QED
        BY <1>3, <2>2, <2>3 DEF EnsureRelease
<1>4. CASE Grants
    <2>1. Local /\ Data' /\ status = "running" /\ Call.op = "release"
        BY <1>0, <1>4 DEF Grants, Local, Doing
    <2>2. Control'
        BY <1>0, <1>4, <2>1 DEF Grants, GoOn, Control, StagesInv, Stages, Call
    <2> QED
        BY <1>4, <2>1, <2>2, InCall DEF Grants, GoOn
<1>5. CASE Waited
    <2>1. Local /\ Data' /\ status = "running" /\ state'[s] = "healthy"
        BY <1>0, <1>5 DEF Waited, Local, env, Up
    <2>2. CASE Return
        BY <1>5, <2>1, <2>2, ReturnKeeps DEF Waited
    <2>3. CASE stage = "rewait" /\ GoOn("recheck")
        <3>1. Control'
            BY <1>0, <2>1, <2>3 DEF GoOn, Control, StagesInv, Stages, Call
        <3> QED
            BY <1>5, <2>1, <2>3, <3>1, InCall DEF Waited, GoOn
    <2> QED
        BY <1>5, <2>2, <2>3 DEF Waited
<1>6. CASE Check
    <2>1. Local /\ Data' /\ status = "running" /\ Call.op = "verify"
        BY <1>0, <1>6 DEF Check, Local, env, Doing
    <2>2. CASE Passes(s) /\ Return
        BY <1>6, <2>1, <2>2, ReturnKeeps DEF Check, Passes, Up, env
    <2>3. CASE GoOn("remedy")
        <3>1. Control'
            BY <1>0, <2>1, <2>3 DEF GoOn, Control, StagesInv, Stages, Call
        <3> QED
            BY <1>6, <2>1, <2>3, <3>1, InCall DEF Check, GoOn
    <2> QED
        BY <1>6, <2>2, <2>3 DEF Check
<1>7. CASE Remedy
    <2>1. Call.op = "verify" /\ s \in Services /\ status = "running"
        BY <1>7, <1>b DEF Remedy, Doing, Touching
    <2>2. Local /\ Data'
        BY <1>0, <1>7, <2>1, CycledType DEF Remedy, Local, Touching, BringupInv
    <2>3. Control' /\ UNCHANGED <<status, at>>
        BY <1>0, <1>7, <2>1 DEF Remedy, GoOn, Control, StagesInv, Stages, Call
    <2> QED
        BY <1>7, <2>1, <2>2, <2>3, InCall DEF Remedy
<1>8. CASE Recheck
    <2>1. Local /\ Data' /\ status = "running" /\ state'[s] = "healthy"
        BY <1>0, <1>8 DEF Recheck, Local, env, Doing, Passes, Up
    <2> QED
        BY <1>8, <2>1, ReturnKeeps DEF Recheck
<1>9. CASE EnsureNamespace
    <2>1. Local /\ status = "running" /\ Call.op = "namespace"
        BY <1>9 DEF EnsureNamespace, Local, Doing
    <2>2. Data'
        BY <1>0, <1>9, <2>1, ProgramCalls DEF EnsureNamespace, Call
    <2> QED
        BY <1>9, <2>1, <2>2, ReturnKeeps DEF EnsureNamespace, Touching
<1>10. CASE HasAttributes
    <2>1. Local /\ Data' /\ status = "running" /\ Call.op = "attributes"
        BY <1>0, <1>10 DEF HasAttributes, Local, env, Doing
    <2> QED
        BY <1>10, <2>1, ReturnKeeps DEF HasAttributes, Touching
<1>11. CASE HasNoAttributes
    <2>1. Local /\ status = "running" /\ Call.op = "attributes"
        BY <1>11 DEF HasNoAttributes, Local, env, Doing
    <2>2. budget' \in [Troubles -> Nat]
        BY <1>0, <1>11, SpendType DEF HasNoAttributes, Troubles, BringupInv
    <2>3. Control'
        BY <1>0, <1>11, <2>1
        DEF HasNoAttributes, GoOn, Control, StagesInv, Stages, Call
    <2> QED
        BY <1>0, <1>11, <2>1, <2>2, <2>3, InCall DEF HasNoAttributes, GoOn, env
<1>12. CASE CreateFirst
    <2>1. Local /\ Data' /\ status = "running" /\ Call.op = "attributes"
        BY <1>0, <1>12 DEF CreateFirst, Local, Doing, Attributes
    <2>2. Control'
        BY <1>0, <1>12, <2>1
        DEF CreateFirst, GoOn, Control, StagesInv, Stages, Call
    <2> QED
        BY <1>12, <2>1, <2>2, InCall DEF CreateFirst, GoOn
<1>13. CASE CreateFirstFails
    <2>1. Local /\ status = "running"
        BY <1>13 DEF CreateFirstFails, Local, Doing
    <2>2. budget' \in [Troubles -> Nat]
        BY <1>0, <1>13, SpendType DEF CreateFirstFails, Failed, Troubles, BringupInv
    <2>3. attributes' \subseteq Attributes
        BY <1>0, <1>13 DEF CreateFirstFails, Failed, Attributes
    <2>4. CASE Exit
        BY <1>0, <1>13, <2>2, <2>3, <2>4, ExitKeeps DEF CreateFirstFails
    <2>5. CASE attempt # MaxAttempts /\ attempt' = attempt + 1
                  /\ UNCHANGED <<status, at, stage>>
        <3>1. attempt' \in 1..MaxAttempts
            BY <1>0, <2>5, BoundsAreNat DEF Control
        <3>2. Control'
            BY <1>0, <2>5, <3>1 DEF Control, StagesInv, Call
        <3> QED
            BY <1>0, <1>13, <2>1, <2>2, <2>3, <2>5, <3>2, InCall DEF CreateFirstFails
    <2> QED
        BY <1>13, <2>4, <2>5 DEF CreateFirstFails
<1>14. CASE CreateSecond
    <2>1. Local /\ Data' /\ status = "running" /\ Call.op = "attributes"
        BY <1>0, <1>14 DEF CreateSecond, Local, Doing, Attributes
    <2> QED
        BY <1>14, <2>1, ReturnKeeps DEF CreateSecond, Touching
<1>15. CASE TimesOut
    <2>1. budget' \in [Troubles -> Nat]
        BY <1>0, <1>15, SpendType DEF TimesOut, Troubles, BringupInv
    <2> QED
        BY <1>0, <1>15, <2>1, ExitKeeps DEF TimesOut, env
<1>16. CASE Unreachable
    <2>1. state' \in [Services -> {"absent", "unhealthy", "healthy"}]
        BY <1>0, <1>16, PutType DEF Unreachable, BringupInv
    <2> QED
        BY <1>0, <1>16, <2>1, ExitKeeps DEF Unreachable
<1> QED
    BY <1>1, <1>2, <1>3, <1>4, <1>5, <1>6, <1>7, <1>8, <1>9, <1>10, <1>11,
       <1>12, <1>13, <1>14, <1>15, <1>16 DEF Script

(* Every step keeps it.                                                    *)
LEMMA BringupStep == BringupInv /\ [Next]_vars => BringupInv'
<1> SUFFICES ASSUME BringupInv, [Next]_vars PROVE BringupInv'
    OBVIOUS
<1>0. TypeOK /\ StagesInv /\ at \in 1..22
    BY ProgramLength DEF BringupInv, TypeOK
<1>1. CASE Start
    BY <1>0, <1>1, BringupBegins DEF Start, env, BringupInv, Control, TypeOK
<1>2. CASE Restart
    <2>1. state' \in [Services -> {"absent", "unhealthy", "healthy"}]
        BY <1>0, <1>2 DEF Restart, TypeOK
    <2>2. budget' \in [Troubles -> Nat]
        BY <1>0, <1>2, SpendType DEF Restart, Troubles
    <2> QED
        BY <1>0, <1>2, <2>1, <2>2, BringupBegins
        DEF Restart, BringupInv, Control, TypeOK
<1>3. CASE Script
    BY <1>3, BringupScript
<1>4. CASE CommandFails
    <2> DEFINE s == Call.on
    <2>1. state' \in [Services -> {"absent", "unhealthy", "healthy"}]
        <3>1. CASE UNCHANGED state
            BY <1>0, <3>1 DEF TypeOK
        <3>2. CASE Cycled(s) /\ Call.op \in Touching
            BY <1>0, <3>2, CycledType, ProgramCalls DEF Call
        <3> QED
            BY <1>0, <1>4, <3>1, <3>2 DEF CommandFails, StagesInv, Touching
    <2>2. budget' \in [Troubles -> Nat]
        BY <1>0, <1>4, SpendType DEF CommandFails, Troubles
    <2>3. namespaces' \subseteq Namespaces
        BY <1>0, <1>4, ProgramCalls DEF CommandFails, TypeOK, Call
    <2>4. attributes' \subseteq Attributes
        BY <1>0, <1>4 DEF CommandFails, TypeOK, Attributes
    <2>5. granted' \in BOOLEAN /\ visible' \in BOOLEAN /\ broke' \subseteq Services
        BY <1>0, <1>4 DEF CommandFails, TypeOK
    <2>6. Control' /\ Settled' /\ HealthyWhenDone'
        BY <1>4, ExitKeeps DEF CommandFails
    <2> QED
        BY <2>1, <2>2, <2>3, <2>4, <2>5, <2>6 DEF BringupInv, TypeOK, Control
<1>5. ASSUME NEW s \in Services, Break(s) PROVE BringupInv'
    <2>1. budget' \in [Troubles -> Nat]
        BY <1>0, <1>5, SpendType DEF Break, Troubles
    <2>2. /\ state' \in [Services -> {"absent", "unhealthy", "healthy"}]
          /\ \A u \in Services: u # s => state'[u] = state[u]
        BY <1>0, <1>5, PutType DEF Break
    <2>3. granted' \in BOOLEAN /\ broke' \subseteq Services
        BY <1>0, <1>5 DEF Break, TypeOK
    <2>4. TypeOK'
        BY <1>0, <1>5, <2>1, <2>2, <2>3 DEF Break, TypeOK
    <2>5. Settled' /\ HealthyWhenDone' /\ StagesInv'
        BY <1>0, <1>5, <2>2
        DEF Break, BringupInv, Settled, Touched, HealthyWhenDone, Up, StagesInv, Call
    <2> QED
        BY <2>4, <2>5 DEF BringupInv
<1>6. ASSUME NEW s \in Services, Recover(s) PROVE BringupInv'
    <2>1. /\ state' \in [Services -> {"absent", "unhealthy", "healthy"}]
          /\ \A u \in Services: u # s => state'[u] = state[u]
        BY <1>0, <1>6, PutType DEF Recover
    <2>2. TypeOK'
        BY <1>0, <1>6, <2>1 DEF Recover, TypeOK
    <2>3. Settled' /\ HealthyWhenDone' /\ StagesInv'
        BY <1>0, <1>6, <2>1, <2>2
        DEF Recover, BringupInv, Settled, Touched, HealthyWhenDone, Up,
            StagesInv, Call, Put, TypeOK
    <2> QED
        BY <2>2, <2>3 DEF BringupInv
<1>7. CASE CacheRefresh
    BY <1>0, <1>7 DEF CacheRefresh, BringupInv, TypeOK, Settled, Touched,
                      HealthyWhenDone, Up, StagesInv, Call
<1>8. CASE UNCHANGED vars
    BY <1>0, <1>8 DEF vars, BringupInv, TypeOK, Settled, Touched,
                      HealthyWhenDone, Up, StagesInv, Call
<1> QED
    BY <1>1, <1>2, <1>3, <1>4, <1>5, <1>6, <1>7, <1>8 DEF Next

LEMMA BringupInductive == Spec => []BringupInv
BY BringupInit, BringupStep, PTL DEF Spec

-----------------------------------------------------------------------------
(* What gets registered. Not inductive either: while the script runs, what *)
(* the calls it has passed register is there; the first two attributes     *)
(* come together; and the third is missing behind them only until the call *)
(* that creates it, or after a mishap.                                     *)
First == {"OmesExecutionID", "KS_Keyword"} \subseteq attributes

Past(i) ==
    /\ i > 13 => <<"cluster-1", "default">> \in namespaces
    /\ i > 14 => <<"cluster-1", "workshop">> \in namespaces
    /\ i > 15 => First
    /\ i > 17 => <<"cluster-2", "default">> \in namespaces

Passed ==
    /\ status = "running" => Past(at)
    /\ status = "done" => Past(23)

Accounts ==
    /\ budget["failure"] <= MaxFailures /\ budget["break"] <= MaxBreaks
    /\ broke # {} => budget["break"] < MaxBreaks

Half ==
    /\ "OmesExecutionID" \in attributes => First
    /\ First => "KS_Int" \in attributes \/ stage = "KS_Int" \/ Mishap
    /\ stage = "KS_Int" => First

RegisterInv == Accounts /\ Half /\ Passed

(* Nothing is ever unregistered, and no mishap undone.                     *)
Grows ==
    /\ namespaces \subseteq namespaces'
    /\ attributes \subseteq attributes'
    /\ Mishap => Mishap'

LEMMA SpendLess ==
    ASSUME TypeOK, NEW b \in Troubles, Spend(b)
    PROVE  /\ budget'[b] < budget[b]
           /\ \A o \in Troubles: budget'[o] <= budget[o]
<1>1. /\ \A o \in Troubles: budget[o] \in Nat
      /\ budget'[b] = budget[b] - 1
      /\ \A o \in Troubles: o # b => budget'[o] = budget[o]
    BY DEF TypeOK, Spend
<1> QED
    BY <1>1

LEMMA FailureIsMishap ==
    ASSUME TypeOK, Accounts, Spend("failure"), UNCHANGED broke
    PROVE  Accounts' /\ Mishap'
<1>1. /\ budget'["failure"] < budget["failure"]
      /\ budget'["break"] <= budget["break"]
    BY SpendLess DEF Troubles
<1>2. /\ budget["failure"] \in Nat /\ budget["break"] \in Nat
      /\ budget'["failure"] \in Nat /\ budget'["break"] \in Nat
    BY SpendType DEF TypeOK, Troubles
<1> QED
    BY <1>1, <1>2, BoundsAreNat DEF Accounts, Mishap

(* Where the calls about namespaces and attributes are.                    *)
LEMMA CallsAt ==
    ASSUME at \in 1..22
    PROVE  /\ Call.op = "attributes" => at = 15 /\ Call.on = "cluster-1"
           /\ Call.op = "namespace" =>
                  \/ at = 13 /\ Call.on = "cluster-1" /\ Call.name = "default"
                  \/ at = 14 /\ Call.on = "cluster-1" /\ Call.name = "workshop"
                  \/ at = 17 /\ Call.on = "cluster-2" /\ Call.name = "default"
           /\ at \in {13, 14, 17} => Call.op = "namespace"
           /\ at = 15 => Call.op = "attributes"
<1>1. at \in {1,2,3,4,5,6,7,8,9,10,11,12,13,14,15,16,17,18,19,20,21,22}
    OBVIOUS
<1> QED
    BY <1>1, ProgramIs DEF Call, Do, Register

(* cluster-1 was verified before its attributes are created: if it is down *)
(* by then, it broke.                                                      *)
LEMMA DownIsMishap ==
    ASSUME BringupInv, Accounts, status = "running", at = 15, ~Up("cluster-1")
    PROVE  Mishap
<1>1. ~Touched("cluster-1", 15)
    <2> SUFFICES ASSUME NEW j \in 15..22, Program[j].op \in Touching,
                        Program[j].on = "cluster-1"
                 PROVE  FALSE
        BY DEF Touched
    <2>1. j \in {15, 16, 17, 18, 19, 20, 21, 22}
        OBVIOUS
    <2> QED
        BY <2>1, ProgramIs DEF Do, Register, Touching
<1>2. "cluster-1" \in broke
    BY <1>1 DEF BringupInv, Settled, Services, Releases
<1> QED
    BY <1>2 DEF Accounts, Mishap

(* A call that returns has registered what it is to register.              *)
LEMMA ReturnRegisters ==
    ASSUME BringupInv, RegisterInv, status = "running", Return, Grows,
           at = 15 => First',
           Call.op = "namespace" => <<Call.on, Call.name>> \in namespaces'
    PROVE  Passed' /\ stage' = "begin"
<1>1. at \in 1..22 /\ Len(Program) = 22
    BY ProgramLength DEF BringupInv, TypeOK
<1>2. Past(at)
    BY DEF RegisterInv, Passed
<1>3. /\ at + 1 > 13 => <<"cluster-1", "default">> \in namespaces'
      /\ at + 1 > 14 => <<"cluster-1", "workshop">> \in namespaces'
      /\ at + 1 > 15 => First'
      /\ at + 1 > 17 => <<"cluster-2", "default">> \in namespaces'
    <2>1. at + 1 > 13 => at > 13 \/ at = 13
        BY <1>1
    <2>2. at + 1 > 14 => at > 14 \/ at = 14
        BY <1>1
    <2>3. at + 1 > 15 => at > 15 \/ at = 15
        BY <1>1
    <2>4. at + 1 > 17 => at > 17 \/ at = 17
        BY <1>1
    <2> QED
        BY <1>1, <1>2, <2>1, <2>2, <2>3, <2>4, CallsAt DEF Past, First, Grows
<1>4. CASE at < 22
    BY <1>1, <1>3, <1>4 DEF Return, Passed, Past
<1>5. CASE at = 22
    <2>1. status' = "done" /\ stage' = "begin"
        BY <1>1, <1>5 DEF Return
    <2>2. Past(23)'
        BY <1>3, <1>5 DEF Past
    <2> QED
        BY <2>1, <2>2 DEF Passed
<1> QED
    BY <1>1, <1>4, <1>5

(* Elsewhere the script stays, or ends.                                    *)
LEMMA StaysPassed ==
    ASSUME Passed, UNCHANGED <<status, at>>, Grows
    PROVE  Passed'
BY DEF Passed, Past, First, Grows

LEMMA ExitPassed ==
    ASSUME Exit
    PROVE  Passed' /\ stage' = "begin"
BY DEF Exit, Passed

LEMMA HalfStays ==
    ASSUME Half, UNCHANGED attributes, Grows,
           stage = "KS_Int" => Mishap',
           stage' # "KS_Int"
    PROVE  Half'
BY DEF Half, First, Grows

LEMMA RegisterInit == Init => RegisterInv
BY BoundsAreNat DEF Init, RegisterInv, Accounts, Half, Passed, First, Troubles

LEMMA RegisterScript == BringupInv /\ RegisterInv /\ Script => RegisterInv'
<1> SUFFICES ASSUME BringupInv, RegisterInv, Script PROVE RegisterInv'
    OBVIOUS
<1>0. TypeOK /\ StagesInv /\ Accounts /\ Half /\ Passed /\ at \in 1..22
    BY ProgramLength DEF BringupInv, TypeOK, RegisterInv
<1> DEFINE Quiet == UNCHANGED <<namespaces, attributes, budget, broke>>
<1>1. ASSUME Quiet PROVE Accounts' /\ Grows
    BY <1>0, <1>1 DEF Accounts, Grows, Mishap
<1>2. ASSUME Quiet, status = "running", Return, stage # "KS_Int",
             at \notin {13, 14, 17}, at = 15 => First
      PROVE  RegisterInv'
    <2>1. Passed' /\ stage' = "begin"
        BY <1>0, <1>1, <1>2, CallsAt, ReturnRegisters DEF First
    <2> QED
        BY <1>0, <1>1, <1>2, <2>1, HalfStays DEF RegisterInv
<1>3. ASSUME Quiet, stage # "KS_Int", NEW g, g # "KS_Int", GoOn(g)
      PROVE  RegisterInv'
    <2>1. stage' = g /\ UNCHANGED <<status, at>>
        BY <1>3 DEF GoOn
    <2> QED
        BY <1>0, <1>1, <1>3, <2>1, HalfStays, StaysPassed DEF RegisterInv
<1>4. CASE Setup
    BY <1>0, <1>2, <1>4, CallsAt DEF Setup, Doing, env
<1>5. CASE Ensure
    <2>1. Call.op = "ensure" /\ status = "running" /\ stage = "begin"
        BY <1>5 DEF Ensure, Doing
    <2>2. Quiet /\ (Return \/ GoOn("wait"))
        BY <1>5 DEF Ensure
    <2> QED
        BY <1>0, <1>2, <1>3, <2>1, <2>2, CallsAt
<1>6. CASE EnsureRelease
    <2>1. Call.op = "release" /\ status = "running" /\ stage = "begin"
        BY <1>6 DEF EnsureRelease, Doing
    <2>2. Quiet /\ (Return \/ GoOn("wait") \/ GoOn("grants"))
        BY <1>6 DEF EnsureRelease
    <2> QED
        BY <1>0, <1>2, <1>3, <2>1, <2>2, CallsAt
<1>7. CASE Grants
    BY <1>0, <1>3, <1>7 DEF Grants, Doing
<1>8. CASE Waited
    <2>1. Quiet /\ status = "running" /\ stage \in {"wait", "rewait"}
          /\ (Return \/ GoOn("recheck"))
        BY <1>8 DEF Waited, env
    <2>2. Call.op \notin {"namespace", "attributes"}
        BY <1>0, <2>1 DEF StagesInv
    <2> QED
        BY <1>0, <1>2, <1>3, <2>1, <2>2, CallsAt
<1>9. CASE Check
    <2>1. Quiet /\ status = "running" /\ stage = "begin" /\ Call.op = "verify"
          /\ (Return \/ GoOn("remedy"))
        BY <1>9 DEF Check, env, Doing
    <2> QED
        BY <1>0, <1>2, <1>3, <2>1, CallsAt
<1>10. CASE Remedy
    <2>1. Quiet /\ stage = "remedy" /\ (GoOn("rewait") \/ GoOn("recheck"))
        BY <1>10 DEF Remedy, Doing
    <2> QED
        BY <1>3, <2>1
<1>11. CASE Recheck
    <2>1. Quiet /\ status = "running" /\ stage = "recheck" /\ Call.op = "verify"
          /\ Return
        BY <1>11 DEF Recheck, env, Doing
    <2> QED
        BY <1>0, <1>2, <2>1, CallsAt
<1>12. CASE EnsureNamespace
    <2>1. /\ status = "running" /\ stage = "begin" /\ Call.op = "namespace"
          /\ namespaces' = namespaces \cup {<<Call.on, Call.name>>}
          /\ Return /\ UNCHANGED <<attributes, budget, broke>>
        BY <1>12 DEF EnsureNamespace, Doing
    <2>2. Grows /\ Accounts'
        BY <1>0, <2>1 DEF Grows, Mishap, Accounts
    <2>3. Passed' /\ stage' = "begin"
        BY <1>0, <2>1, <2>2, CallsAt, ReturnRegisters
    <2> QED
        BY <1>0, <2>1, <2>2, <2>3, HalfStays DEF RegisterInv
<1>13. CASE HasAttributes
    <2>1. Quiet /\ status = "running" /\ stage = "begin" /\ Return
          /\ Call.op = "attributes" /\ First
        BY <1>0, <1>13 DEF HasAttributes, env, Doing, Half
    <2> QED
        BY <1>0, <1>2, <2>1, CallsAt
<1>14. CASE HasNoAttributes
    <2>1. stage = "begin" /\ GoOn("create")
          /\ UNCHANGED <<namespaces, attributes, broke>>
        BY <1>14 DEF HasNoAttributes, env, Doing
    <2>2. CASE Spend("failure")
        <3>1. Accounts' /\ Grows
            BY <1>0, <2>1, <2>2, FailureIsMishap DEF Grows
        <3> QED
            BY <1>0, <2>1, <3>1, HalfStays, StaysPassed DEF RegisterInv, GoOn
    <2>3. CASE UNCHANGED budget
        BY <1>3, <2>1, <2>3
    <2> QED
        BY <1>14, <2>2, <2>3 DEF HasNoAttributes
<1>15. CASE CreateFirst
    <2>1. /\ attributes' = attributes \cup {"OmesExecutionID", "KS_Keyword"}
          /\ stage' = "KS_Int"
          /\ UNCHANGED <<status, at, namespaces, budget, broke>>
        BY <1>15 DEF CreateFirst, GoOn
    <2>2. Accounts' /\ Grows
        BY <1>0, <2>1 DEF Accounts, Grows, Mishap
    <2>3. Half'
        BY <2>1 DEF Half, First
    <2> QED
        BY <1>0, <2>1, <2>2, <2>3, StaysPassed DEF RegisterInv
<1>16. CASE CreateFirstFails
    <2>1. stage = "create" /\ stage' \in {"create", "begin"}
          /\ UNCHANGED <<namespaces, broke>>
        BY <1>16 DEF CreateFirstFails, Doing, Exit
    <2>2. Accounts' /\ Grows /\ Half'
        <3>1. CASE UNCHANGED <<budget, attributes>>
            BY <1>0, <1>1, <2>1, <3>1, HalfStays
        <3>2. CASE Spend("failure") /\ attributes' \in
                       {attributes, attributes \cup {"OmesExecutionID", "KS_Keyword"}}
            <4>1. Accounts' /\ Mishap' /\ attributes \subseteq attributes'
                BY <1>0, <2>1, <3>2, FailureIsMishap
            <4> QED
                BY <1>0, <2>1, <3>2, <4>1 DEF Grows, Half, First
        <3> QED
            BY <1>16, <3>1, <3>2 DEF CreateFirstFails, Failed
    <2>3. Passed'
        BY <1>0, <1>16, <2>2, StaysPassed, ExitPassed DEF CreateFirstFails
    <2> QED
        BY <2>2, <2>3 DEF RegisterInv
<1>17. CASE CreateSecond
    <2>1. /\ attributes' = attributes \cup {"KS_Int"}
          /\ status = "running" /\ stage = "KS_Int" /\ Call.op = "attributes"
          /\ Return /\ UNCHANGED <<namespaces, budget, broke>>
        BY <1>17 DEF CreateSecond, Doing
    <2>2. Accounts' /\ Grows
        BY <1>0, <2>1 DEF Accounts, Grows, Mishap
    <2>3. First'
        BY <1>0, <2>1 DEF Half, First
    <2>4. Passed' /\ stage' = "begin"
        BY <1>0, <2>1, <2>2, <2>3, ReturnRegisters
    <2>5. Half'
        BY <2>1, <2>3, <2>4 DEF Half
    <2> QED
        BY <2>2, <2>4, <2>5 DEF RegisterInv
<1>18. CASE TimesOut
    <2>1. stage # "KS_Int" /\ Exit /\ UNCHANGED <<namespaces, attributes, broke>>
          /\ (Spend("failure") \/ UNCHANGED budget)
        BY <1>18 DEF TimesOut, env
    <2>2. Accounts' /\ Grows
        BY <1>0, <1>1, <2>1, FailureIsMishap DEF Grows
    <2> QED
        BY <1>0, <2>1, <2>2, HalfStays, ExitPassed DEF RegisterInv
<1>19. CASE Unreachable
    <2>1. Quiet /\ status = "running" /\ Exit
        BY <1>19 DEF Unreachable
    <2>2. stage = "KS_Int" => Mishap
        <3> SUFFICES ASSUME stage = "KS_Int" PROVE Mishap
            OBVIOUS
        <3>1. Call.op = "attributes" /\ at = 15 /\ Call.on = "cluster-1"
            BY <1>0, CallsAt DEF StagesInv
        <3>2. ~Up("cluster-1")
            BY <1>19, <3>1 DEF Unreachable
        <3> QED
            BY <1>0, <2>1, <3>1, <3>2, DownIsMishap
    <2> QED
        BY <1>0, <1>1, <2>1, <2>2, HalfStays, ExitPassed DEF RegisterInv, Grows
<1> QED
    BY <1>4, <1>5, <1>6, <1>7, <1>8, <1>9, <1>10, <1>11, <1>12, <1>13, <1>14,
       <1>15, <1>16, <1>17, <1>18, <1>19 DEF Script

LEMMA RegisterStep == BringupInv /\ RegisterInv /\ [Next]_vars => RegisterInv'
<1> SUFFICES ASSUME BringupInv, RegisterInv, [Next]_vars PROVE RegisterInv'
    OBVIOUS
<1>0. TypeOK /\ StagesInv /\ Accounts /\ Half /\ Passed /\ at \in 1..22
    BY ProgramLength DEF BringupInv, TypeOK, RegisterInv
<1>1. ASSUME status # "running", status' = "running", broke' = {},
             UNCHANGED <<at, stage, namespaces, attributes>>,
             budget'["failure"] = budget["failure"], budget'["break"] = budget["break"]
      PROVE  RegisterInv'
    <2>1. at = 1 /\ stage = "begin"
        BY <1>0, <1>1 DEF StagesInv
    <2>2. Passed'
        BY <1>1, <2>1 DEF Passed, Past
    <2>3. Half' /\ Accounts'
        BY <1>0, <1>1, <2>1 DEF Half, First, Mishap, Accounts
    <2> QED
        BY <2>2, <2>3 DEF RegisterInv
<1>2. ASSUME UNCHANGED <<status, at, stage, namespaces, attributes>>, Accounts',
             Mishap => Mishap'
      PROVE  RegisterInv'
    BY <1>0, <1>2, StaysPassed DEF RegisterInv, Half, First, Grows
<1>3. CASE Start
    BY <1>0, <1>1, <1>3 DEF Start, env, StagesInv
<1>4. CASE Restart
    <2>1. budget'["failure"] = budget["failure"] /\ budget'["break"] = budget["break"]
        BY <1>0, <1>4 DEF Restart, Spend, TypeOK, Troubles
    <2> QED
        BY <1>1, <1>4, <2>1 DEF Restart
<1>5. CASE Script
    BY <1>5, RegisterScript
<1>6. CASE CommandFails
    <2>1. /\ Spend("failure") /\ Exit /\ UNCHANGED broke
          /\ namespaces \subseteq namespaces'
          /\ \/ attributes' = attributes
             \/ stage = "KS_Int" /\ attributes' = attributes \cup {"KS_Int"}
             \/ stage # "KS_Int" /\ attributes' = attributes
        BY <1>6 DEF CommandFails
    <2>2. Accounts' /\ Mishap'
        BY <1>0, <2>1, FailureIsMishap
    <2>3. Half'
        BY <1>0, <2>1, <2>2 DEF Half, First, Exit
    <2> QED
        BY <2>1, <2>2, <2>3, ExitPassed DEF RegisterInv
<1>7. ASSUME NEW s \in Services, Break(s) PROVE RegisterInv'
    <2>1. /\ budget'["break"] < budget["break"]
          /\ budget'["failure"] = budget["failure"]
          /\ budget["break"] \in Nat /\ budget'["break"] \in Nat
        BY <1>0, <1>7, SpendLess, SpendType DEF Break, Troubles, Spend, TypeOK
    <2>2. Accounts' /\ Mishap'
        BY <1>0, <2>1, BoundsAreNat DEF Accounts, Mishap
    <2> QED
        BY <1>2, <1>7, <2>2 DEF Break
<1>8. ASSUME NEW s \in Services, Recover(s) PROVE RegisterInv'
    BY <1>0, <1>2, <1>8 DEF Recover, Accounts, Mishap
<1>9. CASE CacheRefresh
    BY <1>0, <1>2, <1>9 DEF CacheRefresh, Accounts, Mishap
<1>10. CASE UNCHANGED vars
    BY <1>0, <1>2, <1>10 DEF vars, Accounts, Mishap
<1> QED
    BY <1>3, <1>4, <1>5, <1>6, <1>7, <1>8, <1>9, <1>10 DEF Next

LEMMA RegisterInductive == Spec => [](BringupInv /\ RegisterInv)
BY BringupInit, BringupStep, RegisterInit, RegisterStep, PTL DEF Spec

-----------------------------------------------------------------------------
(* The script's variables keep their types: it never makes more than       *)
(* MaxAttempts attempts.                                                   *)
THEOREM BringupTypes == Spec => []TypeOK
BY BringupInductive, PTL DEF BringupInv

(* Whatever failed, broke or timed out, and however often the script was   *)
(* run again, when it reports success every service is up, but for those   *)
(* that broke while it ran.                                                *)
THEOREM SuccessIsTrue == Spec => []HealthyWhenDone
BY BringupInductive, PTL DEF BringupInv

(* Whatever its earlier runs left half-done, when the script reports       *)
(* success every namespace and the first two search attributes are there,  *)
(* and the third too unless a command failed or a service broke: running   *)
(* out of retries or being restarted never costs it.                       *)
THEOREM NothingIsForgotten == Spec => []RegisteredWhenDone
<1>1. BringupInv /\ RegisterInv => RegisteredWhenDone
    <2> SUFFICES ASSUME BringupInv, RegisterInv, status = "done"
                 PROVE  RegisteredWhenDone
        BY DEF RegisteredWhenDone
    <2>1. Past(23) /\ stage = "begin"
        BY DEF BringupInv, StagesInv, RegisterInv, Passed
    <2>2. Wanted \subseteq namespaces /\ First
        BY <2>1 DEF Past, Wanted
    <2> QED
        BY <2>1, <2>2 DEF RegisterInv, Half, First, RegisteredWhenDone
<1> QED
    BY <1>1, RegisterInductive, PTL
=============================================================================
