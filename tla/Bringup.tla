------------------------------ MODULE Bringup ------------------------------
(***************************************************************************)
(* _scripts/start.sh, which brings the environment up and validates it,    *)
(* and _scripts/restart.sh, which stops the k3d cluster first.             *)
(*                                                                         *)
(* The script is a fixed sequence of ensure_* and verify_* calls under     *)
(* `set -e`: a command that fails ends it, and it is run again from the    *)
(* start over whatever it left behind. Between any two commands services   *)
(* break, recover and time out. What a command prints, and the contents of *)
(* charts and images, are left out.                                        *)
(***************************************************************************)
EXTENDS Naturals, Sequences

CONSTANTS
    MaxAttempts,  \* tries at registering the first search attributes
    MaxFailures,  \* bound on commands that fail or time out
    MaxBreaks,    \* bound on services that break
    MaxRestarts   \* bound on uses of restart.sh

ASSUME BoundsAreNat ==
    /\ MaxAttempts \in Nat \ {0}
    /\ MaxFailures \in Nat /\ MaxBreaks \in Nat /\ MaxRestarts \in Nat

VARIABLES
    status,      \* of the script
    at,          \* the call of the script it executes
    stage,       \* how far that call is
    attempt,     \* ensure_omes_search_attributes' loop variable
    state,       \* the services
    granted,     \* the temporal role may use cluster-2's databases
    namespaces,  \* Temporal namespaces registered
    visible,     \* the workshop namespace is in the registry cache
    attributes,  \* search attributes of cluster-1's workshop namespace
    budget,      \* what may still go wrong
    broke        \* (history) services that broke since the script started

vars == <<status, at, stage, attempt, state, granted, namespaces, visible,
          attributes, budget, broke>>

env == <<state, granted, namespaces, visible, attributes>>

-----------------------------------------------------------------------------
Releases == {"cluster-1", "cluster-2"}

Services == Releases \cup
    {"postgresql", "minio", "prometheus", "grafana", "bucket-policy",
     "worker-control-ui", "codec-server"}

(* ensure_* restarts these even if they run, and waits for the rollout.    *)
Restarted == {"minio", "worker-control-ui", "codec-server"}

Namespaces == Releases \X {"default", "workshop"}

Attributes == {"OmesExecutionID", "KS_Keyword", "KS_Int"}

Do(op, s) == [op |-> op, on |-> s, name |-> "none"]

Register(s, n) == [op |-> "namespace", on |-> s, name |-> n]

(* The main part of start.sh.                                              *)
Program == <<
    Do("setup", "k3d"),
    Do("ensure", "postgresql"),
    Do("ensure", "minio"),
    Do("ensure", "prometheus"),
    Do("ensure", "grafana"),
    Do("release", "cluster-1"),
    Do("release", "cluster-2"),
    Do("ensure", "bucket-policy"),
    Do("ensure", "worker-control-ui"),
    Do("ensure", "codec-server"),
    Do("verify", "postgresql"),
    Do("verify", "cluster-1"),
    Register("cluster-1", "default"),
    Register("cluster-1", "workshop"),
    Do("attributes", "cluster-1"),
    Do("verify", "cluster-2"),
    Register("cluster-2", "default"),
    Do("verify", "bucket-policy"),
    Do("verify", "grafana"),
    Do("verify", "prometheus"),
    Do("verify", "worker-control-ui"),
    Do("verify", "codec-server") >>

Stages == {"begin", "grants", "wait", "create", "KS_Int", "remedy", "rewait",
           "recheck"}

Troubles == {"failure", "break", "restart"}

Init ==
    /\ status = "stopped"
    /\ at = 1
    /\ stage = "begin"
    /\ attempt = 1
    /\ state = [s \in Services |-> "absent"]
    /\ granted = FALSE
    /\ namespaces = {}
    /\ visible = FALSE
    /\ attributes = {}
    /\ budget = [b \in Troubles |->
                    CASE b = "failure" -> MaxFailures
                      [] b = "break"   -> MaxBreaks
                      [] b = "restart" -> MaxRestarts]
    /\ broke = {}

-----------------------------------------------------------------------------
(* Helpers.                                                                *)

Call == Program[at]

Doing(op, g) == status = "running" /\ Call.op = op /\ stage = g

GoOn(g) == stage' = g /\ UNCHANGED <<status, at, attempt>>

(* The call returns.                                                       *)
Return ==
    /\ stage' = "begin"
    /\ attempt' = 1
    /\ IF at < Len(Program)
       THEN at' = at + 1 /\ UNCHANGED status
       ELSE at' = 1 /\ status' = "done"

(* `set -e`, or an explicit exit 1.                                        *)
Exit ==
    /\ status' = "aborted"
    /\ stage' = "begin"
    /\ at' = 1
    /\ attempt' = 1

Spend(b) == budget[b] > 0 /\ budget' = [budget EXCEPT ![b] = @ - 1]

Put(s, x) == state' = [state EXCEPT ![s] = x]

Up(s) == state[s] = "healthy"

(* What a service needs to become healthy.                                 *)
CanRecover(s) ==
    /\ s \in Releases => Up("postgresql")
    /\ s = "cluster-2" => granted
    /\ s = "bucket-policy" => Up("minio")

(* What a rerun of the ensure_* of s brings down: all but a Helm upgrade.   *)
Cycled(s) == Put(s, IF s \in {"postgresql", "prometheus"} /\ state[s] # "absent"
                    THEN state[s] ELSE "unhealthy")

(* Prometheus also scrapes the Temporal pods.                              *)
Passes(s) == Up(s) /\ (s = "prometheus" => \A r \in Releases: Up(r))

-----------------------------------------------------------------------------
(* The script runs.                                                        *)

Start ==
    /\ status \in {"stopped", "aborted"}
    /\ status' = "running"
    /\ broke' = {}
    /\ UNCHANGED <<at, stage, attempt, env, budget>>

(* restart.sh: everything but the finished job has to come up again.       *)
Restart ==
    /\ status \in {"done", "aborted"}
    /\ Spend("restart")
    /\ status' = "running"
    /\ state' = [s \in Services |->
                    IF state[s] = "absent" \/ s = "bucket-policy"
                    THEN state[s] ELSE "unhealthy"]
    /\ broke' = {}
    /\ UNCHANGED <<at, stage, attempt, granted, namespaces, visible, attributes>>

(* Cloning, `helm repo add`, ensure_k3d_cluster.                           *)
Setup ==
    /\ Doing("setup", "begin")
    /\ Return
    /\ UNCHANGED <<env, budget, broke>>

(* A missing service is installed and waited for, as one that is restarted *)
(* is; an existing one is upgraded, with no wait. The bucket policy is a   *)
(* job, started anew and not waited for.                                   *)
Ensure ==
    LET s == Call.on
    IN  /\ Doing("ensure", "begin")
        /\ IF s = "bucket-policy" THEN Put(s, "unhealthy") /\ Return
           ELSE IF state[s] = "absent" \/ s \in Restarted
           THEN Put(s, "unhealthy") /\ GoOn("wait")
           ELSE Return /\ UNCHANGED state
        /\ UNCHANGED <<granted, namespaces, visible, attributes, budget, broke>>

(* ensure_temporal_release: only a fresh install grants and waits.         *)
EnsureRelease ==
    LET s == Call.on
    IN  /\ Doing("release", "begin")
        /\ IF state[s] = "absent"
           THEN /\ Put(s, "unhealthy")
                /\ GoOn(IF s = "cluster-2" THEN "grants" ELSE "wait")
           ELSE Return /\ UNCHANGED state
        /\ UNCHANGED <<granted, namespaces, visible, attributes, budget, broke>>

Grants ==
    /\ Doing("release", "grants")
    /\ Up("postgresql")
    /\ granted' = TRUE
    /\ GoOn("wait")
    /\ UNCHANGED <<state, namespaces, visible, attributes, budget, broke>>

(* `--wait` and `kubectl rollout status`.                                  *)
Waited ==
    /\ status = "running"
    /\ stage \in {"wait", "rewait"}
    /\ Up(Call.on)
    /\ IF stage = "wait" THEN Return ELSE GoOn("recheck")
    /\ UNCHANGED <<env, budget, broke>>

Check ==
    /\ Doing("verify", "begin")
    /\ IF Passes(Call.on) THEN Return ELSE GoOn("remedy")
    /\ UNCHANGED <<env, budget, broke>>

(* Mutant: only the release is reinstalled, which touches no grants.       *)
RemedyWithoutGrants ==
    LET s == Call.on
    IN  /\ Doing("verify", "remedy")
        /\ Cycled(s)
        /\ GoOn(IF s \in Restarted \cup {"grafana"} THEN "rewait" ELSE "recheck")
        /\ UNCHANGED <<granted, namespaces, visible, attributes, budget, broke>>

(* ensure_* once more. cluster-2's grants are applied directly, a Temporal *)
(* release and Grafana are restarted whatever their upgrade did.           *)
Remedy ==
    LET s == Call.on
    IN  /\ Doing("verify", "remedy")
        /\ s = "cluster-2" => Up("postgresql")
        /\ granted' = (granted \/ s = "cluster-2")
        /\ Cycled(s)
        /\ GoOn(IF s \in Restarted \cup {"grafana"} THEN "rewait" ELSE "recheck")
        /\ UNCHANGED <<namespaces, visible, attributes, budget, broke>>

(* Mutant: the remedy is trusted.                                          *)
RecheckSkipped ==
    /\ Doing("verify", "recheck")
    /\ Return
    /\ UNCHANGED <<env, budget, broke>>

Recheck ==
    /\ Doing("verify", "recheck")
    /\ Passes(Call.on)
    /\ Return
    /\ UNCHANGED <<env, budget, broke>>

(* ensure_temporal_namespace.                                              *)
EnsureNamespace ==
    /\ Doing("namespace", "begin")
    /\ Up(Call.on)
    /\ namespaces' = namespaces \cup {<<Call.on, Call.name>>}
    /\ Return
    /\ UNCHANGED <<state, granted, visible, attributes, budget, broke>>

(* ensure_omes_search_attributes looks for one of the three attributes, in *)
(* a condition: a list that fails finds none.                              *)
HasAttributes ==
    /\ Doing("attributes", "begin")
    /\ Up(Call.on)
    /\ "OmesExecutionID" \in attributes
    /\ Return
    /\ UNCHANGED <<env, budget, broke>>

HasNoAttributes ==
    /\ Doing("attributes", "begin")
    /\ IF "OmesExecutionID" \in attributes /\ Up(Call.on)
       THEN Spend("failure") ELSE UNCHANGED budget
    /\ GoOn("create")
    /\ UNCHANGED <<env, broke>>

CreateFirst ==
    /\ Doing("attributes", "create")
    /\ Up(Call.on)
    /\ visible
    /\ attributes' = attributes \cup {"OmesExecutionID", "KS_Keyword"}
    /\ GoOn("KS_Int")
    /\ UNCHANGED <<state, granted, namespaces, visible, budget, broke>>

(* Why an attempt fails: the namespace is not visible yet, or the cluster  *)
(* is down, or anything else, finitely often, perhaps after its effect.    *)
Failed ==
    \/ /\ ~visible \/ ~Up(Call.on)
       /\ UNCHANGED <<budget, attributes>>
    \/ /\ visible /\ Up(Call.on)
       /\ Spend("failure")
       /\ attributes' \in {attributes, attributes \cup {"OmesExecutionID", "KS_Keyword"}}

(* Mutant: the loop's last attempt is not told apart.                      *)
CreateFirstForever ==
    /\ Doing("attributes", "create")
    /\ Failed
    /\ attempt' = attempt + 1
    /\ UNCHANGED <<status, at, stage, state, granted, namespaces, visible, broke>>

(* Mutant: no exit 1 after the last attempt, the loop just ends.           *)
CreateFirstGivesUp ==
    /\ Doing("attributes", "create")
    /\ Failed
    /\ IF attempt = MaxAttempts THEN GoOn("KS_Int")
       ELSE attempt' = attempt + 1 /\ UNCHANGED <<status, at, stage>>
    /\ UNCHANGED <<state, granted, namespaces, visible, broke>>

CreateFirstFails ==
    /\ Doing("attributes", "create")
    /\ Failed
    /\ IF attempt = MaxAttempts THEN Exit
       ELSE attempt' = attempt + 1 /\ UNCHANGED <<status, at, stage>>
    /\ UNCHANGED <<state, granted, namespaces, visible, broke>>

CreateSecond ==
    /\ Doing("attributes", "KS_Int")
    /\ Up(Call.on)
    /\ attributes' = attributes \cup {"KS_Int"}
    /\ Return
    /\ UNCHANGED <<state, granted, namespaces, visible, budget, broke>>

-----------------------------------------------------------------------------
(* What goes wrong.                                                        *)

(* What a recheck waits for; the others are looked at once.                *)
Awaited == Releases \cup {"bucket-policy"}

(* A wait times out, or a check after the remedy fails. A wait for what    *)
(* can come up is long enough, finitely many times excepted.               *)
TimesOut ==
    LET s == Call.on
    IN  /\ status = "running"
        /\ \/ stage \in {"wait", "rewait"} /\ ~Up(s)
           \/ stage = "recheck" /\ ~Passes(s)
        /\ IF CanRecover(s) /\ (stage = "recheck" => s \in Awaited)
           THEN Spend("failure") ELSE UNCHANGED budget
        /\ Exit
        /\ UNCHANGED <<env, broke>>

(* A command fails because what it talks to is down: psql, an exec in a    *)
(* cluster, the schema job of a release.                                   *)
Unreachable ==
    LET s == Call.on
    IN  /\ status = "running"
        /\ \/ stage = "grants" /\ ~Up("postgresql")
           \/ stage = "remedy" /\ s \in Releases /\ ~Up("postgresql")
           \/ Call.op = "release" /\ stage = "begin" /\ ~Up("postgresql")
           \/ (Call.op = "namespace" \/ stage = "KS_Int") /\ ~Up(s)
        /\ IF Call.op = "release" /\ state[s] = "absent"
           THEN Put(s, "unhealthy") ELSE UNCHANGED state
        /\ Exit
        /\ UNCHANGED <<granted, namespaces, visible, attributes, budget, broke>>

(* Any other command fails and ends the script, its effect had or not.     *)
CommandFails ==
    LET s == Call.on
    IN  /\ status = "running"
        /\ stage \in {"begin", "grants", "KS_Int", "remedy"}
        /\ Call.op \in {"verify", "attributes"} => stage # "begin"
        /\ Spend("failure")
        /\ \/ UNCHANGED state
           \/ /\ \/ Call.op \in {"ensure", "release"} /\ stage = "begin"
                 \/ stage = "remedy"
              /\ Cycled(s)
        /\ granted' \in {granted, granted \/ (stage \in {"grants", "remedy"} /\
                                             s = "cluster-2" /\ Up("postgresql"))}
        /\ namespaces' \in {namespaces, namespaces \cup
                IF Call.op = "namespace" /\ Up(s) THEN {<<s, Call.name>>} ELSE {}}
        /\ attributes' \in {attributes, attributes \cup
                IF stage = "KS_Int" /\ Up(s) THEN {"KS_Int"} ELSE {}}
        /\ Exit
        /\ UNCHANGED <<visible, broke>>

Break(s) ==
    /\ Up(s)
    /\ Spend("break")
    /\ Put(s, "unhealthy")
    /\ granted' \in {granted, granted /\ s # "cluster-2"}
    /\ broke' = broke \cup {s}
    /\ UNCHANGED <<status, at, stage, attempt, namespaces, visible, attributes>>

Recover(s) ==
    /\ state[s] = "unhealthy"
    /\ CanRecover(s)
    /\ Put(s, "healthy")
    /\ UNCHANGED <<status, at, stage, attempt, granted, namespaces, visible,
                   attributes, budget, broke>>

CacheRefresh ==
    /\ <<"cluster-1", "workshop">> \in namespaces
    /\ ~visible
    /\ visible' = TRUE
    /\ UNCHANGED <<status, at, stage, attempt, state, granted, namespaces,
                   attributes, budget, broke>>

-----------------------------------------------------------------------------
Script ==
    \/ Setup \/ Ensure \/ EnsureRelease \/ Grants \/ Waited
    \/ Check \/ Remedy \/ Recheck
    \/ EnsureNamespace \/ HasAttributes \/ HasNoAttributes
    \/ CreateFirst \/ CreateFirstFails \/ CreateSecond
    \/ TimesOut \/ Unreachable

Next ==
    \/ Start
    \/ Restart
    \/ Script
    \/ CommandFails
    \/ \E s \in Services \ {"bucket-policy"}: Break(s)
    \/ \E s \in Services: Recover(s)
    \/ CacheRefresh

Spec == Init /\ [][Next]_vars

(* The shell goes on, a participant runs the script again when it failed,  *)
(* Kubernetes brings up what can come up, and the cache refreshes.         *)
Fairness ==
    /\ WF_vars(Script)
    /\ WF_vars(Start)
    /\ \A s \in Services: WF_vars(Recover(s))
    /\ WF_vars(CacheRefresh)

FairSpec == Spec /\ Fairness

-----------------------------------------------------------------------------
(* Properties.                                                             *)

(* The variables have their types; the loop makes MaxAttempts attempts.    *)
TypeOK ==
    /\ status \in {"stopped", "running", "done", "aborted"}
    /\ at \in DOMAIN Program
    /\ stage \in Stages
    /\ attempt \in 1..MaxAttempts
    /\ state \in [Services -> {"absent", "unhealthy", "healthy"}]
    /\ granted \in BOOLEAN
    /\ namespaces \subseteq Namespaces
    /\ visible \in BOOLEAN
    /\ attributes \subseteq Attributes
    /\ budget \in [Troubles -> Nat]
    /\ broke \subseteq Services

(* "All services up and validated successfully!" (start.sh:573) is true:   *)
(* whatever earlier, failed runs left behind, every service is up by then, *)
(* but for those that broke while the script ran.                          *)
HealthyWhenDone ==
    status = "done" => \A s \in Services: Up(s) \/ s \in broke

(* The script can always be run again: from whatever state a failed run or *)
(* a restart left, runs of it end with success once failures stop.         *)
Resumable == status # "done" ~> status = "done"

(* What the script means to have registered is there when it reports       *)
(* success, however often its earlier runs ended half-way: its namespaces, *)
(* and the search attributes that one command creates together. The third  *)
(* is only ever missing after a command failed or a service broke, never   *)
(* for slowness, retries that ran out or a restart.                        *)
Wanted ==
    {<<"cluster-1", "default">>, <<"cluster-1", "workshop">>,
     <<"cluster-2", "default">>}

Mishap == budget["failure"] < MaxFailures \/ budget["break"] < MaxBreaks

RegisteredWhenDone ==
    status = "done" =>
        /\ Wanted \subseteq namespaces
        /\ {"OmesExecutionID", "KS_Keyword"} \subseteq attributes
        /\ "KS_Int" \in attributes \/ Mishap

(* The Runner's kitchen-sink scenarios "require these search attributes on *)
(* the target namespace before their very first workflow start"            *)
(* (start.sh:265-267): they are there when the script reports success.     *)
AttributesWhenDone == status = "done" => attributes = Attributes

(* The namespace workers and runners use "must exist on both clusters      *)
(* already -- see start.sh's ensure_temporal_namespace" (manager.go:36-38).*)
WorkshopOnBothClusters ==
    status = "done" => \A r \in Releases: <<r, "workshop">> \in namespaces
=============================================================================
