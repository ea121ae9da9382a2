---------------------------- MODULE ControlPanel ----------------------------
(***************************************************************************)
(* The page of worker-control-ui (internal/webassets/web/app.js): one      *)
(* panel per workload, each with a switch, a kill button, a status pill    *)
(* and a log pane, and a selector for the cluster they are about.          *)
(*                                                                         *)
(* The page polls the status of every panel on a timer without waiting for *)
(* the answers of earlier polls. JavaScript runs each handler to its next  *)
(* await, so an action is one such stretch; requests are served, and their *)
(* answers arrive, in any order. The user clicks, other participants and   *)
(* the auto-stop change the workloads, and requests fail.                  *)
(***************************************************************************)
EXTENDS Naturals, FiniteSets

CONSTANTS
    Clusters,       \* the clusters of the selector
    CodecCluster,   \* the one the codec-worker panel is always about
    Panels,         \* the panels of the page
    CodecPanel,     \* the codec-worker's: no log, no kill button
    Slots,          \* bound: requests of a kind a panel has in flight at once
    NoStream,       \* no EventSource in state.logSources
    MaxClicks,      \* bound on what the user does
    MaxElsewhere,   \* bound on changes the page did not ask for
    MaxFailures     \* bound on failed requests

ASSUME CodecClusterExists == CodecCluster \in Clusters

ASSUME NoStreamIsNull == NoStream \notin Clusters

ASSUME LimitsAreNat ==
    MaxClicks \in Nat /\ MaxElsewhere \in Nat /\ MaxFailures \in Nat

VARIABLES
    on,          \* the server's answer to a status request: stopped or not
    cluster,     \* state.cluster
    toggle,      \* toggle.checked of each panel
    busy,        \* toggleBusy
    killable,    \* the kill button is not disabled
    shown,       \* the last status applied: the pill, and runnerRunning
    logSources,  \* state.logSources: the cluster of the stream it holds
    open,        \* how many EventSources are open
    pane,        \* the clusters whose lines are in the log pane
    polls,       \* status requests
    posts,       \* start, stop and kill requests
    left,        \* what may still happen
    known        \* (history) last status of the selected cluster that arrived

vars == <<on, cluster, toggle, busy, killable, shown, logSources, open, pane,
          polls, posts, left, known>>

LogPanels == Panels \ {CodecPanel}

(* The cluster a request of panel p would be about now.                    *)
Target(p) == IF p = CodecPanel THEN CodecCluster ELSE cluster

-----------------------------------------------------------------------------
Polls == [at: Clusters, phase: {"none", "sent", "on", "off", "error"}]

Posts == [at: Clusters, op: {"start", "stop", "kill"},
          phase: {"none", "sent", "ok", "error"}]

NoPoll == [at |-> CodecCluster, phase |-> "none"]

NoPost == [at |-> CodecCluster, op |-> "start", phase |-> "none"]

Occasions == {"click", "elsewhere", "failure"}

(* The page as index.html loads it, over any state of the workloads.       *)
Init ==
    /\ on \in [Panels -> [Clusters -> BOOLEAN]]
    /\ cluster = CodecCluster
    /\ toggle = [p \in Panels |-> FALSE]
    /\ busy = [p \in Panels |-> FALSE]
    /\ killable = [p \in Panels |-> TRUE]
    /\ shown = [p \in Panels |-> FALSE]
    /\ logSources = [p \in Panels |-> NoStream]
    /\ open = [p \in Panels |-> [c \in Clusters |-> 0]]
    /\ pane = [p \in Panels |-> {}]
    /\ polls = [p \in Panels |-> [s \in Slots |-> NoPoll]]
    /\ posts = [p \in Panels |-> [s \in Slots |-> NoPost]]
    /\ left = [o \in Occasions |->
                  CASE o = "click"     -> MaxClicks
                    [] o = "elsewhere" -> MaxElsewhere
                    [] o = "failure"   -> MaxFailures]
    /\ known = [p \in Panels |-> "none"]

-----------------------------------------------------------------------------
(* Helpers.                                                                *)

Use(o) == left[o] > 0 /\ left' = [left EXCEPT ![o] = @ - 1]

(* The open streams after closeLogStream has closed p's.                   *)
Closed(p) ==
    IF logSources[p] = NoStream THEN open[p]
    ELSE [open[p] EXCEPT ![logSources[p]] = @ - 1]

(* The panels in P ask for their status, each in a slot of its own.        *)
SendPolls(P, c) ==
    \E slot \in [P -> Slots]:
        /\ \A p \in P: polls[p][slot[p]].phase = "none"
        /\ polls' = [p \in Panels |->
                        IF p \in P
                        THEN [polls[p] EXCEPT ![slot[p]] =
                                 [at |-> IF p = CodecPanel THEN CodecCluster ELSE c,
                                  phase |-> "sent"]]
                        ELSE polls[p]]

SendPost(p, s, op) ==
    /\ posts[p][s].phase = "none"
    /\ posts' = [posts EXCEPT ![p][s] =
                    [at |-> Target(p), op |-> op, phase |-> "sent"]]

-----------------------------------------------------------------------------
(* What the page does by itself, and the user.                             *)

(* setInterval(refresh) and setInterval(refreshCodecWorker): the panels a  *)
(* timer is about ask together.                                            *)
Intervals == {LogPanels, Panels \ LogPanels}

Refresh(P) ==
    /\ P # {}
    /\ SendPolls(P, cluster)
    /\ UNCHANGED <<on, cluster, toggle, busy, killable, shown, logSources,
                   open, pane, posts, left, known>>

(* Mutant: the log panes are not cleared.                                  *)
SwitchClusterKeepingLines(c) ==
    /\ c # cluster
    /\ Use("click")
    /\ cluster' = c
    /\ open' = [p \in Panels |-> Closed(p)]
    /\ logSources' = [p \in Panels |-> NoStream]
    /\ SendPolls(LogPanels, c)
    /\ known' = [p \in Panels |-> IF p = CodecPanel THEN known[p] ELSE "none"]
    /\ UNCHANGED <<on, toggle, busy, killable, shown, pane, posts>>

SwitchCluster(c) ==
    /\ c # cluster
    /\ Use("click")
    /\ cluster' = c
    /\ open' = [p \in Panels |-> Closed(p)]
    /\ logSources' = [p \in Panels |-> NoStream]
    /\ pane' = [p \in Panels |-> {}]
    /\ SendPolls(LogPanels, c)
    /\ known' = [p \in Panels |-> IF p = CodecPanel THEN known[p] ELSE "none"]
    /\ UNCHANGED <<on, toggle, busy, killable, shown, posts>>

(* The browser flips the switch, then runs its handler up to the await.    *)
Toggle(p, s) ==
    /\ Use("click")
    /\ toggle' = [toggle EXCEPT ![p] = ~@]
    /\ busy' = [busy EXCEPT ![p] = TRUE]
    /\ SendPost(p, s, IF toggle[p] THEN "stop" ELSE "start")
    /\ UNCHANGED <<on, cluster, killable, shown, logSources, open, pane, polls, known>>

Kill(p, s) ==
    /\ p \in LogPanels
    /\ killable[p]
    /\ Use("click")
    /\ killable' = [killable EXCEPT ![p] = FALSE]
    /\ SendPost(p, s, "kill")
    /\ UNCHANGED <<on, cluster, toggle, busy, shown, logSources, open, pane, polls, known>>

-----------------------------------------------------------------------------
(* The server.                                                             *)

ServePoll(p, s) ==
    /\ polls[p][s].phase = "sent"
    /\ \/ /\ polls' = [polls EXCEPT ![p][s].phase =
                          IF on[p][polls[p][s].at] THEN "on" ELSE "off"]
          /\ UNCHANGED left
       \/ Use("failure") /\ polls' = [polls EXCEPT ![p][s].phase = "error"]
    /\ UNCHANGED <<on, cluster, toggle, busy, killable, shown, logSources,
                   open, pane, posts, known>>

(* A request that fails may have had its effect. Killing the process does  *)
(* not stop the workload.                                                  *)
ServePost(p, s) ==
    LET r == posts[p][s]
        done == IF r.op = "kill" THEN on
                ELSE [on EXCEPT ![p][r.at] = (r.op = "start")]
    IN  /\ r.phase = "sent"
        /\ \/ /\ posts' = [posts EXCEPT ![p][s].phase = "ok"]
              /\ on' = done
              /\ UNCHANGED left
           \/ /\ posts' = [posts EXCEPT ![p][s].phase = "error"]
              /\ on' \in {on, done}
              /\ Use("failure")
        /\ UNCHANGED <<cluster, toggle, busy, killable, shown, logSources,
                       open, pane, polls, known>>

(* Another participant, or the auto-stop of a runner.                      *)
Elsewhere(p, c) ==
    /\ Use("elsewhere")
    /\ on' = [on EXCEPT ![p][c] = ~@]
    /\ UNCHANGED <<cluster, toggle, busy, killable, shown, logSources, open,
                   pane, polls, posts, known>>

-----------------------------------------------------------------------------
(* Answers arrive: what each handler does after its await.                 *)

(* Mutant: the stream is opened for the cluster the answer is about.       *)
OpenLogStreamOfAnswer(p, s) ==
    /\ logSources' = [logSources EXCEPT ![p] = polls[p][s].at]
    /\ open' = [open EXCEPT ![p] = [Closed(p) EXCEPT ![polls[p][s].at] = @ + 1]]

(* openLogStream takes the cluster that is selected by then.               *)
OpenLogStream(p, s) ==
    /\ logSources' = [logSources EXCEPT ![p] = cluster]
    /\ open' = [open EXCEPT ![p] = [Closed(p) EXCEPT ![cluster] = @ + 1]]

(* Mutant: the stream is closed, but state.logSources keeps it.            *)
CloseLogStreamAndKeep(p) ==
    /\ open' = [open EXCEPT ![p] = Closed(p)]
    /\ UNCHANGED logSources

CloseLogStream(p) ==
    /\ logSources' = [logSources EXCEPT ![p] = NoStream]
    /\ open' = [open EXCEPT ![p] = Closed(p)]

(* refreshPanel and refreshCodecWorker: whichever cluster the answer is    *)
(* about, it is applied to the page as it is now.                          *)
PollAnswered(p, s) ==
    LET running == polls[p][s].phase = "on"
    IN  /\ polls[p][s].phase \in {"on", "off"}
        /\ shown' = [shown EXCEPT ![p] = running]
        /\ toggle' = [toggle EXCEPT ![p] = IF busy[p] THEN @ ELSE running]
        /\ IF p = CodecPanel
           THEN UNCHANGED <<killable, logSources, open>>
           ELSE /\ killable' = [killable EXCEPT ![p] = running]
                /\ IF running /\ logSources[p] = NoStream THEN OpenLogStream(p, s)
                   ELSE IF ~running THEN CloseLogStream(p)
                   ELSE UNCHANGED <<logSources, open>>
        /\ known' = [known EXCEPT ![p] =
                        IF polls[p][s].at = Target(p) THEN polls[p][s].phase ELSE @]
        /\ polls' = [polls EXCEPT ![p][s] = NoPoll]
        /\ UNCHANGED <<on, cluster, busy, pane, posts, left>>

(* Mutant: a failed poll is taken to say that nothing runs.                *)
PollFailedAsStopped(p, s) ==
    /\ polls[p][s].phase = "error"
    /\ shown' = [shown EXCEPT ![p] = FALSE]
    /\ polls' = [polls EXCEPT ![p][s] = NoPoll]
    /\ UNCHANGED <<on, cluster, toggle, busy, killable, logSources,
                   open, pane, posts, left, known>>

(* A failed poll is only logged.                                           *)
PollFailed(p, s) ==
    /\ polls[p][s].phase = "error"
    /\ polls' = [polls EXCEPT ![p][s] = NoPoll]
    /\ UNCHANGED <<on, cluster, toggle, busy, killable, shown, logSources,
                   open, pane, posts, left, known>>

(* Mutant: toggleBusy is cleared in the try block, not in finally.         *)
ToggleAnsweredStuck(p, s) ==
    LET r == posts[p][s]
    IN  /\ r.op # "kill"
        /\ \/ /\ r.phase = "ok"
              /\ IF r.op = "stop" /\ p # CodecPanel
                 THEN CloseLogStream(p) ELSE UNCHANGED <<logSources, open>>
              /\ busy' = [busy EXCEPT ![p] = FALSE]
              /\ UNCHANGED toggle
           \/ /\ r.phase = "error"
              /\ toggle' = [toggle EXCEPT ![p] = ~@]
              /\ UNCHANGED <<logSources, open, busy>>
        /\ posts' = [posts EXCEPT ![p][s] = NoPost]
        /\ UNCHANGED <<on, cluster, killable, shown, pane, polls, left, known>>

ToggleAnswered(p, s) ==
    LET r == posts[p][s]
    IN  /\ r.op # "kill"
        /\ \/ /\ r.phase = "ok"
              /\ IF r.op = "stop" /\ p # CodecPanel
                 THEN CloseLogStream(p) ELSE UNCHANGED <<logSources, open>>
              /\ UNCHANGED toggle
           \/ /\ r.phase = "error"
              /\ toggle' = [toggle EXCEPT ![p] = ~@]
              /\ UNCHANGED <<logSources, open>>
        /\ busy' = [busy EXCEPT ![p] = FALSE]
        /\ posts' = [posts EXCEPT ![p][s] = NoPost]
        /\ UNCHANGED <<on, cluster, killable, shown, pane, polls, left, known>>

KillAnswered(p, s) ==
    /\ posts[p][s].op = "kill"
    /\ posts[p][s].phase \in {"ok", "error"}
    /\ killable' = [killable EXCEPT ![p] = TRUE]
    /\ posts' = [posts EXCEPT ![p][s] = NoPost]
    /\ UNCHANGED <<on, cluster, toggle, busy, shown, logSources, open, pane,
                   polls, left, known>>

(* An open EventSource delivers a line of its cluster's log; one that has  *)
(* been closed delivers nothing more.                                      *)
LogLine(p, c) ==
    /\ open[p][c] > 0
    /\ pane' = [pane EXCEPT ![p] = @ \cup {c}]
    /\ UNCHANGED <<on, cluster, toggle, busy, killable, shown, logSources,
                   open, polls, posts, left, known>>

-----------------------------------------------------------------------------
User ==
    \/ \E c \in Clusters: SwitchCluster(c)
    \/ \E p \in Panels, s \in Slots: Toggle(p, s) \/ Kill(p, s)

Serve(p, s) == ServePoll(p, s) \/ ServePost(p, s)

Answer(p, s) ==
    \/ PollAnswered(p, s)
    \/ PollFailed(p, s)
    \/ ToggleAnswered(p, s)
    \/ KillAnswered(p, s)

Next ==
    \/ \E P \in Intervals: Refresh(P)
    \/ User
    \/ \E p \in Panels, s \in Slots: Serve(p, s) \/ Answer(p, s)
    \/ \E p \in Panels, c \in Clusters: Elsewhere(p, c) \/ LogLine(p, c)

Spec == Init /\ [][Next]_vars

(* The timers keep firing, the server answers, the browser runs its        *)
(* handlers. Nothing obliges the user, and requests fail finitely often.   *)
Fairness ==
    /\ \A P \in Intervals: WF_vars(Refresh(P))
    /\ \A p \in Panels, s \in Slots:
          /\ WF_vars(ServePoll(p, s))
          /\ WF_vars(ServePost(p, s))
          /\ WF_vars(PollAnswered(p, s) \/ PollFailed(p, s))
          /\ WF_vars(ToggleAnswered(p, s) \/ KillAnswered(p, s))

FairSpec == Spec /\ Fairness

-----------------------------------------------------------------------------
(* Properties.                                                             *)

(* The variables have their types.                                         *)
TypeOK ==
    /\ on \in [Panels -> [Clusters -> BOOLEAN]]
    /\ cluster \in Clusters
    /\ toggle \in [Panels -> BOOLEAN]
    /\ busy \in [Panels -> BOOLEAN]
    /\ killable \in [Panels -> BOOLEAN]
    /\ shown \in [Panels -> BOOLEAN]
    /\ logSources \in [Panels -> Clusters \cup {NoStream}]
    /\ open \in [Panels -> [Clusters -> Nat]]
    /\ pane \in [Panels -> SUBSET Clusters]
    /\ polls \in [Panels -> [Slots -> Polls]]
    /\ posts \in [Panels -> [Slots -> Posts]]
    /\ left \in [Occasions -> Nat]
    /\ known \in [Panels -> {"none", "on", "off"}]

(* state.logSources is the only EventSource of its panel and is about the  *)
(* selected cluster, however answers of either cluster arrive around a     *)
(* switch.                                                                 *)
OneStream ==
    \A p \in Panels:
        /\ logSources[p] \in {NoStream, cluster}
        /\ \A c \in Clusters: open[p][c] = IF logSources[p] = c THEN 1 ELSE 0

(* So a log pane never shows lines of a cluster that is not selected.      *)
PaneOfOneCluster == \A p \in Panels: pane[p] \subseteq {cluster}

(* Once the user and everyone else leave the workloads alone, the page     *)
(* comes to say what runs, and stays so: no late answer, failed request or *)
(* overlapping click leaves the pill, the switch, the kill button or the   *)
(* stream wrong for good.                                                  *)
Agrees(p) ==
    LET running == on[p][Target(p)]
    IN  /\ shown[p] = running
        /\ toggle[p] = running
        /\ p # CodecPanel =>
              killable[p] = running /\ (logSources[p] # NoStream) = running

Converges == \A p \in Panels: <>[]Agrees(p)

(* And from when on it stays so: once panel p tells the truth, no click of *)
(* its own is unanswered and no answer about another cluster or time is on *)
(* its way, only the user or someone else can make it wrong. Polls may     *)
(* overlap, fail and arrive in any order, in the middle of other panels'   *)
(* clicks.                                                                 *)
Calm(p) ==
    \A s \in Slots:
        /\ posts[p][s].phase = "none"
        /\ polls[p][s].phase \in {"sent", "on", "off"} =>
              /\ polls[p][s].at = Target(p)
              /\ polls[p][s].phase # IF on[p][Target(p)] THEN "off" ELSE "on"

Touched(p) ==
    \/ \E c \in Clusters: SwitchCluster(c) \/ Elsewhere(p, c)
    \/ \E s \in Slots: Toggle(p, s) \/ Kill(p, s)

StaysRight ==
    [][\A p \in Panels:
          Agrees(p) /\ Calm(p) /\ ~Touched(p) => Agrees(p)' /\ Calm(p)']_vars

(* updateRunnerControls "disables everything while the runner is running"  *)
(* (app.js:124-125): once the page has been told that the runner of the    *)
(* selected cluster runs, its knobs stay locked until it is told otherwise.*)
LockedWhileRunning ==
    \A p \in LogPanels: known[p] = "on" => shown[p]
=============================================================================
