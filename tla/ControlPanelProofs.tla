------------------------- MODULE ControlPanelProofs -------------------------
(***************************************************************************)
(* Proofs about ControlPanel, for any clusters, panels and bounds: the     *)
(* variables keep their types, the log panes stay with the selected        *)
(* cluster, and a panel that tells the truth goes on telling it. TypeOK,   *)
(* OneStream and PaneOfOneCluster are inductive together: that a stream's  *)
(* count never goes below zero needs OneStream, and that a pane receives   *)
(* no foreign line needs it too.                                           *)
(***************************************************************************)
EXTENDS ControlPanel, TLAPS

PanelInv == TypeOK /\ OneStream /\ PaneOfOneCluster

(* The variables OneStream and PaneOfOneCluster are about.                 *)
streams == <<cluster, logSources, open, pane>>

-----------------------------------------------------------------------------
(* Closing a panel's stream leaves it none.                                *)
LEMMA ClosedIsZero ==
    ASSUME PanelInv, NEW p \in Panels
    PROVE  Closed(p) = [c \in Clusters |-> 0]
<1>1. open[p] \in [Clusters -> Nat]
    BY DEF PanelInv, TypeOK
<1>2. \A c \in Clusters: open[p][c] = IF logSources[p] = c THEN 1 ELSE 0
    BY DEF PanelInv, OneStream
<1>3. CASE logSources[p] = NoStream
    <2>1. Closed(p) = open[p]
        BY <1>3 DEF Closed
    <2>2. \A c \in Clusters: open[p][c] = 0
        BY <1>2, <1>3, NoStreamIsNull
    <2> QED
        BY <1>1, <2>1, <2>2
<1>4. CASE logSources[p] # NoStream
    <2>1. logSources[p] \in Clusters
        BY <1>4 DEF PanelInv, TypeOK
    <2>2. Closed(p) = [open[p] EXCEPT ![logSources[p]] = @ - 1]
        BY <1>4 DEF Closed
    <2>3. \A c \in Clusters: Closed(p)[c] = 0
        BY <1>1, <1>2, <2>1, <2>2
    <2>4. DOMAIN Closed(p) = Clusters
        BY <1>1, <2>2
    <2>5. Closed(p) = [c \in Clusters |-> Closed(p)[c]]
        BY <1>1, <2>2
    <2> QED
        BY <2>3, <2>4, <2>5
<1> QED
    BY <1>3, <1>4

(* A step that touches none of the streams' variables keeps their part.    *)
LEMMA StreamsUnchanged ==
    ASSUME OneStream, PaneOfOneCluster, UNCHANGED streams
    PROVE  OneStream' /\ PaneOfOneCluster'
BY DEF OneStream, PaneOfOneCluster, streams

(* Both ways a handler changes a stream keep one stream per panel, of the  *)
(* selected cluster.                                                       *)
LEMMA StreamOpened ==
    ASSUME PanelInv, NEW p \in Panels, NEW s \in Slots,
           OpenLogStream(p, s), UNCHANGED <<cluster, pane>>
    PROVE  /\ OneStream' /\ PaneOfOneCluster'
           /\ logSources' \in [Panels -> Clusters \cup {NoStream}]
           /\ open' \in [Panels -> [Clusters -> Nat]]
<1>1. Closed(p) = [c \in Clusters |-> 0]
    BY ClosedIsZero
<1>2. cluster \in Clusters /\ cluster # NoStream
    BY NoStreamIsNull DEF PanelInv, TypeOK
<1>3. /\ open \in [Panels -> [Clusters -> Nat]]
      /\ logSources \in [Panels -> Clusters \cup {NoStream}]
    BY DEF PanelInv, TypeOK
<1>4. open' = [open EXCEPT ![p] = [c \in Clusters |-> IF c = cluster THEN 1 ELSE 0]]
    <2>1. [Closed(p) EXCEPT ![cluster] = Closed(p)[cluster] + 1]
              = [c \in Clusters |-> IF c = cluster THEN 1 ELSE 0]
        BY <1>1, <1>2
    <2> QED
        BY <2>1 DEF OpenLogStream
<1>5. logSources' = [logSources EXCEPT ![p] = cluster]
    BY DEF OpenLogStream
<1>6. OneStream'
    <2> SUFFICES ASSUME NEW q \in Panels
                 PROVE  /\ logSources'[q] \in {NoStream, cluster'}
                        /\ \A c \in Clusters:
                              open'[q][c] = IF logSources'[q] = c THEN 1 ELSE 0
        BY DEF OneStream
    <2>1. CASE q = p
        BY <1>2, <1>3, <1>4, <1>5, <2>1
    <2>2. CASE q # p
        BY <1>3, <1>4, <1>5, <2>2 DEF PanelInv, OneStream
    <2> QED
        BY <2>1, <2>2
<1>7. PaneOfOneCluster'
    BY DEF PanelInv, PaneOfOneCluster
<1>8. logSources' \in [Panels -> Clusters \cup {NoStream}]
    BY <1>2, <1>3, <1>5
<1>9. open' \in [Panels -> [Clusters -> Nat]]
    BY <1>3, <1>4
<1> QED
    BY <1>6, <1>7, <1>8, <1>9

LEMMA StreamClosed ==
    ASSUME PanelInv, NEW p \in Panels,
           CloseLogStream(p), UNCHANGED <<cluster, pane>>
    PROVE  /\ OneStream' /\ PaneOfOneCluster'
           /\ logSources' \in [Panels -> Clusters \cup {NoStream}]
           /\ open' \in [Panels -> [Clusters -> Nat]]
<1>1. Closed(p) = [c \in Clusters |-> 0]
    BY ClosedIsZero
<1>2. /\ open \in [Panels -> [Clusters -> Nat]]
      /\ logSources \in [Panels -> Clusters \cup {NoStream}]
    BY DEF PanelInv, TypeOK
<1>3. open' = [open EXCEPT ![p] = [c \in Clusters |-> 0]]
    BY <1>1 DEF CloseLogStream
<1>4. logSources' = [logSources EXCEPT ![p] = NoStream]
    BY DEF CloseLogStream
<1>5. OneStream'
    <2> SUFFICES ASSUME NEW q \in Panels
                 PROVE  /\ logSources'[q] \in {NoStream, cluster'}
                        /\ \A c \in Clusters:
                              open'[q][c] = IF logSources'[q] = c THEN 1 ELSE 0
        BY DEF OneStream
    <2>1. CASE q = p
        BY <1>2, <1>3, <1>4, <2>1, NoStreamIsNull
    <2>2. CASE q # p
        BY <1>2, <1>3, <1>4, <2>2 DEF PanelInv, OneStream
    <2> QED
        BY <2>1, <2>2
<1>6. PaneOfOneCluster'
    BY DEF PanelInv, PaneOfOneCluster
<1> QED
    BY <1>2, <1>3, <1>4, <1>5, <1>6

-----------------------------------------------------------------------------
(* What the helpers do to the requests in flight, in types.                *)
LEMMA SendPollsType ==
    ASSUME TypeOK, NEW P \in SUBSET Panels, NEW c \in Clusters, SendPolls(P, c)
    PROVE  polls' \in [Panels -> [Slots -> Polls]]
<1> PICK slot \in [P -> Slots]:
        polls' = [p \in Panels |->
                     IF p \in P
                     THEN [polls[p] EXCEPT ![slot[p]] =
                              [at |-> IF p = CodecPanel THEN CodecCluster ELSE c,
                               phase |-> "sent"]]
                     ELSE polls[p]]
    BY DEF SendPolls
<1>1. \A p \in Panels: polls'[p] \in [Slots -> Polls]
    <2> TAKE p \in Panels
    <2>1. polls[p] \in [Slots -> Polls]
        BY DEF TypeOK
    <2>2. [at |-> IF p = CodecPanel THEN CodecCluster ELSE c, phase |-> "sent"]
              \in Polls
        BY CodecClusterExists DEF Polls
    <2> QED
        BY <2>1, <2>2
<1> QED
    BY <1>1

LEMMA SendPostType ==
    ASSUME TypeOK, NEW p \in Panels, NEW s \in Slots,
           NEW op \in {"start", "stop", "kill"}, SendPost(p, s, op)
    PROVE  posts' \in [Panels -> [Slots -> Posts]]
<1>1. [at |-> Target(p), op |-> op, phase |-> "sent"] \in Posts
    BY CodecClusterExists DEF TypeOK, Target, Posts
<1> QED
    BY <1>1 DEF TypeOK, SendPost

LEMMA UseType ==
    ASSUME TypeOK, NEW o \in Occasions, Use(o)
    PROVE  left' \in [Occasions -> Nat]
BY DEF TypeOK, Use

-----------------------------------------------------------------------------
(* The invariant holds at first.                                           *)
LEMMA PanelInit == Init => PanelInv
<1> SUFFICES ASSUME Init PROVE PanelInv
    OBVIOUS
<1>1. TypeOK
    <2>1. NoPoll \in Polls /\ NoPost \in Posts
        BY CodecClusterExists DEF NoPoll, NoPost, Polls, Posts
    <2>2. left \in [Occasions -> Nat]
        BY LimitsAreNat DEF Init, Occasions
    <2> QED
        BY <2>1, <2>2, CodecClusterExists DEF Init, TypeOK
<1>2. OneStream
    BY NoStreamIsNull DEF Init, OneStream
<1>3. PaneOfOneCluster
    BY DEF Init, PaneOfOneCluster
<1> QED
    BY <1>1, <1>2, <1>3 DEF PanelInv

(* Every step keeps it.                                                    *)
LEMMA PanelStep == PanelInv /\ [Next]_vars => PanelInv'
<1> SUFFICES ASSUME PanelInv, [Next]_vars PROVE PanelInv'
    OBVIOUS
<1> USE DEF PanelInv
<1>1. ASSUME NEW P \in Intervals, Refresh(P) PROVE PanelInv'
    <2>1. polls' \in [Panels -> [Slots -> Polls]]
        BY <1>1, SendPollsType DEF Refresh, Intervals, LogPanels, TypeOK
    <2>2. TypeOK'
        BY <1>1, <2>1 DEF Refresh, TypeOK
    <2> QED
        BY <1>1, <2>2, StreamsUnchanged DEF Refresh, streams
<1>2. ASSUME NEW c \in Clusters, SwitchCluster(c) PROVE PanelInv'
    <2>1. polls' \in [Panels -> [Slots -> Polls]]
        BY <1>2, SendPollsType DEF SwitchCluster, LogPanels
    <2>2. left' \in [Occasions -> Nat]
        BY <1>2, UseType DEF SwitchCluster, Occasions
    <2>3. open' = [p \in Panels |-> [d \in Clusters |-> 0]]
        <3>1. open' = [p \in Panels |-> Closed(p)]
            BY <1>2 DEF SwitchCluster
        <3>2. \A p \in Panels: Closed(p) = [d \in Clusters |-> 0]
            BY ClosedIsZero
        <3> QED
            BY <3>1, <3>2
    <2>4. TypeOK'
        BY <1>2, <2>1, <2>2, <2>3 DEF SwitchCluster, TypeOK
    <2>5. OneStream'
        BY <1>2, <2>3, NoStreamIsNull DEF SwitchCluster, OneStream
    <2>6. PaneOfOneCluster'
        BY <1>2 DEF SwitchCluster, PaneOfOneCluster
    <2> QED
        BY <2>4, <2>5, <2>6
<1>3. ASSUME NEW p \in Panels, NEW s \in Slots, Toggle(p, s) PROVE PanelInv'
    <2>1. posts' \in [Panels -> [Slots -> Posts]]
        BY <1>3, SendPostType DEF Toggle
    <2>2. left' \in [Occasions -> Nat]
        BY <1>3, UseType DEF Toggle, Occasions
    <2>3. TypeOK'
        BY <1>3, <2>1, <2>2 DEF Toggle, TypeOK
    <2> QED
        BY <1>3, <2>3, StreamsUnchanged DEF Toggle, streams
<1>4. ASSUME NEW p \in Panels, NEW s \in Slots, Kill(p, s) PROVE PanelInv'
    <2>1. posts' \in [Panels -> [Slots -> Posts]]
        BY <1>4, SendPostType DEF Kill
    <2>2. left' \in [Occasions -> Nat]
        BY <1>4, UseType DEF Kill, Occasions
    <2>3. TypeOK'
        BY <1>4, <2>1, <2>2 DEF Kill, TypeOK
    <2> QED
        BY <1>4, <2>3, StreamsUnchanged DEF Kill, streams
<1>5. ASSUME NEW p \in Panels, NEW s \in Slots, ServePoll(p, s) PROVE PanelInv'
    <2>1. left' \in [Occasions -> Nat]
        BY <1>5, UseType DEF ServePoll, Occasions, TypeOK
    <2>2. polls' \in [Panels -> [Slots -> Polls]]
        <3>1. PICK a \in {"on", "off", "error"}:
                  polls' = [polls EXCEPT ![p][s] = [polls[p][s] EXCEPT !.phase = a]]
            BY <1>5 DEF ServePoll
        <3>2. polls[p][s] \in Polls
            BY DEF TypeOK
        <3>3. [polls[p][s] EXCEPT !.phase = a] \in Polls
            BY <3>2 DEF Polls
        <3> QED
            BY <3>1, <3>3 DEF TypeOK
    <2>3. TypeOK'
        BY <1>5, <2>1, <2>2 DEF ServePoll, TypeOK
    <2> QED
        BY <1>5, <2>3, StreamsUnchanged DEF ServePoll, streams
<1>6. ASSUME NEW p \in Panels, NEW s \in Slots, ServePost(p, s) PROVE PanelInv'
    <2>1. left' \in [Occasions -> Nat]
        BY <1>6, UseType DEF ServePost, Occasions, TypeOK
    <2>2. posts' \in [Panels -> [Slots -> Posts]]
        <3>1. PICK a \in {"ok", "error"}:
                  posts' = [posts EXCEPT ![p][s] = [posts[p][s] EXCEPT !.phase = a]]
            BY <1>6 DEF ServePost
        <3>2. posts[p][s] \in Posts
            BY DEF TypeOK
        <3>3. [posts[p][s] EXCEPT !.phase = a] \in Posts
            BY <3>2 DEF Posts
        <3> QED
            BY <3>1, <3>3 DEF TypeOK
    <2>3. on' \in [Panels -> [Clusters -> BOOLEAN]]
        <3>1. posts[p][s].at \in Clusters
            BY DEF TypeOK, Posts
        <3>2. [on EXCEPT ![p][posts[p][s].at] = (posts[p][s].op = "start")]
                  \in [Panels -> [Clusters -> BOOLEAN]]
            BY <3>1 DEF TypeOK
        <3> QED
            BY <1>6, <3>2 DEF ServePost, TypeOK
    <2>4. TypeOK'
        BY <1>6, <2>1, <2>2, <2>3 DEF ServePost, TypeOK
    <2> QED
        BY <1>6, <2>4, StreamsUnchanged DEF ServePost, streams
<1>7. ASSUME NEW p \in Panels, NEW s \in Slots, PollAnswered(p, s) PROVE PanelInv'
    <2>1. polls' \in [Panels -> [Slots -> Polls]]
        BY <1>7, CodecClusterExists DEF PollAnswered, TypeOK, NoPoll, Polls
    <2>2. /\ OneStream' /\ PaneOfOneCluster'
          /\ logSources' \in [Panels -> Clusters \cup {NoStream}]
          /\ open' \in [Panels -> [Clusters -> Nat]]
        <3>1. CASE OpenLogStream(p, s)
            BY <1>7, <3>1, StreamOpened DEF PollAnswered
        <3>2. CASE CloseLogStream(p)
            BY <1>7, <3>2, StreamClosed DEF PollAnswered
        <3>3. CASE UNCHANGED <<logSources, open>>
            BY <1>7, <3>3, StreamsUnchanged DEF PollAnswered, streams, TypeOK
        <3> QED
            BY <1>7, <3>1, <3>2, <3>3 DEF PollAnswered
    <2>3. /\ shown' \in [Panels -> BOOLEAN]
          /\ toggle' \in [Panels -> BOOLEAN]
          /\ killable' \in [Panels -> BOOLEAN]
        <3>1. (polls[p][s].phase = "on") \in BOOLEAN
            OBVIOUS
        <3>2. shown' = [shown EXCEPT ![p] = (polls[p][s].phase = "on")]
            BY <1>7 DEF PollAnswered
        <3>3. toggle' = [toggle EXCEPT ![p] =
                            IF busy[p] THEN toggle[p] ELSE polls[p][s].phase = "on"]
            BY <1>7 DEF PollAnswered
        <3>4. killable' \in {killable,
                             [killable EXCEPT ![p] = (polls[p][s].phase = "on")]}
            BY <1>7 DEF PollAnswered
        <3>5. /\ shown \in [Panels -> BOOLEAN]
              /\ toggle \in [Panels -> BOOLEAN]
              /\ killable \in [Panels -> BOOLEAN]
            BY DEF TypeOK
        <3>6. (IF busy[p] THEN toggle[p] ELSE polls[p][s].phase = "on") \in BOOLEAN
            BY <3>1, <3>5
        <3> QED
            BY <3>1, <3>2, <3>3, <3>4, <3>5, <3>6
    <2>4. known' \in [Panels -> {"none", "on", "off"}]
        BY <1>7 DEF PollAnswered, TypeOK
    <2>5. TypeOK'
        BY <1>7, <2>1, <2>2, <2>3, <2>4 DEF PollAnswered, TypeOK
    <2> QED
        BY <2>2, <2>5
<1>8. ASSUME NEW p \in Panels, NEW s \in Slots, PollFailed(p, s) PROVE PanelInv'
    <2>1. polls' \in [Panels -> [Slots -> Polls]]
        BY <1>8, CodecClusterExists DEF PollFailed, TypeOK, NoPoll, Polls
    <2>2. TypeOK'
        BY <1>8, <2>1 DEF PollFailed, TypeOK
    <2> QED
        BY <1>8, <2>2, StreamsUnchanged DEF PollFailed, streams
<1>9. ASSUME NEW p \in Panels, NEW s \in Slots, ToggleAnswered(p, s) PROVE PanelInv'
    <2>1. posts' \in [Panels -> [Slots -> Posts]]
        BY <1>9, CodecClusterExists DEF ToggleAnswered, TypeOK, NoPost, Posts
    <2>2. /\ OneStream' /\ PaneOfOneCluster'
          /\ logSources' \in [Panels -> Clusters \cup {NoStream}]
          /\ open' \in [Panels -> [Clusters -> Nat]]
        <3>1. CASE CloseLogStream(p)
            BY <1>9, <3>1, StreamClosed DEF ToggleAnswered
        <3>2. CASE UNCHANGED <<logSources, open>>
            BY <1>9, <3>2, StreamsUnchanged DEF ToggleAnswered, streams, TypeOK
        <3> QED
            BY <1>9, <3>1, <3>2 DEF ToggleAnswered
    <2>3. TypeOK'
        BY <1>9, <2>1, <2>2 DEF ToggleAnswered, TypeOK
    <2> QED
        BY <2>2, <2>3
<1>10. ASSUME NEW p \in Panels, NEW s \in Slots, KillAnswered(p, s) PROVE PanelInv'
    <2>1. posts' \in [Panels -> [Slots -> Posts]]
        BY <1>10, CodecClusterExists DEF KillAnswered, TypeOK, NoPost, Posts
    <2>2. TypeOK'
        BY <1>10, <2>1 DEF KillAnswered, TypeOK
    <2> QED
        BY <1>10, <2>2, StreamsUnchanged DEF KillAnswered, streams
<1>11. ASSUME NEW p \in Panels, NEW c \in Clusters, Elsewhere(p, c) PROVE PanelInv'
    <2>1. left' \in [Occasions -> Nat]
        BY <1>11, UseType DEF Elsewhere, Occasions
    <2>2. on' \in [Panels -> [Clusters -> BOOLEAN]]
        BY <1>11 DEF Elsewhere, TypeOK
    <2>3. TypeOK'
        BY <1>11, <2>1, <2>2 DEF Elsewhere, TypeOK
    <2> QED
        BY <1>11, <2>3, StreamsUnchanged DEF Elsewhere, streams
<1>12. ASSUME NEW p \in Panels, NEW c \in Clusters, LogLine(p, c) PROVE PanelInv'
    <2>1. c = cluster
        <3>1. open[p][c] = IF logSources[p] = c THEN 1 ELSE 0
            BY DEF OneStream
        <3>2. logSources[p] = c
            BY <1>12, <3>1 DEF LogLine
        <3> QED
            BY <3>2, NoStreamIsNull DEF OneStream
    <2>2. TypeOK'
        BY <1>12 DEF LogLine, TypeOK
    <2>3. OneStream'
        BY <1>12 DEF LogLine, OneStream
    <2>4. PaneOfOneCluster'
        BY <1>12, <2>1 DEF LogLine, PaneOfOneCluster, TypeOK
    <2> QED
        BY <2>2, <2>3, <2>4
<1>13. CASE UNCHANGED vars
    <2>1. TypeOK'
        BY <1>13 DEF vars, TypeOK
    <2> QED
        BY <1>13, <2>1, StreamsUnchanged DEF vars, streams
<1> QED
    BY <1>1, <1>2, <1>3, <1>4, <1>5, <1>6, <1>7, <1>8, <1>9, <1>10, <1>11,
       <1>12, <1>13 DEF Next, User, Serve, Answer

LEMMA PanelInductive == Spec => []PanelInv
BY PanelInit, PanelStep, PTL DEF Spec

-----------------------------------------------------------------------------
(* A panel that tells the truth and is calm. What its agreement and its    *)
(* calm are about:                                                         *)
LEMMA AgreesStays ==
    ASSUME NEW p \in Panels, Agrees(p), cluster' = cluster,
           on'[p] = on[p], shown'[p] = shown[p], toggle'[p] = toggle[p],
           killable'[p] = killable[p], logSources'[p] = logSources[p]
    PROVE  Agrees(p)'
BY DEF Agrees, Target

LEMMA CalmStays ==
    ASSUME NEW p \in Panels, Calm(p), cluster' = cluster, on'[p] = on[p],
           posts'[p] = posts[p],
           \A s \in Slots:
              \/ polls'[p][s] = polls[p][s]
              \/ polls'[p][s].phase \in {"none", "error"}
              \/ /\ polls'[p][s].at = Target(p)
                 /\ polls'[p][s].phase # IF on[p][Target(p)] THEN "off" ELSE "on"
    PROVE  Calm(p)'
BY DEF Calm, Target

(* A new poll is about the right cluster and knows nothing yet.            *)
LEMMA SentPolls ==
    ASSUME NEW P \in SUBSET Panels, SendPolls(P, cluster), NEW p \in Panels,
           polls \in [Panels -> [Slots -> Polls]]
    PROVE  \A s \in Slots:
              \/ polls'[p][s] = polls[p][s]
              \/ polls'[p][s].at = Target(p) /\ polls'[p][s].phase = "sent"
<1> PICK slot \in [P -> Slots]:
        polls' = [q \in Panels |->
                     IF q \in P
                     THEN [polls[q] EXCEPT ![slot[q]] =
                              [at |-> IF q = CodecPanel THEN CodecCluster ELSE cluster,
                               phase |-> "sent"]]
                     ELSE polls[q]]
    BY DEF SendPolls
<1>1. polls[p] \in [Slots -> Polls]
    OBVIOUS
<1> QED
    BY <1>1 DEF Target

(* An answer that is applied says what is true of the cluster it should be *)
(* about: the page already says so.                                        *)
LEMMA AnswerIsTrue ==
    ASSUME PanelInv, NEW p \in Panels, NEW s \in Slots, Agrees(p), Calm(p),
           PollAnswered(p, s)
    PROVE  Agrees(p)'
<1> DEFINE running == on[p][Target(p)]
<1>1. (polls[p][s].phase = "on") = running
    <2>1. polls[p][s].phase \in {"on", "off"}
        BY DEF PollAnswered
    <2>2. polls[p][s].phase # IF running THEN "off" ELSE "on"
        BY <2>1 DEF Calm
    <2>3. running \in BOOLEAN
        BY CodecClusterExists DEF PanelInv, TypeOK, Target
    <2>4. CASE running
        BY <2>1, <2>2, <2>4
    <2>5. CASE ~running
        <3>1. polls[p][s].phase # "on"
            BY <2>1, <2>2, <2>5
        <3>2. running = FALSE
            BY <2>3, <2>5
        <3> QED
            BY <3>1, <3>2
    <2> QED
        BY <2>4, <2>5
<1>2. /\ cluster' = cluster /\ on' = on
      /\ shown' = [shown EXCEPT ![p] = (polls[p][s].phase = "on")]
      /\ toggle' = [toggle EXCEPT ![p] =
                       IF busy[p] THEN @ ELSE polls[p][s].phase = "on"]
    BY DEF PollAnswered
<1>3. /\ shown \in [Panels -> BOOLEAN] /\ toggle \in [Panels -> BOOLEAN]
      /\ killable \in [Panels -> BOOLEAN]
      /\ logSources \in [Panels -> Clusters \cup {NoStream}]
    BY DEF PanelInv, TypeOK
<1>4. shown[p] = running /\ toggle[p] = running
    BY DEF Agrees
<1>5. shown'[p] = running
    BY <1>1, <1>2, <1>3
<1>6. toggle'[p] = running
    BY <1>1, <1>2, <1>3, <1>4
<1>7. ASSUME p # CodecPanel
      PROVE  killable'[p] = running /\ (logSources'[p] # NoStream) = running
    <2>1. killable'[p] = running
        <3>1. killable' = [killable EXCEPT ![p] = (polls[p][s].phase = "on")]
            BY <1>7 DEF PollAnswered
        <3> QED
            BY <1>1, <1>3, <3>1
    <2>2. (logSources[p] # NoStream) = running
        BY <1>7 DEF Agrees
    <2>3. CASE running
        <3>1. polls[p][s].phase = "on" /\ logSources[p] # NoStream
            BY <1>1, <2>2, <2>3
        <3>2. logSources' = logSources
            BY <1>7, <3>1 DEF PollAnswered
        <3> QED
            BY <2>1, <2>2, <3>2
    <2>4. CASE ~running
        <3>1. polls[p][s].phase # "on"
            BY <1>1, <2>4
        <3>2. logSources' = [logSources EXCEPT ![p] = NoStream]
            BY <1>7, <3>1 DEF PollAnswered, CloseLogStream
        <3>3. logSources'[p] = NoStream
            BY <1>3, <3>2
        <3> QED
            BY <2>1, <2>4, <3>3, <1>1
    <2> QED
        BY <2>3, <2>4
<1> QED
    BY <1>2, <1>5, <1>6, <1>7 DEF Agrees, Target

LEMMA RightStep ==
    ASSUME PanelInv, NEW p \in Panels, Agrees(p), Calm(p), ~Touched(p), [Next]_vars
    PROVE  Agrees(p)' /\ Calm(p)'
<1>0. /\ TypeOK
      /\ polls \in [Panels -> [Slots -> Polls]]
      /\ posts \in [Panels -> [Slots -> Posts]]
    BY DEF PanelInv, TypeOK
<1>1. ASSUME NEW P \in Intervals, Refresh(P) PROVE Agrees(p)' /\ Calm(p)'
    <2>1. P \in SUBSET Panels
        BY DEF Intervals, LogPanels
    <2>2. Calm(p)'
        BY <1>0, <1>1, <2>1, SentPolls, CalmStays DEF Refresh
    <2> QED
        BY <1>1, <2>2, AgreesStays DEF Refresh
<1>2. ASSUME NEW c \in Clusters, SwitchCluster(c) PROVE FALSE
    BY <1>2 DEF Touched
<1>3. ASSUME NEW q \in Panels, NEW s \in Slots, Toggle(q, s)
      PROVE  Agrees(p)' /\ Calm(p)'
    <2>1. q # p
        BY <1>3 DEF Touched
    <2> QED
        BY <1>0, <1>3, <2>1, AgreesStays, CalmStays DEF Toggle, SendPost, TypeOK
<1>4. ASSUME NEW q \in Panels, NEW s \in Slots, Kill(q, s)
      PROVE  Agrees(p)' /\ Calm(p)'
    <2>1. q # p
        BY <1>4 DEF Touched
    <2> QED
        BY <1>0, <1>4, <2>1, AgreesStays, CalmStays DEF Kill, SendPost, TypeOK
<1>5. ASSUME NEW q \in Panels, NEW s \in Slots, ServePoll(q, s)
      PROVE  Agrees(p)' /\ Calm(p)'
    <2>1. Agrees(p)'
        BY <1>5, AgreesStays DEF ServePoll
    <2>2. PICK a \in {"on", "off", "error"}:
              /\ polls' = [polls EXCEPT ![q][s] = [polls[q][s] EXCEPT !.phase = a]]
              /\ a # "error" => a = IF on[q][polls[q][s].at] THEN "on" ELSE "off"
        BY <1>5 DEF ServePoll
    <2>3. ASSUME NEW z \in Slots
          PROVE  \/ polls'[p][z] = polls[p][z]
                 \/ polls'[p][z].phase \in {"none", "error"}
                 \/ /\ polls'[p][z].at = Target(p)
                    /\ polls'[p][z].phase # IF on[p][Target(p)] THEN "off" ELSE "on"
        <3>1. CASE q = p /\ z = s
            <4>1. polls[p][s] \in Polls
                BY <1>0
            <4>2. polls'[p][s].phase = a /\ polls'[p][s].at = polls[p][s].at
                BY <1>0, <2>2, <3>1, <4>1 DEF Polls
            <4>3. polls[p][s].at = Target(p)
                BY <1>5, <3>1 DEF ServePoll, Calm
            <4> QED
                BY <2>2, <3>1, <4>2, <4>3
        <3>2. CASE ~(q = p /\ z = s)
            BY <1>0, <2>2, <3>2
        <3> QED
            BY <3>1, <3>2
    <2>4. Calm(p)'
        BY <1>5, <2>3, CalmStays DEF ServePoll
    <2> QED
        BY <2>1, <2>4
<1>6. ASSUME NEW q \in Panels, NEW s \in Slots, ServePost(q, s)
      PROVE  Agrees(p)' /\ Calm(p)'
    <2>1. q # p
        BY <1>6 DEF ServePost, Calm
    <2>2. posts'[p] = posts[p]
        BY <1>0, <1>6, <2>1 DEF ServePost
    <2>3. on'[p] = on[p]
        BY <1>0, <1>6, <2>1 DEF ServePost, TypeOK
    <2> QED
        BY <1>6, <2>2, <2>3, AgreesStays, CalmStays DEF ServePost
<1>7. ASSUME NEW q \in Panels, NEW s \in Slots, PollAnswered(q, s)
      PROVE  Agrees(p)' /\ Calm(p)'
    <2>1. \A z \in Slots: polls'[p][z] \in {polls[p][z], NoPoll}
        BY <1>0, <1>7 DEF PollAnswered
    <2>2. Calm(p)'
        BY <1>7, <2>1, CalmStays DEF PollAnswered, NoPoll
    <2>3. CASE q = p
        BY <1>7, <2>2, <2>3, AnswerIsTrue
    <2>4. CASE q # p
        <3>1. logSources'[p] = logSources[p]
            BY <1>0, <1>7, <2>4
            DEF PollAnswered, OpenLogStream, CloseLogStream, TypeOK
        <3>2. /\ shown'[p] = shown[p] /\ toggle'[p] = toggle[p]
              /\ killable'[p] = killable[p]
            BY <1>0, <1>7, <2>4 DEF PollAnswered, TypeOK
        <3> QED
            BY <1>7, <2>2, <3>1, <3>2, AgreesStays DEF PollAnswered
    <2> QED
        BY <2>3, <2>4
<1>8. ASSUME NEW q \in Panels, NEW s \in Slots, PollFailed(q, s)
      PROVE  Agrees(p)' /\ Calm(p)'
    <2>1. \A z \in Slots: polls'[p][z] \in {polls[p][z], NoPoll}
        BY <1>0, <1>8 DEF PollFailed
    <2> QED
        BY <1>8, <2>1, AgreesStays, CalmStays DEF PollFailed, NoPoll
<1>9. ASSUME NEW q \in Panels, NEW s \in Slots, ToggleAnswered(q, s)
      PROVE  Agrees(p)' /\ Calm(p)'
    <2>1. q # p
        BY <1>9 DEF ToggleAnswered, Calm
    <2>2. logSources'[p] = logSources[p] /\ toggle'[p] = toggle[p]
        BY <1>0, <1>9, <2>1 DEF ToggleAnswered, CloseLogStream, TypeOK
    <2>3. posts'[p] = posts[p]
        BY <1>0, <1>9, <2>1 DEF ToggleAnswered
    <2> QED
        BY <1>9, <2>2, <2>3, AgreesStays, CalmStays DEF ToggleAnswered
<1>10. ASSUME NEW q \in Panels, NEW s \in Slots, KillAnswered(q, s)
       PROVE  Agrees(p)' /\ Calm(p)'
    <2>1. q # p
        BY <1>10 DEF KillAnswered, Calm
    <2>2. killable'[p] = killable[p] /\ posts'[p] = posts[p]
        BY <1>0, <1>10, <2>1 DEF KillAnswered, TypeOK
    <2> QED
        BY <1>10, <2>2, AgreesStays, CalmStays DEF KillAnswered
<1>11. ASSUME NEW q \in Panels, NEW c \in Clusters, Elsewhere(q, c)
       PROVE  Agrees(p)' /\ Calm(p)'
    <2>1. q # p
        BY <1>11 DEF Touched
    <2>2. on'[p] = on[p]
        BY <1>0, <1>11, <2>1 DEF Elsewhere, TypeOK
    <2> QED
        BY <1>11, <2>2, AgreesStays, CalmStays DEF Elsewhere
<1>12. ASSUME NEW q \in Panels, NEW c \in Clusters, LogLine(q, c)
       PROVE  Agrees(p)' /\ Calm(p)'
    BY <1>12, AgreesStays, CalmStays DEF LogLine
<1>13. CASE UNCHANGED vars
    BY <1>13, AgreesStays, CalmStays DEF vars
<1> QED
    BY <1>1, <1>2, <1>3, <1>4, <1>5, <1>6, <1>7, <1>8, <1>9, <1>10, <1>11,
       <1>12, <1>13 DEF Next, User, Serve, Answer

-----------------------------------------------------------------------------
(* The variables of the page keep their types.                             *)
THEOREM PanelTypes == Spec => []TypeOK
BY PanelInductive, PTL DEF PanelInv

(* However polls, clicks, answers and failures interleave with switches of *)
(* the cluster, a panel has at most one EventSource open, the one it knows *)
(* of, and it is about the selected cluster.                               *)
THEOREM StreamsFollowSelector == Spec => []OneStream
BY PanelInductive, PTL DEF PanelInv

(* No line of a cluster that is not selected is ever in a log pane.        *)
THEOREM PanesFollowSelector == Spec => []PaneOfOneCluster
BY PanelInductive, PTL DEF PanelInv

(* Nothing the page does by itself makes it wrong again: a panel that      *)
(* tells the truth, with nothing outdated on its way to it, goes on        *)
(* telling the truth until its user or someone else acts.                  *)
THEOREM TruthIsStable == Spec => StaysRight
<1>1. PanelInv /\ [Next]_vars =>
          \A p \in Panels:
              Agrees(p) /\ Calm(p) /\ ~Touched(p) => Agrees(p)' /\ Calm(p)'
    BY RightStep
<1> QED
    BY <1>1, PanelInductive, PTL DEF Spec, StaysRight
=============================================================================
