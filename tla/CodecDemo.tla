----------------------------- MODULE CodecDemo -----------------------------
(***************************************************************************)
(* The codec worker and its two workflows (codec-demo/cmd/worker,          *)
(* codec-demo/workflows), started by participants with or without the      *)
(* codec server between.                                                   *)
(*                                                                         *)
(* Temporal keeps the history of a workflow: the payloads of its input, of *)
(* an activity's input and result and of its own result. It hands out      *)
(* tasks, again if they are not answered in time. The worker dials until   *)
(* the frontend answers, and crashes; the frontend comes and goes. A       *)
(* workflow task computes from the history alone and is one step; an       *)
(* activity task has an effect outside and is several.                     *)
(***************************************************************************)
EXTENDS Codec

CONSTANTS
    Workflows,    \* the workflows participants start
    Numbers,      \* the SSNs and card numbers they are about
    Last4,        \* their last four digits, or the whole of a shorter one
    NoPayload,    \* an event that is not in the history yet
    MaxFaults     \* bound on each kind of fault

ASSUME MaxFaultsIsNat == MaxFaults \in Nat

Kinds == {"person", "payment"}

Numbered(what, n) == [what |-> what, about |-> n]

(* What each payload is about: inputs a whole number, results its end.     *)
ASSUME DataAreNumbered ==
    Data = [what: Kinds \cup {"card"}, about: Numbers] \cup
           [what: {"receipt", "customer", "paid"},
            about: {Last4[n]: n \in Numbers}]

ASSUME NoPayloadIsNull == NoPayload \notin Payloads

VARIABLES
    worker,   \* the process in the codec-worker pod
    frontend, \* whether Temporal's frontend answers
    history,  \* the workflows
    attempt,  \* the activity task of each payment
    astray,   \* how many of its executions were given up and still run
    charges,  \* how often its ChargeCardActivity has run
    left      \* how many more faults may happen

vars == <<worker, frontend, history, attempt, astray, charges, left>>

-----------------------------------------------------------------------------
Slots == {"input", "card", "receipt", "result"}

Histories ==
    [kind: Kinds, number: Numbers,
     stage: {"none", "open", "charging", "charged", "completed", "failed"},
     payload: [Slots -> Payloads \cup {NoPayload}]]

Faults == {"crash", "outage", "timeout", "switch"}

(* The worker's Deployment has no replica until a participant wants one.   *)
Init ==
    /\ worker = "off"
    /\ frontend \in BOOLEAN
    /\ \E kind \in [Workflows -> Kinds], number \in [Workflows -> Numbers]:
          history = [w \in Workflows |->
                        [kind |-> kind[w], number |-> number[w], stage |-> "none",
                         payload |-> [s \in Slots |-> NoPayload]]]
    /\ attempt = [w \in Workflows |-> "none"]
    /\ astray = [w \in Workflows |-> 0]
    /\ charges = [w \in Workflows |-> 0]
    /\ left = [f \in Faults |-> MaxFaults]

Spend(f) == left[f] > 0 /\ left' = [left EXCEPT ![f] = @ - 1]

(* The history of w reaches a stage with payload p in a slot.              *)
Record(w, stage, slot, p) ==
    history' = [history EXCEPT ![w].stage = stage, ![w].payload[slot] = p]

(* The data converter of the worker's client, on the only payload it is    *)
(* given.                                                                  *)
Written(what, about) == Encode(<<Plain(Numbered(what, about))>>).payloads[1]

Readable(p) == Decode(<<p>>).ok

Read(p) == Decode(<<p>>).payloads[1].data.about

-----------------------------------------------------------------------------
(* Participants: `temporal workflow start`, with --codec-endpoint (the CLI *)
(* has the codec server encode the input), without, or with a codec that   *)
(* has another key; and the switch of the control panel.                   *)

Start(w) ==
    LET input == Plain(Numbered(history[w].kind, history[w].number))
        encoded == Serve("POST", TRUE, Encode(<<input>>))
    IN  /\ frontend
        /\ history[w].stage = "none"
        /\ \/ Record(w, "open", "input", input)
           \/ encoded.status = 200 /\ Record(w, "open", "input", encoded.payloads[1])
           \/ Record(w, "open", "input", [input EXCEPT !.seals = <<Foreign>>])
        /\ UNCHANGED <<worker, frontend, attempt, astray, charges, left>>

(* The process ends: a task it had taken is never answered, and nothing    *)
(* that was given up runs on.                                              *)
Abandon ==
    /\ attempt' = [w \in Workflows |->
           IF attempt[w] \in {"taken", "executed"} THEN "lost" ELSE attempt[w]]
    /\ astray' = [w \in Workflows |-> 0]

SwitchOn ==
    /\ worker = "off"
    /\ worker' = "dialing"
    /\ UNCHANGED <<frontend, history, attempt, astray, charges, left>>

SwitchOff ==
    /\ worker # "off"
    /\ Spend("switch")
    /\ worker' = "off"
    /\ Abandon
    /\ UNCHANGED <<frontend, history, charges>>

-----------------------------------------------------------------------------
(* The worker's main: it dials every 5 s until it succeeds, and is started *)
(* again by the kubelet when it ends, as it does if Run fails.             *)

(* Mutant: an inner err shadows the one the loop tests.                    *)
DialShadowed ==
    /\ worker = "dialing"
    /\ frontend
    /\ worker' = "sleeping"
    /\ UNCHANGED <<frontend, history, attempt, astray, charges, left>>

Dial ==
    /\ worker = "dialing"
    /\ frontend
    /\ worker' = "polling"
    /\ UNCHANGED <<frontend, history, attempt, astray, charges, left>>

DialFails ==
    /\ worker = "dialing"
    /\ ~frontend
    /\ worker' = "sleeping"
    /\ UNCHANGED <<frontend, history, attempt, astray, charges, left>>

WakeUp ==
    /\ worker = "sleeping"
    /\ worker' = "dialing"
    /\ UNCHANGED <<frontend, history, attempt, astray, charges, left>>

Crash ==
    /\ worker \in {"sleeping", "polling"}
    /\ Spend("crash")
    /\ worker' = "dialing"
    /\ Abandon
    /\ UNCHANGED <<frontend, history, charges>>

FrontendDown ==
    /\ frontend
    /\ Spend("outage")
    /\ frontend' = FALSE
    /\ UNCHANGED <<worker, history, attempt, astray, charges>>

FrontendUp ==
    /\ ~frontend
    /\ frontend' = TRUE
    /\ UNCHANGED <<worker, history, attempt, astray, charges, left>>

-----------------------------------------------------------------------------
(* Workflow tasks. A workflow whose input the worker cannot decode fails.  *)

Serving == worker = "polling" /\ frontend

InputUnreadable(w) ==
    /\ Serving
    /\ history[w].stage = "open"
    /\ ~Readable(history[w].payload["input"])
    /\ history' = [history EXCEPT ![w].stage = "failed"]
    /\ UNCHANGED <<worker, frontend, attempt, astray, charges, left>>

CustomerOnboarding(w) ==
    LET input == history[w].payload["input"]
    IN  /\ Serving
        /\ history[w].stage = "open"
        /\ history[w].kind = "person"
        /\ Readable(input)
        /\ Record(w, "completed", "result", Written("customer", Last4[Read(input)]))
        /\ UNCHANGED <<worker, frontend, attempt, astray, charges, left>>

(* Mutant: the activity's input bypasses the codec.                        *)
ChargeInTheClear(w) ==
    LET input == history[w].payload["input"]
    IN  /\ Serving
        /\ history[w].stage = "open"
        /\ history[w].kind = "payment"
        /\ Readable(input)
        /\ Record(w, "charging", "card", Plain(Numbered("card", Read(input))))
        /\ attempt' = [attempt EXCEPT ![w] = "queued"]
        /\ UNCHANGED <<worker, frontend, astray, charges, left>>

(* ProcessPaymentWorkflow up to its Get, and after it.                     *)
ProcessPayment(w) ==
    LET input == history[w].payload["input"]
    IN  /\ Serving
        /\ history[w].stage = "open"
        /\ history[w].kind = "payment"
        /\ Readable(input)
        /\ Record(w, "charging", "card", Written("card", Read(input)))
        /\ attempt' = [attempt EXCEPT ![w] = "queued"]
        /\ UNCHANGED <<worker, frontend, astray, charges, left>>

(* Mutant: the receipt is passed on as it is, through the codec.           *)
PaymentPassedOn(w) ==
    LET receipt == history[w].payload["receipt"]
    IN  /\ Serving
        /\ history[w].stage = "charged"
        /\ Record(w, "completed", "result", Encode(<<receipt>>).payloads[1])
        /\ UNCHANGED <<worker, frontend, attempt, astray, charges, left>>

(* Mutant: the workflow does not wait for the charge.                      *)
PaymentUnawaited(w) ==
    LET input == history[w].payload["input"]
    IN  /\ Serving
        /\ history[w].stage \in {"charging", "charged"}
        /\ Record(w, "completed", "result", Written("paid", Last4[Read(input)]))
        /\ UNCHANGED <<worker, frontend, attempt, astray, charges, left>>

PaymentCharged(w) ==
    LET receipt == history[w].payload["receipt"]
    IN  /\ Serving
        /\ history[w].stage = "charged"
        /\ Readable(receipt)
        /\ Record(w, "completed", "result", Written("paid", Read(receipt)))
        /\ UNCHANGED <<worker, frontend, attempt, astray, charges, left>>

-----------------------------------------------------------------------------
(* The activity task: taken, executed, answered; handed out again when its *)
(* StartToCloseTimeout is over, after a crash or just because it was slow. *)

TakeActivity(w) ==
    /\ Serving
    /\ attempt[w] = "queued"
    /\ attempt' = [attempt EXCEPT ![w] = "taken"]
    /\ UNCHANGED <<worker, frontend, history, astray, charges, left>>

ChargeCard(w) ==
    /\ attempt[w] = "taken"
    /\ Readable(history[w].payload["card"])
    /\ charges' = [charges EXCEPT ![w] = @ + 1]
    /\ attempt' = [attempt EXCEPT ![w] = "executed"]
    /\ UNCHANGED <<worker, frontend, history, astray, left>>

AnswerActivity(w) ==
    /\ Serving
    /\ attempt[w] = "executed"
    /\ Record(w, "charged", "receipt",
              Written("receipt", Last4[Read(history[w].payload["card"])]))
    /\ attempt' = [attempt EXCEPT ![w] = "none"]
    /\ UNCHANGED <<worker, frontend, astray, charges, left>>

(* Mutant: an activity that timed out fails its workflow.                  *)
TimeoutIsFinal(w) ==
    /\ \/ attempt[w] = "lost" /\ UNCHANGED left
       \/ attempt[w] \in {"taken", "executed"} /\ Spend("timeout")
    /\ history' = [history EXCEPT ![w].stage = "failed"]
    /\ attempt' = [attempt EXCEPT ![w] = "none"]
    /\ UNCHANGED <<worker, frontend, astray, charges>>

ActivityTimesOut(w) ==
    /\ \/ attempt[w] = "lost" /\ UNCHANGED <<astray, left>>
       \/ /\ attempt[w] = "taken"
          /\ astray' = [astray EXCEPT ![w] = @ + 1]
          /\ Spend("timeout")
       \/ attempt[w] = "executed" /\ UNCHANGED astray /\ Spend("timeout")
    /\ attempt' = [attempt EXCEPT ![w] = "queued"]
    /\ UNCHANGED <<worker, frontend, history, charges>>

(* ChargeCardActivity does not look at its context: an execution that was  *)
(* given up charges all the same, and Temporal refuses its answer.         *)
ChargeAstray(w) ==
    /\ astray[w] > 0
    /\ astray' = [astray EXCEPT ![w] = @ - 1]
    /\ charges' = [charges EXCEPT ![w] = @ + 1]
    /\ UNCHANGED <<worker, frontend, history, attempt, left>>

-----------------------------------------------------------------------------
Task(w) ==
    \/ InputUnreadable(w)
    \/ CustomerOnboarding(w)
    \/ ProcessPayment(w)
    \/ PaymentCharged(w)
    \/ TakeActivity(w)
    \/ ChargeCard(w)
    \/ AnswerActivity(w)

Next ==
    \/ \E w \in Workflows:
          Start(w) \/ Task(w) \/ ActivityTimesOut(w) \/ ChargeAstray(w)
    \/ SwitchOn \/ SwitchOff
    \/ Dial \/ DialFails \/ WakeUp \/ Crash
    \/ FrontendDown \/ FrontendUp

Spec == Init /\ [][Next]_vars

(* The process runs, the frontend comes back, Temporal hands out the tasks *)
(* there are and those that timed out. Nobody has to start a workflow or   *)
(* turn the worker on.                                                     *)
Fairness ==
    /\ WF_vars(Dial \/ DialFails)
    /\ WF_vars(WakeUp)
    /\ WF_vars(FrontendUp)
    /\ \A w \in Workflows:
          WF_vars(Task(w)) /\ WF_vars(attempt[w] = "lost" /\ ActivityTimesOut(w))

FairSpec == Spec /\ Fairness

-----------------------------------------------------------------------------
(* Properties.                                                             *)

(* The variables have their types; no payload is under more than one seal. *)
TypeOK ==
    /\ worker \in {"off", "dialing", "sleeping", "polling"}
    /\ frontend \in BOOLEAN
    /\ history \in [Workflows -> Histories]
    /\ \A w \in Workflows, s \in Slots:
          history[w].payload[s] # NoPayload => Len(history[w].payload[s].seals) <= 1
    /\ attempt \in [Workflows -> {"none", "queued", "taken", "executed", "lost"}]
    /\ astray \in [Workflows -> Nat]
    /\ charges \in [Workflows -> Nat]
    /\ left \in [Faults -> Nat]

(* The codec "applies to activity payloads too, not just top-level         *)
(* workflow args" (payment.go:34-37): nothing the worker writes into a     *)
(* history can be read without the key, however the input came.            *)
NothingInTheClear ==
    \A w \in Workflows: \A s \in Slots \ {"input"}:
        LET p == history[w].payload[s]
        IN  p # NoPayload => Marked(p) /\ Opens(p)

(* The Web UI's one request for the payloads of a history, sealed and      *)
(* plain together, is answered with all of them opened, in order, unless   *)
(* the input is under a seal nobody here can open: then with none.         *)
Entry(w, s) ==
    IF history[w].payload[s] = NoPayload THEN <<>> ELSE <<history[w].payload[s]>>

Shown(w) ==
    Entry(w, "input") \o Entry(w, "card") \o Entry(w, "receipt") \o Entry(w, "result")

HistoriesReadable ==
    \A w \in Workflows:
        LET ps == Shown(w)
            reply == Browse(ps)
        IN  IF ps # <<>> /\ ~Opens(ps[1])
            THEN reply.status = 500 /\ reply.payloads = <<>>
            ELSE /\ reply.status = 200
                 /\ reply.payloads = [i \in DOMAIN ps |-> Plain(ps[i].data)]

(* A workflow completes with the result of its own input, and a payment    *)
(* only after its card was charged, whatever crashed or timed out.         *)
ResultsRight ==
    \A w \in Workflows:
        LET h == history[w]
        IN  h.stage = "completed" =>
                /\ h.payload["result"].data =
                      Numbered(IF h.kind = "person" THEN "customer" ELSE "paid",
                               Last4[h.number])
                /\ h.kind = "payment" => charges[w] > 0

(* The workflows keep what Outcomes promises: a history's stages up to its *)
(* end are one status, and the result is what the last payload is about.   *)
Status(h) ==
    CASE h.stage \in {"open", "charging", "charged"} ->
             IF Opens(h.payload["input"]) THEN "open" ELSE "unreadable"
      [] OTHER -> h.stage

ResultData(h) ==
    IF h.payload["result"] = NoPayload THEN NoPayload ELSE h.payload["result"].data

Orders == [w \in Workflows |->
              [kind |-> history[w].kind, number |-> history[w].number]]

Statuses == [w \in Workflows |-> Status(history[w])]

Results == [w \in Workflows |-> ResultData(history[w])]

Promise == INSTANCE Outcomes WITH
    NoResult <- NoPayload, order <- Orders, status <- Statuses, result <- Results

ImplementsOutcomes == Promise!Spec

(* A workflow whose input the worker can open completes unless the worker  *)
(* is left switched off, though the worker starts before the frontend,     *)
(* crashes, is switched off and on again, loses tasks and is given some    *)
(* twice.                                                                  *)
Completes ==
    \A w \in Workflows:
        history[w].stage = "open" /\ Opens(history[w].payload["input"])
            ~> history[w].stage = "completed" \/ [](worker = "off")
=============================================================================
