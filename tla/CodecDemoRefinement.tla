------------------------- MODULE CodecDemoRefinement -------------------------
(***************************************************************************)
(* CodecDemo implements Outcomes: whatever the worker, the frontend and    *)
(* the tasks go through, to whoever started a workflow each step of theirs *)
(* is one of Begin, Charge, Complete and Refuse, or nothing.               *)
(*                                                                         *)
(* A step about one workflow leaves the others as they stand (OneStands).  *)
(* What the rest needs is in CodecInv: past its input a payment's input    *)
(* opens, so its status stays "open" until it completes, and an execution, *)
(* one that was given up too, belongs to such a payment.                   *)
(***************************************************************************)
EXTENDS CodecDemoProofs

LEMMA StandsOf ==
    ASSUME NEW w \in Workflows
    PROVE  /\ Orders[w].kind = history[w].kind
           /\ Orders[w].number = history[w].number
           /\ Statuses[w] = Status(history[w])
           /\ Results[w] = ResultData(history[w])
BY DEF Orders, Statuses, Results

(* Only w's history changes, and not what it was started with.             *)
LEMMA OneStands ==
    ASSUME CodecInv, NEW w \in Workflows, NEW h,
           history' = [history EXCEPT ![w] = h],
           h.kind = history[w].kind, h.number = history[w].number
    PROVE  /\ Orders' = Orders
           /\ Statuses' = [Statuses EXCEPT ![w] = Status(h)]
           /\ Results' = [Results EXCEPT ![w] = ResultData(h)]
<1>1. history \in [Workflows -> Histories]
    BY DEF CodecInv, Tables
<1>2. history'[w] = h /\ \A v \in Workflows \ {w}: history'[v] = history[v]
    BY <1>1
<1>3. \A v \in Workflows: /\ history'[v].kind = history[v].kind
                          /\ history'[v].number = history[v].number
    BY <1>2
<1>4. \A v \in Workflows: Status(history'[v]) = [Statuses EXCEPT ![w] = Status(h)][v]
    BY <1>2 DEF Statuses
<1>5. \A v \in Workflows:
         ResultData(history'[v]) = [Results EXCEPT ![w] = ResultData(h)][v]
    BY <1>2 DEF Results
<1>6. Orders' = Orders
    BY <1>3 DEF Orders
<1>7. Statuses' = [Statuses EXCEPT ![w] = Status(h)]
    BY <1>4 DEF Statuses
<1>8. Results' = [Results EXCEPT ![w] = ResultData(h)]
    BY <1>5 DEF Results
<1> QED
    BY <1>6, <1>7, <1>8

LEMMA NothingStands ==
    ASSUME UNCHANGED <<history, charges>>
    PROVE  UNCHANGED Promise!vars
BY DEF Promise!vars, Orders, Statuses, Results

LEMMA InitPromises == Init => Promise!Init
<1> SUFFICES ASSUME Init PROVE Promise!Init
    OBVIOUS
<1>1. PICK kind \in [Workflows -> Kinds], number \in [Workflows -> Numbers]:
          history = [w \in Workflows |->
                        [kind |-> kind[w], number |-> number[w], stage |-> "none",
                         payload |-> [s \in Slots |-> NoPayload]]]
    BY DEF Init
<1>2. Orders \in [Workflows -> [kind: {"person", "payment"}, number: Numbers]]
    BY <1>1 DEF Orders, Kinds
<1>3. Statuses = [w \in Workflows |-> "none"]
    BY <1>1 DEF Statuses, Status
<1>4. Results = [w \in Workflows |-> NoPayload]
    BY <1>1 DEF Results, ResultData, Slots
<1> QED
    BY <1>2, <1>3, <1>4 DEF Promise!Init, Init

-----------------------------------------------------------------------------
(* Each step about workflow w.                                             *)
LEMMA WorkflowKeepsPromise ==
    ASSUME CodecInv, NEW w \in Workflows,
           Start(w) \/ Task(w) \/ ActivityTimesOut(w) \/ ChargeAstray(w)
    PROVE  \/ Promise!Begin(w) \/ Promise!Charge(w)
           \/ Promise!Complete(w) \/ Promise!Refuse(w)
           \/ UNCHANGED Promise!vars
<1> DEFINE g == history[w]
<1>0. /\ g \in Histories /\ g.kind \in Kinds
      /\ Known(g, attempt[w], astray[w], charges[w])
      /\ history \in [Workflows -> Histories]
      /\ "result" \in Slots
    BY DEF CodecInv, Tables, Histories, Slots
<1>c. ASSUME NEW h, history' = [history EXCEPT ![w] = h],
             h.kind = g.kind, h.number = g.number, UNCHANGED charges,
             g.stage \in {"open", "charging", "charged"}, Opens(g.payload["input"]),
             h.stage = "completed",
             h.payload["result"] = Sealed(ResultOf(g), Last4[g.number]),
             h.payload["result"] # NoPayload,
             g.kind = "payment" => charges[w] > 0
      PROVE  Promise!Complete(w)
    <2>1. Statuses[w] = "open" /\ Status(h) = "completed"
        BY <1>c, StandsOf DEF Status
    <2>2. ResultData(h) = Promise!Answer(Orders[w])
        BY <1>c, StandsOf DEF ResultData, Sealed, ResultOf, Numbered, Promise!Answer
    <2>3. /\ Orders' = Orders
          /\ Statuses' = [Statuses EXCEPT ![w] = Status(h)]
          /\ Results' = [Results EXCEPT ![w] = ResultData(h)]
        BY <1>c, OneStands
    <2>4. Orders[w].kind = "payment" => charges[w] > 0
        BY <1>c, StandsOf
    <2> QED
        BY <1>c, <2>1, <2>2, <2>3, <2>4 DEF Promise!Complete
<1>s. ASSUME NEW h, history' = [history EXCEPT ![w] = h],
             h.kind = g.kind, h.number = g.number,
             h.payload["result"] = g.payload["result"]
      PROVE  /\ Orders' = Orders
             /\ Statuses' = [Statuses EXCEPT ![w] = Status(h)]
             /\ Results' = Results
    <2>1. ResultData(h) = Results[w]
        BY <1>s, StandsOf DEF ResultData
    <2>2. [Results EXCEPT ![w] = Results[w]] = Results
        BY DEF Results
    <2> QED
        BY <1>s, <2>1, <2>2, OneStands
<1>k. ASSUME NEW h, history' = [history EXCEPT ![w] = h],
             h.kind = g.kind, h.number = g.number,
             h.payload["result"] = g.payload["result"],
             Status(h) = Status(g), UNCHANGED charges
      PROVE  UNCHANGED Promise!vars
    <2>1. [Statuses EXCEPT ![w] = Statuses[w]] = Statuses
        BY DEF Statuses
    <2> QED
        BY <1>k, <1>s, <2>1, StandsOf DEF Promise!vars
<1>1. CASE Start(w)
    <2>1. PICK x \in {<<>>, <<Key>>, <<Foreign>>}:
              Record(w, "open", "input",
                     [seals |-> x, data |-> Numbered(g.kind, g.number)])
        BY <1>1, StartRecords
    <2> DEFINE p == [seals |-> x, data |-> Numbered(g.kind, g.number)]
               h == [g EXCEPT !.stage = "open", !.payload["input"] = p]
    <2>2. /\ history' = [history EXCEPT ![w] = h]
          /\ h.kind = g.kind /\ h.number = g.number /\ h.stage = "open"
          /\ h.payload["input"] = p
          /\ h.payload["result"] = g.payload["result"]
        BY <1>0, <2>1 DEF Record, Histories, Slots
    <2>3. Status(h) \in {"open", "unreadable"}
        BY <2>2 DEF Status
    <2>4. g.stage = "none" /\ UNCHANGED charges
        BY <1>1 DEF Start
    <2>5. Statuses[w] = "none"
        BY <2>4, StandsOf DEF Status
    <2>6. Orders' = Orders /\ Statuses' = [Statuses EXCEPT ![w] = Status(h)] /\ Results' = Results
        BY <1>s, <2>2
    <2> QED
        BY <2>3, <2>4, <2>5, <2>6 DEF Promise!Begin
<1>2. CASE InputUnreadable(w)
    <2> DEFINE h == [g EXCEPT !.stage = "failed"]
    <2>1. /\ history' = [history EXCEPT ![w] = h] /\ UNCHANGED charges
          /\ h.kind = g.kind /\ h.number = g.number
          /\ h.payload["result"] = g.payload["result"]
          /\ Status(h) = "failed"
        BY <1>0, <1>2 DEF InputUnreadable, Histories, Status
    <2>2. Statuses[w] = "unreadable"
        <3>1. g.stage = "open" /\ ~Readable(g.payload["input"])
            BY <1>2 DEF InputUnreadable
        <3>2. ~Opens(g.payload["input"])
            BY <3>1, OpensReadable
        <3> QED
            BY <3>1, <3>2, StandsOf DEF Status
    <2>3. Orders' = Orders /\ Statuses' = [Statuses EXCEPT ![w] = "failed"] /\ Results' = Results
        BY <1>s, <2>1
    <2> QED
        BY <2>1, <2>2, <2>3 DEF Promise!Refuse
<1>3. CASE CustomerOnboarding(w)
    <2> DEFINE p == Sealed("customer", Last4[g.number])
               h == [g EXCEPT !.stage = "completed", !.payload["result"] = p]
    <2>1. /\ g.stage = "open" /\ g.kind = "person" /\ UNCHANGED charges
          /\ Readable(g.payload["input"])
          /\ Record(w, "completed", "result", p)
        BY <1>0, <1>3, InputNumber, WrittenIsSealed DEF CustomerOnboarding
    <2>2. /\ history' = [history EXCEPT ![w] = h]
          /\ h.kind = g.kind /\ h.number = g.number /\ h.stage = "completed"
          /\ h.payload["result"] = p
        BY <1>0, <2>1 DEF Record, Histories
    <2>3. p = Sealed(ResultOf(g), Last4[g.number]) /\ p # NoPayload
        BY <1>0, <2>1, PayloadTypes, NoPayloadIsNull DEF ResultOf, Histories
    <2> QED
        BY <1>c, <2>1, <2>2, <2>3, ReadableOpens
<1>4. CASE ProcessPayment(w)
    <2> DEFINE p == Written("card", Read(g.payload["input"]))
               h == [g EXCEPT !.stage = "charging", !.payload["card"] = p]
    <2>1. /\ g.stage = "open" /\ UNCHANGED charges
          /\ Readable(g.payload["input"])
          /\ history' = [history EXCEPT ![w] = h]
        BY <1>0, <1>4 DEF ProcessPayment, Record
    <2>2. /\ h.kind = g.kind /\ h.number = g.number /\ h.stage = "charging"
          /\ h.payload["result"] = g.payload["result"]
          /\ h.payload["input"] = g.payload["input"]
        BY <1>0 DEF Histories, Slots
    <2>3. Status(h) = Status(g)
        BY <2>1, <2>2, ReadableOpens DEF Status
    <2> QED
        BY <1>k, <2>1, <2>2, <2>3
<1>5. CASE PaymentCharged(w)
    <2> DEFINE p == Sealed("paid", Last4[g.number])
               h == [g EXCEPT !.stage = "completed", !.payload["result"] = p]
    <2>1. /\ g.stage = "charged" /\ g.kind = "payment" /\ charges[w] > 0
          /\ Opens(g.payload["input"]) /\ UNCHANGED charges
          /\ g.payload["receipt"] = Sealed("receipt", Last4[g.number])
        BY <1>0, <1>5 DEF PaymentCharged, Known, Progress, Contents
    <2>2. Record(w, "completed", "result", p)
        BY <1>5, <2>1, SealedIsRead, WrittenIsSealed DEF PaymentCharged
    <2>3. /\ history' = [history EXCEPT ![w] = h]
          /\ h.kind = g.kind /\ h.number = g.number /\ h.stage = "completed"
          /\ h.payload["result"] = p
        BY <1>0, <2>2 DEF Record, Histories
    <2>4. p = Sealed(ResultOf(g), Last4[g.number]) /\ p # NoPayload
        BY <1>0, <2>1, PayloadTypes, NoPayloadIsNull DEF ResultOf, Histories
    <2> QED
        BY <1>c, <2>1, <2>3, <2>4
<1>6. CASE TakeActivity(w) \/ ActivityTimesOut(w)
    BY <1>6, NothingStands DEF TakeActivity, ActivityTimesOut
<1>7. ASSUME g.kind = "payment", g.stage \in {"charging", "charged", "completed"},
             g.stage # "completed" => Opens(g.payload["input"]),
             UNCHANGED history, charges' = [charges EXCEPT ![w] = @ + 1]
      PROVE  Promise!Charge(w)
    <2>1. Orders[w].kind = "payment" /\ Statuses[w] \in {"open", "completed"}
        BY <1>7, StandsOf DEF Status
    <2>2. UNCHANGED <<Orders, Statuses, Results>>
        BY <1>7 DEF Orders, Statuses, Results
    <2> QED
        BY <1>7, <2>1, <2>2 DEF Promise!Charge
<1>8. CASE ChargeCard(w) \/ ChargeAstray(w)
    <2>1. /\ UNCHANGED history /\ charges' = [charges EXCEPT ![w] = @ + 1]
          /\ g.kind = "payment" /\ g.stage \in {"charging", "charged", "completed"}
          /\ g.stage # "completed" => Opens(g.payload["input"])
        BY <1>0, <1>8 DEF ChargeCard, ChargeAstray, Known, Progress
    <2> QED
        BY <1>7, <2>1
<1>9. CASE AnswerActivity(w)
    <2> DEFINE p == Written("receipt", Last4[Read(g.payload["card"])])
               h == [g EXCEPT !.stage = "charged", !.payload["receipt"] = p]
    <2>1. /\ g.stage = "charging" /\ UNCHANGED charges
          /\ Opens(g.payload["input"])
          /\ history' = [history EXCEPT ![w] = h]
        BY <1>0, <1>9 DEF AnswerActivity, Record, Known, Progress
    <2>2. /\ h.kind = g.kind /\ h.number = g.number /\ h.stage = "charged"
          /\ h.payload["result"] = g.payload["result"]
          /\ h.payload["input"] = g.payload["input"]
        BY <1>0 DEF Histories, Slots
    <2>3. Status(h) = Status(g)
        BY <2>1, <2>2 DEF Status
    <2> QED
        BY <1>k, <2>1, <2>2, <2>3
<1> QED
    BY <1>1, <1>2, <1>3, <1>4, <1>5, <1>6, <1>8, <1>9 DEF Task

LEMMA StepKeepsPromise ==
    ASSUME CodecInv, [Next]_vars
    PROVE  [Promise!Next]_(Promise!vars)
<1>1. ASSUME NEW w \in Workflows,
             Start(w) \/ Task(w) \/ ActivityTimesOut(w) \/ ChargeAstray(w)
      PROVE  [Promise!Next]_(Promise!vars)
    BY <1>1, WorkflowKeepsPromise DEF Promise!Next
<1>2. CASE SwitchOn \/ SwitchOff \/ Dial \/ DialFails \/ WakeUp \/ Crash
           \/ FrontendDown \/ FrontendUp
    BY <1>2, NothingStands DEF SwitchOn, SwitchOff, Dial, DialFails, WakeUp, Crash,
                               FrontendDown, FrontendUp
<1>3. CASE UNCHANGED vars
    BY <1>3, NothingStands DEF vars
<1> QED
    BY <1>1, <1>2, <1>3 DEF Next

(* However the worker is switched, crashes, loses tasks or is given them   *)
(* twice: a workflow ends once, with the result of its own order; only a   *)
(* payment whose input can be read is ever charged, and it is before it    *)
(* completes; and what cannot be read fails, uncharged.                    *)
THEOREM PromisesAreKept == Spec => ImplementsOutcomes
<1>1. CodecInv /\ [Next]_vars => [Promise!Next]_(Promise!vars)
    BY StepKeepsPromise
<1> QED
    BY <1>1, InitPromises, CodecInductive, PTL
    DEF Spec, ImplementsOutcomes, Promise!Spec
=============================================================================
