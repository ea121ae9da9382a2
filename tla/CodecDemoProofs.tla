-------------------------- MODULE CodecDemoProofs --------------------------
(***************************************************************************)
(* Proofs about CodecDemo, for any workflows, numbers and bounds: types,   *)
(* that the worker writes nothing in the clear, and that workflows         *)
(* complete with the results of their own inputs.                          *)
(*                                                                         *)
(* The last needs to know what each payload of a history says: Contents    *)
(* ties them to the number the workflow was started with, and Progress the *)
(* stage of the history to the activity's attempt and the charge.          *)
(***************************************************************************)
EXTENDS CodecDemo, TLAPS

Sealed(what, about) == [seals |-> <<Key>>, data |-> Numbered(what, about)]

ResultOf(h) == IF h.kind = "person" THEN "customer" ELSE "paid"

Contents(h) ==
    /\ h.payload["input"] \in {NoPayload} \cup
           [seals: {<<>>, <<Key>>, <<Foreign>>}, data: {Numbered(h.kind, h.number)}]
    /\ h.payload["card"] \in {NoPayload, Sealed("card", h.number)}
    /\ h.payload["receipt"] \in {NoPayload, Sealed("receipt", Last4[h.number])}
    /\ h.payload["result"] \in {NoPayload, Sealed(ResultOf(h), Last4[h.number])}

Progress(h, tries, strays, count) ==
    /\ h.stage = "open" => h.payload["input"] # NoPayload
    /\ h.stage \in {"charging", "charged"} =>
          h.kind = "payment" /\ Opens(h.payload["input"])
    /\ tries # "none" => h.stage = "charging" /\ h.payload["card"] # NoPayload
    /\ strays > 0 => h.kind = "payment" /\ h.stage \in {"charging", "charged", "completed"}
    /\ tries = "executed" => count > 0
    /\ h.stage = "charged" => h.payload["receipt"] # NoPayload /\ count > 0
    /\ h.stage = "completed" => h.payload["result"] # NoPayload
    /\ h.stage = "completed" /\ h.kind = "payment" => count > 0

Attempts == {"none", "queued", "taken", "executed", "lost"}

Known(h, tries, strays, count) ==
    /\ h \in Histories
    /\ tries \in Attempts
    /\ strays \in Nat
    /\ count \in Nat
    /\ Contents(h)
    /\ Progress(h, tries, strays, count)

Tables ==
    /\ history \in [Workflows -> Histories]
    /\ attempt \in [Workflows -> Attempts]
    /\ astray \in [Workflows -> Nat]
    /\ charges \in [Workflows -> Nat]
    /\ \A w \in Workflows: Known(history[w], attempt[w], astray[w], charges[w])

Controls ==
    /\ worker \in {"off", "dialing", "sleeping", "polling"}
    /\ frontend \in BOOLEAN
    /\ left \in [Faults -> Nat]

CodecInv == Tables /\ Controls

-----------------------------------------------------------------------------
(* What the codec does to a single payload.                                *)
LEMMA WrittenIsSealed ==
    ASSUME NEW what, NEW about
    PROVE  Written(what, about) = Sealed(what, about)
BY DEF Written, Encode, Batch, Seal, Plain, Sealed

LEMMA SealedIsRead ==
    ASSUME NEW what, NEW about
    PROVE  Readable(Sealed(what, about)) /\ Read(Sealed(what, about)) = about
BY DEF Readable, Read, Decode, Batch, Error, Opens, Open, Marked, Sealed, Numbered

LEMMA ReadableOpens ==
    ASSUME NEW p, Readable(p)
    PROVE  Opens(p)
BY DEF Readable, Decode, Batch, Error

LEMMA OpensReadable ==
    ASSUME NEW p, Opens(p)
    PROVE  Readable(p)
BY DEF Readable, Decode, Batch

LEMMA InputIsRead ==
    ASSUME NEW what, NEW about, NEW x \in {<<>>, <<Key>>, <<Foreign>>},
           Readable([seals |-> x, data |-> Numbered(what, about)])
    PROVE  Read([seals |-> x, data |-> Numbered(what, about)]) = about
BY DEF Readable, Read, Decode, Batch, Error, Opens, Open, Marked, Numbered

(* What is written is a payload.                                           *)
LEMMA PayloadTypes ==
    ASSUME NEW n \in Numbers, NEW k \in Kinds, NEW x \in {<<>>, <<Key>>, <<Foreign>>}
    PROVE  /\ [seals |-> x, data |-> Numbered(k, n)] \in Payloads
           /\ Sealed("card", n) \in Payloads
           /\ Sealed("receipt", Last4[n]) \in Payloads
           /\ Sealed("customer", Last4[n]) \in Payloads
           /\ Sealed("paid", Last4[n]) \in Payloads
<1>1. /\ <<>> \in Seq({Key, Foreign}) /\ <<Key>> \in Seq({Key, Foreign})
      /\ <<Foreign>> \in Seq({Key, Foreign})
    OBVIOUS
<1> QED
    BY <1>1, DataAreNumbered DEF Payloads, Sealed, Numbered, Kinds

(* One entry of the tables changes.                                        *)
LEMMA OneWorkflow ==
    ASSUME CodecInv, NEW w \in Workflows, NEW h, NEW a, NEW n, NEW c,
           Known(h, a, n, c),
           history' = [history EXCEPT ![w] = h],
           attempt' = [attempt EXCEPT ![w] = a],
           astray' = [astray EXCEPT ![w] = n],
           charges' = [charges EXCEPT ![w] = c]
    PROVE  Tables'
<1>1. h \in Histories /\ a \in Attempts /\ n \in Nat /\ c \in Nat
    BY DEF Known
<1>2. ASSUME NEW v \in Workflows
      PROVE  Known(history'[v], attempt'[v], astray'[v], charges'[v])
    BY <1>2 DEF CodecInv, Tables
<1> QED
    BY <1>1, <1>2 DEF CodecInv, Tables

-----------------------------------------------------------------------------
LEMMA CodecInit == Init => CodecInv
<1> SUFFICES ASSUME Init PROVE CodecInv
    OBVIOUS
<1>1. PICK kind \in [Workflows -> Kinds], number \in [Workflows -> Numbers]:
          history = [w \in Workflows |->
                        [kind |-> kind[w], number |-> number[w], stage |-> "none",
                         payload |-> [s \in Slots |-> NoPayload]]]
    BY DEF Init
<1>2. ASSUME NEW w \in Workflows
      PROVE  Known(history[w], attempt[w], astray[w], charges[w])
    <2>1. [s \in Slots |-> NoPayload] \in [Slots -> Payloads \cup {NoPayload}]
        OBVIOUS
    <2>2. history[w] \in Histories
        BY <1>1, <2>1 DEF Histories
    <2> QED
        BY <1>1, <2>2 DEF Init, Known, Attempts, Contents, Progress, Slots
<1>3. history \in [Workflows -> Histories]
    BY <1>1, <1>2 DEF Known
<1>4. Controls
    BY MaxFaultsIsNat DEF Init, Controls
<1> QED
    BY <1>2, <1>3, <1>4 DEF Init, CodecInv, Tables, Attempts

(* Only executions change.                                                 *)
LEMMA Others ==
    ASSUME CodecInv, UNCHANGED <<history, charges>>,
           attempt' \in [Workflows -> Attempts],
           astray' \in [Workflows -> Nat],
           \A w \in Workflows: Progress(history[w], attempt'[w], astray'[w], charges[w])
    PROVE  Tables'
BY DEF CodecInv, Tables, Known

LEMMA SpendType ==
    ASSUME CodecInv, NEW f \in Faults, Spend(f)
    PROVE  left' \in [Faults -> Nat]
BY DEF CodecInv, Controls, Spend

LEMMA RecordIs ==
    ASSUME CodecInv, NEW w \in Workflows, NEW stage, NEW slot \in Slots, NEW p,
           p \in Payloads,
           stage \in {"none", "open", "charging", "charged", "completed", "failed"},
           Record(w, stage, slot, p)
    PROVE  \E h \in Histories:
              /\ history' = [history EXCEPT ![w] = h]
              /\ h.kind = history[w].kind /\ h.number = history[w].number
              /\ h.stage = stage
              /\ h.payload[slot] = p
              /\ \A u \in Slots \ {slot}: h.payload[u] = history[w].payload[u]
<1> DEFINE h == [history[w] EXCEPT !.stage = stage, !.payload[slot] = p]
<1>1. history[w] \in Histories
    BY DEF CodecInv, Tables
<1>2. h \in Histories
    BY <1>1 DEF Histories
<1>3. history' = [history EXCEPT ![w] = h]
    BY <1>1 DEF Record
<1> QED
    BY <1>1, <1>2, <1>3 DEF Histories

-----------------------------------------------------------------------------
(* A workflow's input is its own number, plain or under one seal.          *)
LEMMA StartRecords ==
    ASSUME NEW w \in Workflows, Start(w)
    PROVE  \E x \in {<<>>, <<Key>>, <<Foreign>>}:
              Record(w, "open", "input",
                     [seals |-> x,
                      data |-> Numbered(history[w].kind, history[w].number)])
<1> DEFINE d == Numbered(history[w].kind, history[w].number)
           input == Plain(d)
<1>1. input = [seals |-> <<>>, data |-> d]
    BY DEF Plain
<1>2. [input EXCEPT !.seals = <<Foreign>>] = [seals |-> <<Foreign>>, data |-> d]
    BY <1>1
<1>3. Serve("POST", TRUE, Encode(<<input>>)).payloads[1] = [seals |-> <<Key>>, data |-> d]
    BY <1>1 DEF Serve, Encode, Batch, Reply, Seal
<1> QED
    BY <1>1, <1>2, <1>3 DEF Start

(* What the worker reads of an input is that number.                       *)
LEMMA InputNumber ==
    ASSUME CodecInv, NEW w \in Workflows, history[w].stage = "open",
           Readable(history[w].payload["input"])
    PROVE  Read(history[w].payload["input"]) = history[w].number
<1> DEFINE g == history[w]
<1>1. PICK x \in {<<>>, <<Key>>, <<Foreign>>}:
          g.payload["input"] = [seals |-> x, data |-> Numbered(g.kind, g.number)]
    BY DEF CodecInv, Tables, Known, Contents, Progress
<1> DEFINE input == [seals |-> x, data |-> Numbered(g.kind, g.number)]
<1>2. Readable(input)
    BY <1>1
<1>3. Read(input) = g.number
    BY <1>2, InputIsRead
<1> QED
    BY <1>1, <1>3

(* A step about workflow w keeps the tables.                               *)
LEMMA CodecWorkflowStep ==
    ASSUME CodecInv, NEW w \in Workflows, 
           Start(w) \/ Task(w) \/ ActivityTimesOut(w) \/ ChargeAstray(w)
    PROVE  Tables'
<1> DEFINE g == history[w]
<1>0. /\ g \in Histories /\ g.kind \in Kinds /\ g.number \in Numbers
      /\ Known(g, attempt[w], astray[w], charges[w])
      /\ attempt[w] \in Attempts /\ astray[w] \in Nat /\ charges[w] \in Nat
    BY DEF CodecInv, Tables, Histories
<1>s. /\ attempt \in [Workflows -> Attempts] /\ charges \in [Workflows -> Nat]
      /\ astray \in [Workflows -> Nat]
      /\ attempt = [attempt EXCEPT ![w] = attempt[w]]
      /\ astray = [astray EXCEPT ![w] = astray[w]]
      /\ charges = [charges EXCEPT ![w] = charges[w]]
    BY DEF CodecInv, Tables
<1>t. /\ Sealed("card", g.number) \in Payloads
      /\ Sealed("receipt", Last4[g.number]) \in Payloads
      /\ Sealed("customer", Last4[g.number]) \in Payloads
      /\ Sealed("paid", Last4[g.number]) \in Payloads
      /\ \A x \in {<<>>, <<Key>>, <<Foreign>>}:
            [seals |-> x, data |-> Numbered(g.kind, g.number)] \in Payloads
    BY <1>0, PayloadTypes
<1>u. {"input", "card", "receipt", "result"} \subseteq Slots
    BY DEF Slots
<1>n. NoPayload \notin Payloads
    BY NoPayloadIsNull
<1>h. ASSUME NEW h, NEW a, Known(h, a, astray[w], charges[w]),
             history' = [history EXCEPT ![w] = h],
             attempt' = [attempt EXCEPT ![w] = a], UNCHANGED <<astray, charges>>
      PROVE  Tables'
    <2>1. /\ charges' = [charges EXCEPT ![w] = charges[w]]
          /\ astray' = [astray EXCEPT ![w] = astray[w]]
        BY <1>h, <1>s
    <2> QED
        BY <1>h, <2>1, OneWorkflow
<1>r. ASSUME NEW h, Known(h, attempt[w], astray[w], charges[w]),
             history' = [history EXCEPT ![w] = h],
             UNCHANGED <<attempt, astray, charges>>
      PROVE  Tables'
    <2>1. attempt' = [attempt EXCEPT ![w] = attempt[w]]
        BY <1>r, <1>s
    <2> QED
        BY <1>h, <1>r, <2>1
<1>1. CASE Start(w)
    <2>1. PICK x \in {<<>>, <<Key>>, <<Foreign>>}:
              Record(w, "open", "input",
                     [seals |-> x, data |-> Numbered(g.kind, g.number)])
        BY <1>1, StartRecords
    <2>2. PICK h \in Histories:
              /\ history' = [history EXCEPT ![w] = h]
              /\ h.kind = g.kind /\ h.number = g.number
              /\ h.stage = "open"
              /\ h.payload["input"] = [seals |-> x, data |-> Numbered(g.kind, g.number)]
              /\ \A u \in Slots \ {"input"}: h.payload[u] = g.payload[u]
        BY <1>t, <2>1, <1>u, RecordIs
    <2>3. Contents(h)
        BY <1>0, <2>2 DEF Known, Contents, ResultOf, Slots
    <2>4. Progress(h, attempt[w], astray[w], charges[w])
        BY <1>0, <1>1, <1>n, <1>t, <2>2 DEF Known, Progress, Start
    <2>5. Known(h, attempt[w], astray[w], charges[w])
        BY <1>0, <2>2, <2>3, <2>4 DEF Known
    <2>6. UNCHANGED <<attempt, astray, charges>>
        BY <1>1 DEF Start
    <2> QED
        BY <1>r, <2>2, <2>5, <2>6
<1>2. CASE InputUnreadable(w)
    <2> DEFINE h == [g EXCEPT !.stage = "failed"]
    <2>1. /\ history' = [history EXCEPT ![w] = h] /\ h \in Histories
          /\ UNCHANGED <<attempt, astray, charges>> /\ g.stage = "open"
        BY <1>0, <1>2 DEF InputUnreadable, Histories
    <2>2. Contents(h) /\ Progress(h, attempt[w], astray[w], charges[w])
        BY <1>0, <2>1 DEF Known, Contents, ResultOf, Progress, Histories
    <2>3. Known(h, attempt[w], astray[w], charges[w])
        BY <1>0, <2>1, <2>2 DEF Known
    <2> QED
        BY <1>r, <2>1, <2>3
<1>3. CASE CustomerOnboarding(w)
    <2>1. Record(w, "completed", "result", Sealed("customer", Last4[g.number]))
        BY <1>3, InputNumber, WrittenIsSealed DEF CustomerOnboarding
    <2>2. PICK h \in Histories:
              /\ history' = [history EXCEPT ![w] = h]
              /\ h.kind = g.kind /\ h.number = g.number
              /\ h.stage = "completed"
              /\ h.payload["result"] = Sealed("customer", Last4[g.number])
              /\ \A u \in Slots \ {"result"}: h.payload[u] = g.payload[u]
        BY <1>t, <2>1, <1>u, RecordIs
    <2>3. g.stage = "open" /\ g.kind = "person" /\ UNCHANGED <<attempt, astray, charges>>
        BY <1>3 DEF CustomerOnboarding
    <2>4. Contents(h)
        BY <1>0, <2>2, <2>3 DEF Known, Contents, ResultOf, Slots
    <2>5. Progress(h, attempt[w], astray[w], charges[w])
        BY <1>0, <1>n, <1>t, <2>2, <2>3 DEF Known, Progress
    <2>6. Known(h, attempt[w], astray[w], charges[w])
        BY <1>0, <2>2, <2>4, <2>5 DEF Known
    <2> QED
        BY <1>r, <2>2, <2>3, <2>6
<1>4. CASE ProcessPayment(w)
    <2>1. Record(w, "charging", "card", Sealed("card", g.number))
        BY <1>4, InputNumber, WrittenIsSealed DEF ProcessPayment
    <2>2. PICK h \in Histories:
              /\ history' = [history EXCEPT ![w] = h]
              /\ h.kind = g.kind /\ h.number = g.number
              /\ h.stage = "charging"
              /\ h.payload["card"] = Sealed("card", g.number)
              /\ \A u \in Slots \ {"card"}: h.payload[u] = g.payload[u]
        BY <1>t, <2>1, <1>u, RecordIs
    <2>3. /\ g.stage = "open" /\ g.kind = "payment" /\ UNCHANGED <<astray, charges>>
          /\ attempt' = [attempt EXCEPT ![w] = "queued"]
        BY <1>4 DEF ProcessPayment
    <2>4. Contents(h)
        BY <1>0, <2>2, <2>3 DEF Known, Contents, ResultOf, Slots
    <2>5. Progress(h, "queued", astray[w], charges[w])
        <3>1. h.payload["input"] = g.payload["input"] /\ Opens(g.payload["input"])
            BY <1>4, <2>2, ReadableOpens DEF ProcessPayment, Slots
        <3> QED
            BY <1>0, <1>n, <1>t, <2>2, <2>3, <3>1 DEF Known, Progress
    <2>6. Known(h, "queued", astray[w], charges[w])
        BY <1>0, <2>2, <2>4, <2>5 DEF Known, Attempts
    <2> QED
        BY <1>h, <2>2, <2>3, <2>6
<1>5. CASE PaymentCharged(w)
    <2>1. g.stage = "charged" /\ UNCHANGED <<attempt, astray, charges>>
        BY <1>5 DEF PaymentCharged
    <2>2. g.payload["receipt"] = Sealed("receipt", Last4[g.number])
        BY <1>0, <2>1 DEF Known, Contents, Progress
    <2>3. Record(w, "completed", "result", Sealed("paid", Last4[g.number]))
        BY <1>5, <2>2, SealedIsRead, WrittenIsSealed DEF PaymentCharged
    <2>4. PICK h \in Histories:
              /\ history' = [history EXCEPT ![w] = h]
              /\ h.kind = g.kind /\ h.number = g.number
              /\ h.stage = "completed"
              /\ h.payload["result"] = Sealed("paid", Last4[g.number])
              /\ \A u \in Slots \ {"result"}: h.payload[u] = g.payload[u]
        BY <1>t, <2>3, <1>u, RecordIs
    <2>5. g.kind = "payment"
        BY <1>0, <2>1 DEF Known, Progress
    <2>6. Contents(h)
        BY <1>0, <2>4, <2>5 DEF Known, Contents, ResultOf, Slots
    <2>7. Progress(h, attempt[w], astray[w], charges[w])
        BY <1>0, <1>n, <1>t, <2>1, <2>4 DEF Known, Progress
    <2>8. Known(h, attempt[w], astray[w], charges[w])
        BY <1>0, <2>4, <2>6, <2>7 DEF Known
    <2> QED
        BY <1>r, <2>1, <2>4, <2>8
<1>6. ASSUME UNCHANGED history, NEW a \in Attempts, NEW n \in Nat, NEW c \in Nat,
             attempt' = [attempt EXCEPT ![w] = a],
             astray' = [astray EXCEPT ![w] = n],
             charges' = [charges EXCEPT ![w] = c],
             Progress(g, a, n, c)
      PROVE  Tables'
    <2>1. history' = [history EXCEPT ![w] = g]
        BY <1>6 DEF CodecInv, Tables
    <2>2. Known(g, a, n, c)
        BY <1>0, <1>6 DEF Known
    <2> QED
        BY <1>6, <2>1, <2>2, OneWorkflow
<1>7. CASE TakeActivity(w)
    <2>1. Progress(g, "taken", astray[w], charges[w])
        BY <1>0, <1>7 DEF TakeActivity, Known, Progress
    <2> QED
        BY <1>0, <1>6, <1>7, <1>s, <2>1 DEF TakeActivity, Attempts
<1>8. CASE ChargeCard(w)
    <2>1. Progress(g, "executed", astray[w], charges[w] + 1)
        BY <1>0, <1>8 DEF ChargeCard, Known, Progress
    <2>2. /\ UNCHANGED history /\ attempt' = [attempt EXCEPT ![w] = "executed"]
          /\ astray' = [astray EXCEPT ![w] = astray[w]]
          /\ charges' = [charges EXCEPT ![w] = charges[w] + 1]
        BY <1>8, <1>s DEF ChargeCard
    <2>3. "executed" \in Attempts /\ charges[w] + 1 \in Nat
        BY <1>0 DEF Attempts
    <2> QED
        BY <1>0, <1>6, <2>1, <2>2, <2>3
<1>9. CASE AnswerActivity(w)
    <2>1. /\ attempt[w] = "executed" /\ UNCHANGED <<astray, charges>>
          /\ attempt' = [attempt EXCEPT ![w] = "none"]
        BY <1>9 DEF AnswerActivity
    <2>2. /\ g.payload["card"] = Sealed("card", g.number)
          /\ g.kind = "payment" /\ Opens(g.payload["input"]) /\ charges[w] > 0
        BY <1>0, <2>1 DEF Known, Contents, Progress
    <2>3. Record(w, "charged", "receipt", Sealed("receipt", Last4[g.number]))
        BY <1>9, <2>2, SealedIsRead, WrittenIsSealed DEF AnswerActivity
    <2>4. PICK h \in Histories:
              /\ history' = [history EXCEPT ![w] = h]
              /\ h.kind = g.kind /\ h.number = g.number
              /\ h.stage = "charged"
              /\ h.payload["receipt"] = Sealed("receipt", Last4[g.number])
              /\ \A u \in Slots \ {"receipt"}: h.payload[u] = g.payload[u]
        BY <1>t, <2>3, <1>u, RecordIs
    <2>5. Contents(h)
        BY <1>0, <2>4 DEF Known, Contents, ResultOf, Slots
    <2>6. Progress(h, "none", astray[w], charges[w])
        <3>1. h.payload["input"] = g.payload["input"]
            BY <2>4 DEF Slots
        <3> QED
            BY <1>n, <1>t, <2>2, <2>4, <3>1 DEF Progress
    <2>7. Known(h, "none", astray[w], charges[w])
        BY <1>0, <2>4, <2>5, <2>6 DEF Known, Attempts
    <2> QED
        BY <1>h, <2>1, <2>4, <2>7
<1>10. CASE ActivityTimesOut(w)
    <2>1. PICK n \in {astray[w], astray[w] + 1}:
              /\ astray' = [astray EXCEPT ![w] = n]
              /\ attempt' = [attempt EXCEPT ![w] = "queued"]
              /\ attempt[w] # "none"
              /\ UNCHANGED <<history, charges>>
        BY <1>10, <1>s DEF ActivityTimesOut
    <2>2. n \in Nat /\ Progress(g, "queued", n, charges[w])
        BY <1>0, <2>1 DEF Known, Progress
    <2> QED
        BY <1>0, <1>6, <1>s, <2>1, <2>2 DEF Attempts
<1>11. CASE ChargeAstray(w)
    <2>1. astray[w] - 1 \in Nat /\ charges[w] + 1 \in Nat
        BY <1>0, <1>11 DEF ChargeAstray
    <2>2. Progress(g, attempt[w], astray[w] - 1, charges[w] + 1)
        BY <1>0, <1>11 DEF ChargeAstray, Known, Progress
    <2>3. /\ attempt' = [attempt EXCEPT ![w] = attempt[w]] /\ UNCHANGED history
          /\ astray' = [astray EXCEPT ![w] = astray[w] - 1]
          /\ charges' = [charges EXCEPT ![w] = charges[w] + 1]
        BY <1>11, <1>s DEF ChargeAstray
    <2> QED
        BY <1>0, <1>6, <2>1, <2>2, <2>3
<1> QED
    BY <1>1, <1>2, <1>3, <1>4, <1>5, <1>7, <1>8, <1>9, <1>10, <1>11 DEF Task

(* Every step keeps the invariant.                                         *)
LEMMA CodecStep == CodecInv /\ [Next]_vars => CodecInv'
<1> SUFFICES ASSUME CodecInv, [Next]_vars PROVE CodecInv'
    OBVIOUS
<1>0. Controls
    BY DEF CodecInv
<1>1. ASSUME NEW w \in Workflows, Start(w) \/ Task(w) \/ ActivityTimesOut(w) \/ ChargeAstray(w)
      PROVE  CodecInv'
    <2>1. UNCHANGED <<worker, frontend>>
        BY <1>1 DEF Start, Task, ActivityTimesOut, InputUnreadable,
                    CustomerOnboarding, ProcessPayment, PaymentCharged,
                    TakeActivity, ChargeCard, AnswerActivity, ChargeAstray
    <2>2. UNCHANGED left \/ Spend("timeout")
        BY <1>1 DEF Start, Task, ActivityTimesOut, InputUnreadable,
                    CustomerOnboarding, ProcessPayment, PaymentCharged,
                    TakeActivity, ChargeCard, AnswerActivity, ChargeAstray
    <2>3. left' \in [Faults -> Nat]
        BY <1>0, <2>2, SpendType DEF Controls, Faults
    <2> QED
        BY <1>0, <1>1, <2>1, <2>3, CodecWorkflowStep DEF CodecInv, Controls
<1>2. ASSUME UNCHANGED <<history, attempt, astray, charges>> PROVE Tables'
    BY <1>2 DEF CodecInv, Tables
<1>3. ASSUME Abandon, UNCHANGED <<history, charges>> PROVE Tables'
    <2>1. attempt' \in [Workflows -> Attempts] /\ astray' \in [Workflows -> Nat]
        BY <1>3 DEF Abandon, Attempts, CodecInv, Tables
    <2>2. \A w \in Workflows: Progress(history[w], attempt'[w], astray'[w], charges[w])
        BY <1>3 DEF Abandon, Progress, CodecInv, Tables, Known
    <2> QED
        BY <1>3, <2>1, <2>2, Others
<1>4. CASE SwitchOn \/ Dial \/ DialFails \/ WakeUp \/ FrontendUp
    BY <1>0, <1>2, <1>4
    DEF SwitchOn, Dial, DialFails, WakeUp, FrontendUp, CodecInv, Controls
<1>5. CASE SwitchOff
    BY <1>0, <1>3, <1>5, SpendType DEF SwitchOff, CodecInv, Controls, Faults
<1>6. CASE Crash
    BY <1>0, <1>3, <1>6, SpendType DEF Crash, CodecInv, Controls, Faults
<1>7. CASE FrontendDown
    BY <1>0, <1>2, <1>7, SpendType DEF FrontendDown, CodecInv, Controls, Faults
<1>8. CASE UNCHANGED vars
    BY <1>0, <1>2, <1>8 DEF vars, CodecInv, Controls
<1> QED
    BY <1>1, <1>4, <1>5, <1>6, <1>7, <1>8 DEF Next

LEMMA CodecInductive == Spec => []CodecInv
BY CodecInit, CodecStep, PTL DEF Spec

LEMMA CodecConsequences ==
    CodecInv => TypeOK /\ NothingInTheClear /\ ResultsRight
<1> SUFFICES ASSUME CodecInv PROVE TypeOK /\ NothingInTheClear /\ ResultsRight
    OBVIOUS
<1>1. ASSUME NEW w \in Workflows, NEW s \in Slots, history[w].payload[s] # NoPayload
      PROVE  /\ history[w].payload[s].seals \in {<<>>, <<Key>>, <<Foreign>>}
             /\ s # "input" => history[w].payload[s].seals = <<Key>>
    BY <1>1 DEF CodecInv, Tables, Known, Contents, Sealed, Slots
<1>2. TypeOK
    <2>1. Len(<<>>) <= 1 /\ Len(<<Key>>) <= 1 /\ Len(<<Foreign>>) <= 1
        OBVIOUS
    <2>2. \A x \in {<<>>, <<Key>>, <<Foreign>>}: Len(x) <= 1
        BY <2>1
    <2> QED
        BY <1>1, <2>2 DEF CodecInv, Tables, Controls, TypeOK, Attempts
<1>3. NothingInTheClear
    BY <1>1 DEF NothingInTheClear, Marked, Opens
<1>4. ResultsRight
    BY DEF ResultsRight, CodecInv, Tables, Known, Contents, Progress, ResultOf,
           Sealed, Numbered, Histories, Kinds
<1> QED
    BY <1>2, <1>3, <1>4

-----------------------------------------------------------------------------
(* The variables keep their types, and no payload is sealed twice.         *)
THEOREM CodecTypes == Spec => []TypeOK
BY CodecInductive, CodecConsequences, PTL

(* However inputs came and whatever crashed, nothing the worker writes is  *)
(* readable without the key, and it is readable with it.                   *)
THEOREM WorkerSealsAll == Spec => []NothingInTheClear
BY CodecInductive, CodecConsequences, PTL

(* However often an activity was lost or run again, a workflow completes   *)
(* with the result of its own input, a payment after its card was charged. *)
THEOREM ResultsAreRight == Spec => []ResultsRight
BY CodecInductive, CodecConsequences, PTL

-----------------------------------------------------------------------------
(* The codec, on batches of any length.                                    *)
LEMMA SealOpens ==
    ASSUME NEW p \in Payloads
    PROVE  Open(Seal(p)) = p /\ Opens(Seal(p))
<1>1. /\ Head(<<Key>> \o p.seals) = Key /\ Tail(<<Key>> \o p.seals) = p.seals
      /\ <<Key>> \o p.seals # <<>>
    BY DEF Payloads
<1> QED
    BY <1>1 DEF Payloads, Seal, Open, Marked, Opens

(* Whatever Encode seals, Decode gives back, payload by payload, those     *)
(* that were sealed before included.                                       *)
THEOREM RoundTrip ==
    ASSUME NEW ps \in Seq(Payloads)
    PROVE  Decode(Encode(ps).payloads) = Batch(ps)
<1> DEFINE qs == [i \in DOMAIN ps |-> Seal(ps[i])]
<1>1. Encode(ps).payloads = qs
    BY DEF Encode, Batch
<1>2. \A i \in DOMAIN ps: Opens(qs[i]) /\ Open(qs[i]) = ps[i]
    BY SealOpens
<1>3. Decode(qs) = Batch([i \in DOMAIN ps |-> Open(qs[i])])
    BY <1>2 DEF Decode
<1>4. [i \in DOMAIN ps |-> Open(qs[i])] = ps
    BY <1>2
<1> QED
    BY <1>1, <1>3, <1>4

(* The codec server opens any mix of sealed and plain payloads in order.   *)
THEOREM MixedBatchesOpen ==
    ASSUME NEW ps \in Seq(Payloads),
           \A i \in DOMAIN ps: ps[i].seals \in {<<>>, <<Key>>}
    PROVE  Browse(ps) = Reply(200, [i \in DOMAIN ps |-> Plain(ps[i].data)])
<1>1. ASSUME NEW i \in DOMAIN ps
      PROVE  Opens(ps[i]) /\ Open(ps[i]) = Plain(ps[i].data)
    <2>1. ps[i] = [seals |-> ps[i].seals, data |-> ps[i].data]
        <3>1. ps[i] \in Payloads
            OBVIOUS
        <3> QED
            BY <3>1 DEF Payloads
    <2>2. CASE ps[i].seals = <<>>
        BY <2>1, <2>2 DEF Opens, Open, Marked, Plain
    <2>3. CASE ps[i].seals = <<Key>>
        <3>1. Head(<<Key>>) = Key /\ Tail(<<Key>>) = <<>> /\ <<Key>> # <<>>
            OBVIOUS
        <3>2. [ps[i] EXCEPT !.seals = <<>>] = Plain(ps[i].data)
            BY <2>1 DEF Plain
        <3> QED
            BY <2>3, <3>1, <3>2 DEF Opens, Open, Marked
    <2> QED
        BY <2>2, <2>3
<1>2. Decode(ps) = Batch([i \in DOMAIN ps |-> Plain(ps[i].data)])
    BY <1>1 DEF Decode
<1> QED
    BY <1>2 DEF Browse, Serve, Reply, Batch

(* One payload under a seal of another key, and the whole batch, the plain *)
(* payloads too, is refused.                                               *)
THEOREM OneForeignSealRefusesAll ==
    ASSUME NEW ps, NEW i \in DOMAIN ps, ps[i].seals = <<Foreign>>
    PROVE  Browse(ps) = Reply(500, <<>>)
<1>1. ~Opens(ps[i])
    BY SealsDistinct DEF Opens, Marked
<1>2. Decode(ps) = Error
    BY <1>1 DEF Decode
<1> QED
    BY <1>2 DEF Browse, Serve, Reply, Error

-----------------------------------------------------------------------------
(* Histories: but for the input, every payload there is opens.             *)
Openable == {p \in Payloads: p.seals \in {<<>>, <<Key>>}}

LEMMA EntryOpens ==
    ASSUME CodecInv, NEW w \in Workflows, NEW s \in Slots
    PROVE  \/ Entry(w, s) \in Seq(Openable)
           \/ /\ s = "input"
              /\ history[w].payload[s] \in Payloads
              /\ history[w].payload[s].seals = <<Foreign>>
              /\ Entry(w, s) = <<history[w].payload[s]>>
<1> DEFINE p == history[w].payload[s]
<1>1. p \in Payloads \cup {NoPayload} /\ Contents(history[w])
    BY DEF CodecInv, Tables, Known, Histories
<1>2. CASE p = NoPayload
    BY <1>2 DEF Entry
<1>3. CASE p # NoPayload
    <2>1. p \in Payloads /\ Entry(w, s) = <<p>>
        BY <1>1, <1>3 DEF Entry
    <2>2. p.seals \in {<<>>, <<Key>>} \/ (s = "input" /\ p.seals = <<Foreign>>)
        BY <1>1, <1>3 DEF Contents, Sealed, Slots
    <2> QED
        BY <2>1, <2>2 DEF Openable
<1> QED
    BY <1>2, <1>3

(* The Web UI shows all of a history, or none if the input is foreign.     *)
LEMMA HistoryIsReadable ==
    ASSUME CodecInv, NEW w \in Workflows
    PROVE  LET ps == Shown(w)
               reply == Browse(ps)
           IN  IF ps # <<>> /\ ~Opens(ps[1])
               THEN reply.status = 500 /\ reply.payloads = <<>>
               ELSE /\ reply.status = 200
                    /\ reply.payloads = [i \in DOMAIN ps |-> Plain(ps[i].data)]
<1> DEFINE input == history[w].payload["input"]
           rest == Entry(w, "card") \o Entry(w, "receipt") \o Entry(w, "result")
           ps == Shown(w)
<1>1. rest \in Seq(Openable)
    <2>1. /\ Entry(w, "card") \in Seq(Openable)
          /\ Entry(w, "receipt") \in Seq(Openable)
          /\ Entry(w, "result") \in Seq(Openable)
        BY EntryOpens DEF Slots
    <2> QED
        BY <2>1
<1>2. ps = Entry(w, "input") \o rest
    <2>1. \A q \in Seq(Openable): q \in Seq(Payloads)
        BY DEF Openable
    <2>2. /\ Entry(w, "input") \in Seq(Payloads)
          /\ Entry(w, "card") \in Seq(Payloads)
          /\ Entry(w, "receipt") \in Seq(Payloads)
          /\ Entry(w, "result") \in Seq(Payloads)
        <3>1. ASSUME NEW s \in Slots PROVE Entry(w, s) \in Seq(Payloads)
            <4> DEFINE p == history[w].payload[s]
            <4>1. \/ Entry(w, s) \in Seq(Openable)
                  \/ p \in Payloads /\ Entry(w, s) = <<p>>
                BY EntryOpens
            <4>2. p \in Payloads => <<p>> \in Seq(Payloads)
                OBVIOUS
            <4> QED
                BY <2>1, <4>1, <4>2
        <3> QED
            BY <2>1, <3>1 DEF Slots
    <2> DEFINE a == Entry(w, "input")
               b == Entry(w, "card")
               c == Entry(w, "receipt")
               d == Entry(w, "result")
    <2>3. ps = ((a \o b) \o c) \o d /\ rest = (b \o c) \o d
        BY DEF Shown
    <2> HIDE DEF a, b, c, d, ps, rest
    <2>4. /\ a \in Seq(Payloads) /\ b \in Seq(Payloads)
          /\ c \in Seq(Payloads) /\ d \in Seq(Payloads)
        BY <2>2 DEF a, b, c, d
    <2>5. ((a \o b) \o c) \o d = a \o ((b \o c) \o d)
        BY <2>4, SMTT(30)
    <2>6. ps = a \o rest
        BY <2>3, <2>5
    <2> QED
        BY <2>6 DEF a
<1>3. CASE Entry(w, "input") \in Seq(Openable)
    <2>1. ps \in Seq(Openable)
        BY <1>1, <1>2, <1>3
    <2>2. ps \in Seq(Payloads) /\ \A i \in DOMAIN ps: ps[i].seals \in {<<>>, <<Key>>}
        BY <2>1 DEF Openable
    <2>3. ps # <<>> => Opens(ps[1])
        <3>1. ASSUME ps # <<>> PROVE ps[1].seals \in {<<>>, <<Key>>}
            BY <2>1, <3>1 DEF Openable
        <3> QED
            BY <3>1 DEF Opens, Marked
    <2> QED
        BY <2>2, <2>3, MixedBatchesOpen DEF Reply
<1>4. CASE input.seals = <<Foreign>> /\ input \in Payloads /\ Entry(w, "input") = <<input>>
    <2>1. rest \in Seq(Payloads)
        BY <1>1 DEF Openable
    <2>2. ps # <<>> /\ 1 \in DOMAIN ps /\ ps[1] = input
        BY <1>2, <1>4, <2>1
    <2>3. ~Opens(ps[1])
        BY <1>4, <2>2, SealsDistinct DEF Opens, Marked
    <2>4. Browse(ps) = Reply(500, <<>>)
        BY <1>4, <2>2, OneForeignSealRefusesAll
    <2> QED
        BY <2>2, <2>3, <2>4 DEF Reply
<1> QED
    BY <1>3, <1>4, EntryOpens DEF Slots

(* Whatever a participant started a workflow with and however far it is,   *)
(* the Web UI's request for its payloads is answered with all of them, in  *)
(* order, unless nobody here has the key of the input: then with none.     *)
THEOREM HistoriesAreShown == Spec => []HistoriesReadable
<1>1. CodecInv => HistoriesReadable
    BY HistoryIsReadable DEF HistoriesReadable
<1> QED
    BY <1>1, CodecInductive, PTL
=============================================================================
