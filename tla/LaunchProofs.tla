---------------------------- MODULE LaunchProofs ----------------------------
(***************************************************************************)
(* Proofs about Launch, for whatever integers a user types, whatever omes' *)
(* defaults are and whatever other clients send: the variables keep their  *)
(* types, the runner does what the page promises, always dispatches        *)
(* something, and no form within the page's limits is refused.             *)
(*                                                                         *)
(* The invariant remembers which configuration the command was made from;  *)
(* the rest is computation, through the four representations of a knob.    *)
(***************************************************************************)
EXTENDS Launch, SequenceTheorems, TLAPS

Numeric(cfg) ==
    /\ cfg.depth \in Int /\ cfg.example \in Int /\ cfg.rate \in Int
    /\ cfg.timers \in Int /\ cfg.duration \in Int
    /\ cfg.children \in Int /\ cfg.activities \in Int

MadeFrom ==
    /\ running =>
          \E cfg: Numeric(cfg) /\ Accepted(cfg) /\ command = Command(cfg)
    /\ running /\ launched # NoForm =>
          /\ Accepted(Config(launched))
          /\ command = Command(Config(launched))

Refused ==
    refused # NoForm => ~(Decodes(Config(refused)) /\ Accepted(Config(refused)))

LaunchInv == TypeOK /\ MadeFrom /\ Refused

-----------------------------------------------------------------------------
(* From the form to the command, in types.                                 *)
LEMMA NumberType ==
    ASSUME NEW x \in Entries
    PROVE  NumberOf(x) \in Int
BY DEF NumberOf, Entries

LEMMA ConfigType ==
    ASSUME NEW f \in Forms
    PROVE  Numeric(Config(f))
<1>1. /\ f.mode \in Modes /\ f.scenario \in Scenarios
      /\ f.example \in Int /\ f.rateExample \in Int
    BY DEF Forms, Examples
<1>2. /\ NumberOf(f.depth) \in Int /\ NumberOf(f.rate) \in Int
      /\ NumberOf(f.timers) \in Int /\ NumberOf(f.duration) \in Int
      /\ NumberOf(f.children) \in Int /\ NumberOf(f.activities) \in Int
    BY NumberType DEF Forms
<1> QED
    BY <1>1, <1>2 DEF Config, Numeric

(* What decodes fits.                                                      *)
LEMMA DecodedFit ==
    ASSUME NEW cfg, Decodes(cfg)
    PROVE  /\ cfg.example <= MaxInt
           /\ cfg.timers <= MaxInt /\ cfg.duration <= MaxInt
           /\ cfg.children <= MaxInt /\ cfg.activities <= MaxInt
BY MaxIntIsNatural DEF Decodes

LEMMA OptionType ==
    ASSUME NEW name \in Options, NEW n \in Int, n <= MaxInt
    PROVE  Option(name, n) \in SUBSET (Options \X (1..MaxInt))
BY MaxIntIsNatural DEF Option

LEMMA CommandType ==
    ASSUME NEW cfg, Numeric(cfg), Decodes(cfg), Accepted(cfg)
    PROVE  Command(cfg) \in Commands
<1>1. CASE cfg.mode = "steady" /\ cfg.example \in Examples /\ cfg.depth >= 1
    <2>1. cfg.depth \in Nat
        BY <1>1 DEF Numeric
    <2> QED
        BY <1>1, <2>1 DEF Command, NoCommand, Commands
<1>2. CASE cfg.mode = "rate" /\ cfg.rate > 0
    <2>1. cfg.rate \in Nat
        BY <1>2 DEF Numeric
    <2>2. CASE cfg.scenario \in {"none", "hello_world"} /\ cfg.example \in Examples
        <3>1. cfg.example \in 1..MaxInt
            BY <2>2, DecodedFit, MaxIntIsNatural DEF Examples
        <3>2. {<<"example", cfg.example>>} \in SUBSET (Options \X (1..MaxInt))
            BY <3>1 DEF Options
        <3> QED
            BY <1>2, <2>1, <2>2, <3>2 DEF Command, NoCommand, Commands
    <2>3. CASE cfg.scenario = "many_timers"
        <3>1. Option("concurrent-timers", cfg.timers)
                  \cup Option("timer-duration", cfg.duration)
                  \in SUBSET (Options \X (1..MaxInt))
            BY OptionType, DecodedFit DEF Numeric, Options
        <3> QED
            BY <1>2, <2>1, <2>3, <3>1 DEF Command, NoCommand, Commands
    <2>4. CASE cfg.scenario = "fan_out"
        <3>1. Option("children-per-workflow", cfg.children)
                  \cup Option("activities-per-workflow", cfg.activities)
                  \in SUBSET (Options \X (1..MaxInt))
            BY OptionType, DecodedFit DEF Numeric, Options
        <3> QED
            BY <1>2, <2>1, <2>4, <3>1 DEF Command, NoCommand, Commands
    <2> QED
        BY <1>2, <2>2, <2>3, <2>4 DEF Accepted
<1> QED
    BY <1>1, <1>2 DEF Accepted

-----------------------------------------------------------------------------
(* What the command dispatches.                                            *)
LEMMA ExamplesDo ==
    ASSUME NEW e \in Examples
    PROVE  Does(runnerExamples[e]) = Labels[e] /\ Does(helloWorldExamples[e]) = Labels[e]
<1>1. runnerExamples = helloWorldExamples
    BY DEF runnerExamples, helloWorldExamples
<1>2. Does(runnerExamples[1]) = Labels[1]
    BY DEF runnerExamples, Does, Labels
<1>3. Does(runnerExamples[2]) = Labels[2]
    BY DEF runnerExamples, Does, Labels
<1>4. Does(runnerExamples[3]) = Labels[3]
    <2> DEFINE w == runnerExamples[3]
    <2>1. w = [type |-> "DSLWorkflow", count |-> 0,
               steps |-> <<Step(TRUE, 0), Step(FALSE, 5)>>]
        BY DEF runnerExamples
    <2>2. /\ Len(w.steps) = 2
          /\ w.steps[1].sleep = 0 /\ w.steps[1].activity
          /\ w.steps[2].sleep = 5 /\ ~w.steps[2].activity
        BY <2>1 DEF Step
    <2>3. StepDoes(w, 1) = <<>> \o <<"activity">>
        BY <2>2 DEF StepDoes
    <2>4. StepDoes(w, 2) = <<"timer">> \o <<>>
        BY <2>2 DEF StepDoes
    <2> DEFINE S == {"activity", "timer"}
    <2>5. /\ <<"activity">> \in Seq(S) /\ <<"timer">> \in Seq(S)
          /\ <<"activity", "timer">> \in Seq(S)
        OBVIOUS
    <2>6. <<>> \o <<"activity">> = <<"activity">> /\ <<"timer">> \o <<>> = <<"timer">>
        BY <2>5, ConcatEmptySeq
    <2>7. <<"activity">> \o <<"timer">> = <<"activity", "timer">>
        <3> DEFINE c == <<"activity">> \o <<"timer">>
        <3>1. c \in Seq(S) /\ Len(c) = 2
              /\ c[1] = "activity" /\ c[2] = "timer"
            BY <2>5, ConcatProperties
        <3> HIDE DEF c
        <3>2. \A i \in 1..2: c[i] = <<"activity", "timer">>[i]
            BY <3>1
        <3>3. c = <<"activity", "timer">>
            BY <2>5, <3>1, <3>2, SeqEqual
        <3> QED
            BY <3>3 DEF c
    <2>8. Does(w) = StepDoes(w, 1) \o StepDoes(w, 2)
        BY <2>1 DEF Does
    <2>9. Labels[3] = <<"activity", "timer">>
        BY DEF Labels
    <2> HIDE DEF w
    <2>10. Does(w) = <<"activity", "timer">>
        BY <2>3, <2>4, <2>6, <2>7, <2>8
    <2> QED
        BY <2>9, <2>10 DEF w
<1> QED
    BY <1>1, <1>2, <1>3, <1>4 DEF Examples

LEMMA OptionValue ==
    ASSUME NEW O, NEW a, NEW m, NEW d,
           m > 0 => <<a, m>> \in O,
           \A o \in O: o[1] = a => o = <<a, m>> /\ m > 0
    PROVE  ValueOf(O, a, d) = IF m > 0 THEN m ELSE d
<1> DEFINE c == CHOOSE o \in O: o[1] = a
<1>1. CASE m > 0
    <2>1. c \in O /\ c[1] = a
        BY <1>1
    <2>2. c[2] = m
        BY <2>1
    <2> QED
        BY <1>1, <2>2 DEF ValueOf
<1>2. CASE ~(m > 0)
    BY <1>2 DEF ValueOf
<1> QED
    BY <1>1, <1>2

LEMMA OneOption ==
    ASSUME NEW a, NEW m, NEW d
    PROVE  ValueOf({<<a, m>>}, a, d) = m
<1> DEFINE c == CHOOSE o \in {<<a, m>>}: o[1] = a
<1>1. c \in {<<a, m>>} /\ \E o \in {<<a, m>>}: o[1] = a
    OBVIOUS
<1>2. c[2] = m
    BY <1>1
<1> QED
    BY <1>1, <1>2 DEF ValueOf

(* An accepted command dispatches something, of a kind there is.           *)
LEMMA CommandDispatches ==
    ASSUME NEW cfg, Numeric(cfg), Accepted(cfg)
    PROVE  /\ Command(cfg).bin # "none"
           /\ Load(Command(cfg)).amount > 0
           /\ Load(Command(cfg)).does \in {Labels[e]: e \in Examples}
                                              \cup {<<"timers">>, <<"fan-out">>}
<1> DEFINE cmd == Command(cfg)
<1>1. CASE cfg.mode = "steady" /\ cfg.example \in Examples /\ cfg.depth >= 1
    <2>1. /\ cmd.bin = "runner" /\ cmd.load = cfg.depth
          /\ cmd.scenario = "none"
          /\ cmd.input[1] = runnerExamples[cfg.example]
        BY <1>1 DEF Command, NoCommand
    <2>2. Does(cmd.input[1]) = Labels[cfg.example]
        BY <1>1, <2>1, ExamplesDo
    <2> HIDE DEF cmd
    <2>3. /\ Load(cmd).amount = cmd.load
          /\ Load(cmd).does = Does(cmd.input[1])
        BY <2>1 DEF Load
    <2> QED
        BY <1>1, <2>1, <2>2, <2>3 DEF cmd, Numeric
<1>2. CASE cfg.mode = "rate" /\ cfg.rate > 0
    <2>1. cmd.bin = "omes" /\ cmd.load = cfg.rate
        BY <1>2 DEF Command, NoCommand, Accepted
    <2>2. CASE cfg.scenario \in {"none", "hello_world"} /\ cfg.example \in Examples
        <3>1. /\ cmd.scenario = "dispatch_hello_world"
              /\ cmd.options = {<<"example", cfg.example>>}
            BY <1>2, <2>2 DEF Command, NoCommand
        <3> HIDE DEF cmd
        <3>2. ValueOf({<<"example", cfg.example>>}, "example", 2) = cfg.example
            BY OneOption
        <3>3. Dispatch(cmd.options) = Labels[cfg.example]
            BY <2>2, <3>1, <3>2, ExamplesDo DEF Dispatch
        <3>4. Load(cmd).amount = cmd.load /\ Load(cmd).does = Dispatch(cmd.options)
            BY <2>1, <3>1 DEF Load
        <3> QED
            BY <1>2, <2>1, <2>2, <3>3, <3>4 DEF cmd
    <2>3. CASE cfg.scenario = "many_timers"
        <3>1. cmd.scenario = "workflow_with_many_timers"
            BY <1>2, <2>3 DEF Command, NoCommand
        <3> HIDE DEF cmd
        <3>2. Load(cmd).amount = cmd.load /\ Load(cmd).does = <<"timers">>
            BY <2>1, <3>1 DEF Load
        <3> QED
            BY <1>2, <2>1, <3>2 DEF cmd
    <2>4. CASE cfg.scenario = "fan_out"
        <3>1. cmd.scenario = "workflow_with_many_actions"
            BY <1>2, <2>4 DEF Command, NoCommand
        <3> HIDE DEF cmd
        <3>2. Load(cmd).amount = cmd.load /\ Load(cmd).does = <<"fan-out">>
            BY <2>1, <3>1 DEF Load
        <3> QED
            BY <1>2, <2>1, <3>2 DEF cmd
    <2> QED
        BY <1>2, <2>2, <2>3, <2>4 DEF Accepted
<1> QED
    BY <1>1, <1>2 DEF Accepted

(* No form within the limits of the page is turned down.                   *)
LEMMA FormAccepted ==
    ASSUME NEW f \in Forms, WithinLimits(f)
    PROVE  Accepted(Config(f))
<1>1. /\ f.mode \in Modes /\ f.scenario \in Scenarios
      /\ f.example \in Examples /\ f.rateExample \in Examples
      /\ f.depth \in Entries /\ f.rate \in Entries
    BY DEF Forms
<1>2. CASE f.mode = "steady"
    <2>1. NumberOf(f.depth) >= 1
        BY <1>2 DEF WithinLimits, NumberOf
    <2>2. /\ Config(f).mode = "steady" /\ Config(f).example = f.example
          /\ Config(f).depth = NumberOf(f.depth)
        BY <1>2 DEF Config
    <2> QED
        BY <1>1, <2>1, <2>2 DEF Accepted
<1>3. CASE f.mode = "rate"
    <2>1. f.rate \in Int /\ NumberOf(f.rate) = f.rate /\ f.rate >= 1
        BY <1>1, <1>3 DEF WithinLimits, NumberOf, Entries
    <2>2. /\ Config(f).mode = "rate" /\ Config(f).scenario = f.scenario
          /\ Config(f).rate = f.rate
          /\ f.scenario = "hello_world" => Config(f).example = f.rateExample
        BY <1>3, <2>1 DEF Config
    <2> QED
        BY <1>1, <2>1, <2>2 DEF Accepted, Scenarios
<1> QED
    BY <1>1, <1>2, <1>3 DEF Modes

(* What the command of an accepted form dispatches is what the page says.  *)
LEMMA FormHonoured ==
    ASSUME NEW f \in Forms, Accepted(Config(f))
    PROVE  Load(Command(Config(f))) = Promised(f)
<1> DEFINE cfg == Config(f)
<1> DEFINE cmd == Command(cfg)
<1>1. /\ f.mode \in Modes /\ f.scenario \in Scenarios
      /\ f.example \in Examples /\ f.rateExample \in Examples
      /\ f.depth \in Entries /\ f.rate \in Entries
      /\ f.timers \in Entries /\ f.duration \in Entries
      /\ f.children \in Entries /\ f.activities \in Entries
    BY DEF Forms
<1>2. CASE f.mode = "steady"
    <2>1. /\ cfg.mode = "steady" /\ cfg.example = f.example
          /\ cfg.depth = NumberOf(f.depth) /\ cfg.depth >= 1
        BY <1>2 DEF Config, Accepted
    <2>2. cfg.depth = f.depth
        BY <2>1 DEF NumberOf
    <2>3. /\ cmd.bin = "runner" /\ cmd.load = cfg.depth /\ cmd.scenario = "none"
          /\ cmd.input[1] = runnerExamples[cfg.example] /\ cmd.ownWorker = FALSE
        BY <2>1 DEF Command, NoCommand
    <2>4. Does(cmd.input[1]) = Labels[f.example]
        BY <1>1, <2>1, <2>3, ExamplesDo
    <2> HIDE DEF cmd, cfg
    <2>5. Load(cmd) = [of |-> "depth", amount |-> f.depth,
                       does |-> Labels[f.example], knobs |-> <<>>,
                       ownWorker |-> FALSE]
        BY <2>2, <2>3, <2>4 DEF Load
    <2> QED
        BY <1>2, <2>5 DEF Promised, cmd, cfg
<1>3. CASE f.mode = "rate"
    <2>1. /\ cfg.mode = "rate" /\ cfg.scenario = f.scenario
          /\ cfg.rate = NumberOf(f.rate) /\ cfg.rate > 0
        BY <1>3 DEF Config, Accepted
    <2>2. cfg.rate = f.rate
        BY <2>1 DEF NumberOf
    <2>3. cmd.bin = "omes" /\ cmd.load = f.rate
        BY <1>1, <2>1, <2>2 DEF Command, NoCommand, Scenarios
    <2>4. CASE f.scenario = "hello_world"
        <3>1. cfg.example = f.rateExample
            BY <1>3, <2>4 DEF Config
        <3>2. /\ cmd.scenario = "dispatch_hello_world"
              /\ cmd.options = {<<"example", f.rateExample>>}
              /\ cmd.ownWorker = FALSE
            BY <2>1, <2>4, <3>1 DEF Command, NoCommand
        <3> HIDE DEF cmd, cfg
        <3>3. ValueOf({<<"example", f.rateExample>>}, "example", 2) = f.rateExample
            BY OneOption
        <3>4. Dispatch(cmd.options) = Labels[f.rateExample]
            BY <1>1, <3>2, <3>3, ExamplesDo DEF Dispatch
        <3>5. Load(cmd) = [of |-> "rate", amount |-> f.rate,
                           does |-> Labels[f.rateExample], knobs |-> <<>>,
                           ownWorker |-> FALSE]
            BY <2>3, <3>2, <3>4 DEF Load
        <3> QED
            BY <1>3, <2>4, <3>5 DEF Promised, cmd, cfg
    <2>5. CASE f.scenario = "many_timers"
        <3>1. cfg.timers = NumberOf(f.timers) /\ cfg.duration = NumberOf(f.duration)
            BY <1>3, <2>5 DEF Config
        <3>2. /\ cmd.scenario = "workflow_with_many_timers"
              /\ cmd.options = Option("concurrent-timers", cfg.timers)
                                   \cup Option("timer-duration", cfg.duration)
              /\ cmd.ownWorker = TRUE
            BY <2>1, <2>5 DEF Command, NoCommand
        <3> HIDE DEF cmd, cfg
        <3>3. cfg.timers \in Int /\ cfg.duration \in Int
            BY <1>1, <3>1, NumberType
        <3>4. /\ ValueOf(cmd.options, "concurrent-timers", OmesDefault)
                     = IF cfg.timers > 0 THEN cfg.timers ELSE OmesDefault
              /\ ValueOf(cmd.options, "timer-duration", OmesDefault)
                     = IF cfg.duration > 0 THEN cfg.duration ELSE OmesDefault
            <4> DEFINE O == Option("concurrent-timers", cfg.timers)
                                \cup Option("timer-duration", cfg.duration)
            <4>1. /\ cfg.timers > 0 => <<"concurrent-timers", cfg.timers>> \in O
                  /\ cfg.duration > 0 => <<"timer-duration", cfg.duration>> \in O
                BY DEF Option
            <4>2. \A o \in O: o[1] = "concurrent-timers" => o = <<"concurrent-timers", cfg.timers>> /\ cfg.timers > 0
                BY DEF Option
            <4>3. \A o \in O: o[1] = "timer-duration" => o = <<"timer-duration", cfg.duration>> /\ cfg.duration > 0
                BY DEF Option
            <4> HIDE DEF O
            <4>4. ValueOf(O, "concurrent-timers", OmesDefault)
                      = IF cfg.timers > 0 THEN cfg.timers ELSE OmesDefault
                BY <4>1, <4>2, OptionValue
            <4>5. ValueOf(O, "timer-duration", OmesDefault)
                      = IF cfg.duration > 0 THEN cfg.duration ELSE OmesDefault
                BY <4>1, <4>3, OptionValue
            <4> QED
                BY <3>2, <4>4, <4>5 DEF O
        <3>5. /\ (IF cfg.timers > 0 THEN cfg.timers ELSE OmesDefault) = OrDefault(f.timers)
              /\ (IF cfg.duration > 0 THEN cfg.duration ELSE OmesDefault)
                     = OrDefault(f.duration)
            BY <1>1, <3>1 DEF OrDefault, NumberOf, Entries
        <3>6. Load(cmd) = [of |-> "rate", amount |-> f.rate, does |-> <<"timers">>,
                           knobs |-> <<OrDefault(f.timers), OrDefault(f.duration)>>,
                           ownWorker |-> TRUE]
            BY <2>3, <3>2, <3>4, <3>5 DEF Load
        <3> QED
            BY <1>3, <2>5, <3>6 DEF Promised, cmd, cfg
    <2>6. CASE f.scenario = "fan_out"
        <3>1. /\ cfg.children = NumberOf(f.children)
              /\ cfg.activities = NumberOf(f.activities)
            BY <1>3, <2>6 DEF Config
        <3>2. /\ cmd.scenario = "workflow_with_many_actions"
              /\ cmd.options = Option("children-per-workflow", cfg.children)
                                   \cup Option("activities-per-workflow", cfg.activities)
              /\ cmd.ownWorker = TRUE
            BY <2>1, <2>6 DEF Command, NoCommand
        <3> HIDE DEF cmd, cfg
        <3>3. cfg.children \in Int /\ cfg.activities \in Int
            BY <1>1, <3>1, NumberType
        <3>4. /\ ValueOf(cmd.options, "children-per-workflow", OmesDefault)
                     = IF cfg.children > 0 THEN cfg.children ELSE OmesDefault
              /\ ValueOf(cmd.options, "activities-per-workflow", OmesDefault)
                     = IF cfg.activities > 0 THEN cfg.activities ELSE OmesDefault
            <4> DEFINE O == Option("children-per-workflow", cfg.children)
                                \cup Option("activities-per-workflow", cfg.activities)
            <4>1. /\ cfg.children > 0 => <<"children-per-workflow", cfg.children>> \in O
                  /\ cfg.activities > 0 => <<"activities-per-workflow", cfg.activities>> \in O
                BY DEF Option
            <4>2. \A o \in O: o[1] = "children-per-workflow" => o = <<"children-per-workflow", cfg.children>> /\ cfg.children > 0
                BY DEF Option
            <4>3. \A o \in O: o[1] = "activities-per-workflow" => o = <<"activities-per-workflow", cfg.activities>> /\ cfg.activities > 0
                BY DEF Option
            <4> HIDE DEF O
            <4>4. ValueOf(O, "children-per-workflow", OmesDefault)
                      = IF cfg.children > 0 THEN cfg.children ELSE OmesDefault
                BY <4>1, <4>2, OptionValue
            <4>5. ValueOf(O, "activities-per-workflow", OmesDefault)
                      = IF cfg.activities > 0 THEN cfg.activities ELSE OmesDefault
                BY <4>1, <4>3, OptionValue
            <4> QED
                BY <3>2, <4>4, <4>5 DEF O
        <3>5. /\ (IF cfg.children > 0 THEN cfg.children ELSE OmesDefault)
                     = OrDefault(f.children)
              /\ (IF cfg.activities > 0 THEN cfg.activities ELSE OmesDefault)
                     = OrDefault(f.activities)
            BY <1>1, <3>1 DEF OrDefault, NumberOf, Entries
        <3>6. Load(cmd) = [of |-> "rate", amount |-> f.rate, does |-> <<"fan-out">>,
                           knobs |-> <<OrDefault(f.children), OrDefault(f.activities)>>,
                           ownWorker |-> TRUE]
            BY <2>3, <3>2, <3>4, <3>5 DEF Load
        <3> QED
            BY <1>3, <2>6, <3>6 DEF Promised, cmd, cfg
    <2> QED
        BY <1>1, <2>4, <2>5, <2>6 DEF Scenarios
<1> QED
    BY <1>1, <1>2, <1>3 DEF Modes

-----------------------------------------------------------------------------
(* The invariant.                                                          *)
LEMMA LaunchInit == Init => LaunchInv
<1> SUFFICES ASSUME Init PROVE LaunchInv
    OBVIOUS
<1>1. NewForm \in Forms
    BY DEF NewForm, Forms, Modes, Scenarios, Examples, Entries
<1>2. NoCommand \in Commands
    BY DEF NoCommand, Commands
<1> QED
    BY <1>1, <1>2, MaxEditsIsNat DEF Init, LaunchInv, TypeOK, MadeFrom, Refused

(* A knob that is turned keeps the form a form.                            *)
LEMMA TurnKeepsForms ==
    ASSUME NEW f \in Forms, NEW knob \in Enabled(f), NEW x \in Settings(knob)
    PROVE  [f EXCEPT ![knob] = x] \in Forms
<1>1. Typed \cup {Blank} \subseteq Entries
    BY TypedAreIntegers DEF Entries
<1>2. CASE knob = "mode"
    BY <1>2 DEF Settings, Forms
<1>3. CASE knob = "scenario"
    BY <1>3 DEF Settings, Forms
<1>4. CASE knob \in {"example", "rateExample"}
    <2>1. x \in Examples
        BY <1>4 DEF Settings
    <2> QED
        BY <1>4, <2>1 DEF Forms
<1>5. CASE knob \in {"depth", "rate", "timers", "duration", "children", "activities"}
    <2>1. x \in Entries
        BY <1>1, <1>5 DEF Settings
    <2> QED
        BY <1>5, <2>1 DEF Forms
<1>6. f.mode \in Modes /\ f.scenario \in Scenarios
    BY DEF Forms
<1>7. knob \in {"mode", "scenario", "example", "rateExample", "depth", "rate",
                "timers", "duration", "children", "activities"}
    BY <1>6 DEF Enabled, Modes, Scenarios
<1> QED
    BY <1>2, <1>3, <1>4, <1>5, <1>7

(* A start, by the page or past it.                                        *)
LEMMA StartKeepsInv ==
    ASSUME LaunchInv, NEW cfg, Numeric(cfg), NEW f,
           StartRunner(cfg, f),
           f = NoForm \/ (f \in Forms /\ cfg = Config(f))
    PROVE  LaunchInv'
<1>1. CASE Decodes(cfg) /\ Accepted(cfg)
    <2>1. /\ running' = TRUE /\ command' = Command(cfg) /\ launched' = f
          /\ UNCHANGED <<form, edits, refused>>
        BY <1>1 DEF StartRunner
    <2>2. TypeOK'
        BY <1>1, <2>1, CommandType DEF LaunchInv, TypeOK
    <2>3. MadeFrom'
        <3>1. running' => \E c: Numeric(c) /\ Accepted(c) /\ command' = Command(c)
            BY <1>1, <2>1
        <3>2. launched' # NoForm => /\ Accepted(Config(launched'))
                                    /\ command' = Command(Config(launched'))
            BY <1>1, <2>1
        <3> QED
            BY <3>1, <3>2 DEF MadeFrom
    <2>4. Refused'
        BY <2>1 DEF LaunchInv, Refused
    <2> QED
        BY <2>2, <2>3, <2>4 DEF LaunchInv
<1>2. CASE ~(Decodes(cfg) /\ Accepted(cfg))
    <2>1. refused' = f /\ UNCHANGED <<form, edits, running, command, launched>>
        BY <1>2 DEF StartRunner
    <2>2. TypeOK'
        BY <2>1 DEF LaunchInv, TypeOK
    <2>3. MadeFrom'
        BY <2>1 DEF LaunchInv, MadeFrom
    <2>4. Refused'
        BY <1>2, <2>1 DEF LaunchInv, Refused
    <2> QED
        BY <2>2, <2>3, <2>4 DEF LaunchInv
<1> QED
    BY <1>1, <1>2

LEMMA LaunchStep == LaunchInv /\ [Next]_vars => LaunchInv'
<1> SUFFICES ASSUME LaunchInv, [Next]_vars
             PROVE  LaunchInv'
    OBVIOUS
<1>1. CASE Turn
    <2>1. /\ edits > 0 /\ edits' = edits - 1
          /\ UNCHANGED <<running, command, launched, refused>>
        BY <1>1 DEF Turn
    <2>2. form' \in Forms
        <3>1. PICK knob \in Enabled(form): \E x \in Settings(knob):
                      form' = [form EXCEPT ![knob] = x]
            BY <1>1 DEF Turn
        <3> QED
            BY <3>1, TurnKeepsForms DEF LaunchInv, TypeOK
    <2>3. TypeOK'
        BY <2>1, <2>2 DEF LaunchInv, TypeOK
    <2> QED
        BY <2>1, <2>3 DEF LaunchInv, MadeFrom, Refused
<1>2. CASE SwitchOn
    <2>1. form \in Forms
        BY DEF LaunchInv, TypeOK
    <2>2. Numeric(Config(form)) /\ StartRunner(Config(form), form)
        BY <1>2, <2>1, ConfigType DEF SwitchOn
    <2> QED
        BY <2>1, <2>2, StartKeepsInv
<1>3. CASE ApiStart
    <2>1. PICK cfg \in ApiConfigs: StartRunner(cfg, NoForm)
        BY <1>3 DEF ApiStart
    <2>2. Numeric(cfg)
        BY ApiConfigsTyped DEF Numeric
    <2> QED
        BY <2>1, <2>2, StartKeepsInv
<1>4. CASE StopRunner
    BY <1>4 DEF StopRunner, LaunchInv, TypeOK, MadeFrom, Refused
<1>5. CASE UNCHANGED vars
    BY <1>5 DEF vars, LaunchInv, TypeOK, MadeFrom, Refused
<1> QED
    BY <1>1, <1>2, <1>3, <1>4, <1>5 DEF Next

(* LaunchInv holds in every reachable state.                               *)
THEOREM LaunchInvariant == Spec => []LaunchInv
<1>1. Init => LaunchInv
    BY LaunchInit
<1>2. LaunchInv /\ [Next]_vars => LaunchInv'
    BY LaunchStep
<1> QED
    BY <1>1, <1>2, PTL DEF Spec

-----------------------------------------------------------------------------
(* The properties.                                                         *)

(* The variables have their types, and no --option of zero or less is      *)
(* passed to omes.                                                         *)
THEOREM LaunchTypes == Spec => []TypeOK
<1>1. LaunchInv => TypeOK
    BY DEF LaunchInv
<1> QED
    BY <1>1, LaunchInvariant, PTL

(* The runner dispatches what the form it was last started with promises,  *)
(* for every number a user can type into every knob.                       *)
THEOREM FormsAreHonoured == Spec => []KnobsHonoured
<1>1. LaunchInv => KnobsHonoured
    BY FormHonoured DEF LaunchInv, TypeOK, MadeFrom, KnobsHonoured
<1> QED
    BY <1>1, LaunchInvariant, PTL

(* No start, by any client, leaves a runner that dispatches nothing.       *)
THEOREM EveryRunnerDispatches == Spec => []Dispatches
<1>1. ASSUME LaunchInv PROVE Dispatches
    <2> SUFFICES ASSUME running
                 PROVE  /\ command.bin # "none"
                        /\ Load(command).amount > 0
                        /\ Load(command).does \in {Labels[e]: e \in Examples}
                                                       \cup {<<"timers">>, <<"fan-out">>}
        BY DEF Dispatches
    <2>1. PICK cfg: Numeric(cfg) /\ Accepted(cfg) /\ command = Command(cfg)
        BY <1>1 DEF LaunchInv, MadeFrom
    <2> QED
        BY <2>1, CommandDispatches
<1> QED
    BY <1>1, LaunchInvariant, PTL

(* A form within the limits the page sets is never refused.                *)
THEOREM PageFormsAccepted == Spec => []PageAccepted
<1>1. LaunchInv => PageAccepted
    BY FormAccepted DEF LaunchInv, TypeOK, Refused, PageAccepted
<1> QED
    BY <1>1, LaunchInvariant, PTL
=============================================================================
