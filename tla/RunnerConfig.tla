---------------------------- MODULE RunnerConfig ----------------------------
(***************************************************************************)
(* How the runner's knobs become load: the form of the control panel       *)
(* (app.js, runnerConfig), its JSON body and what the server decodes       *)
(* (handlers.go, startRunner), the command of the runner's container       *)
(* (manager.go, runnerDeployment and rateModeArgs), and what that command  *)
(* dispatches (benchmark-workers' runner, or omes with the repository's    *)
(* scenario dispatch_hello_world.go).                                      *)
(*                                                                         *)
(* A number passes through four representations, in each of which some     *)
(* value stands for "not given". Rates are in tenths per second.           *)
(***************************************************************************)
EXTENDS Integers, Sequences

CONSTANTS
    Blank,        \* a number field with nothing in it
    Typed,        \* what else a user types into one
    OmesDefault,  \* what omes does without an --option, whatever that is
    MaxInt        \* the largest of Go's ints

ASSUME TypedAreIntegers == Typed \subseteq Int

ASSUME BlankIsNoNumber == Blank \notin Int

ASSUME DefaultIsNatural == OmesDefault \in Nat

ASSUME MaxIntIsNatural == MaxInt \in Nat

-----------------------------------------------------------------------------
(* The form.                                                               *)

Entries == Int \cup {Blank}

Modes == {"steady", "rate"}

Scenarios == {"hello_world", "many_timers", "fan_out"}

Examples == 1..3

Forms ==
    [mode: Modes, scenario: Scenarios, example: Examples, rateExample: Examples,
     depth: Entries, rate: Entries, timers: Entries, duration: Entries,
     children: Entries, activities: Entries]

(* index.html as it is loaded.                                             *)
NewForm ==
    [mode |-> "steady", scenario |-> "hello_world", example |-> 2,
     rateExample |-> 2, depth |-> 10, rate |-> 50, timers |-> 30,
     duration |-> 10, children |-> 30, activities |-> 30]

(* updateRunnerControls: the knobs that are neither hidden nor disabled    *)
(* while the runner is stopped.                                            *)
Enabled(f) ==
    {"mode"} \cup
    IF f.mode = "steady" THEN {"depth", "example"}
    ELSE {"rate", "scenario"} \cup
         CASE f.scenario = "hello_world" -> {"rateExample"}
           [] f.scenario = "many_timers" -> {"timers", "duration"}
           [] f.scenario = "fan_out"     -> {"children", "activities"}

Settings(knob) ==
    CASE knob = "mode"     -> Modes
      [] knob = "scenario" -> Scenarios
      [] knob \in {"example", "rateExample"} -> Examples
      [] OTHER -> Typed \cup {Blank}

-----------------------------------------------------------------------------
(* The body, and the k8s.RunnerConfig it decodes to. parseInt of a blank   *)
(* field is NaN, which `|| 0` makes 0 and JSON makes null; a field that is *)
(* null or missing stays zero, a string ("none") empty. The whole body is  *)
(* refused if a field that is an int in Go is beyond Go's ints; a rate is  *)
(* a float64.                                                              *)

NumberOf(x) == IF x = Blank THEN 0 ELSE x

Config(f) ==
    LET steady == f.mode = "steady"
        given(scenario, n) == IF ~steady /\ f.scenario = scenario THEN n ELSE 0
    IN  [mode |-> f.mode,
         scenario |-> IF steady THEN "none" ELSE f.scenario,
         depth |-> IF steady THEN NumberOf(f.depth) ELSE 0,
         example |-> IF steady THEN f.example ELSE given("hello_world", f.rateExample),
         rate |-> IF steady THEN 0 ELSE NumberOf(f.rate),
         timers |-> given("many_timers", NumberOf(f.timers)),
         duration |-> given("many_timers", NumberOf(f.duration)),
         children |-> given("fan_out", NumberOf(f.children)),
         activities |-> given("fan_out", NumberOf(f.activities))]

Decodes(cfg) ==
    \A n \in {cfg.depth, cfg.example, cfg.timers, cfg.duration, cfg.children,
              cfg.activities}: n \in (-MaxInt - 1) .. MaxInt

-----------------------------------------------------------------------------
(* The example workflows, as the two tables give them. A DSLWorkflow step  *)
(* sleeps before its activity; ExecuteActivityWorkflow runs one activity   *)
(* Count times.                                                            *)

Step(activity, seconds) == [activity |-> activity, sleep |-> seconds]

runnerExamples ==
    << [type |-> "ExecuteActivityWorkflow", count |-> 0, steps |-> <<>>],
       [type |-> "ExecuteActivityWorkflow", count |-> 1, steps |-> <<>>],
       [type |-> "DSLWorkflow", count |-> 0,
        steps |-> <<Step(TRUE, 0), Step(FALSE, 5)>>] >>

(* Mutant: the second table lists the DSLWorkflow before the activity.     *)
helloWorldExamplesReordered ==
    <<runnerExamples[1], runnerExamples[3], runnerExamples[2]>>

helloWorldExamples ==
    << [type |-> "ExecuteActivityWorkflow", count |-> 0, steps |-> <<>>],
       [type |-> "ExecuteActivityWorkflow", count |-> 1, steps |-> <<>>],
       [type |-> "DSLWorkflow", count |-> 0,
        steps |-> <<Step(TRUE, 0), Step(FALSE, 5)>>] >>

(* What a worker does for a workflow of that type and input, of no more    *)
(* than two steps.                                                         *)
StepDoes(w, i) ==
    IF i > Len(w.steps) THEN <<>>
    ELSE (IF w.steps[i].sleep > 0 THEN <<"timer">> ELSE <<>>)
             \o (IF w.steps[i].activity THEN <<"activity">> ELSE <<>>)

Does(w) ==
    IF w.type = "ExecuteActivityWorkflow"
    THEN [i \in 1..w.count |-> "activity"]
    ELSE StepDoes(w, 1) \o StepDoes(w, 2)

-----------------------------------------------------------------------------
(* runnerDeployment and rateModeArgs.                                      *)

(* Mutant: only a negative rate is refused.                                *)
AcceptedAtRest(cfg) ==
    \/ cfg.mode = "steady" /\ cfg.example \in Examples /\ cfg.depth >= 1
    \/ /\ cfg.mode = "rate"
       /\ cfg.rate >= 0
       /\ \/ cfg.scenario \in {"none", "hello_world"} /\ cfg.example \in Examples
          \/ cfg.scenario \in {"many_timers", "fan_out"}

(* Mutant: a queue of one is refused.                                      *)
AcceptedStrictly(cfg) ==
    \/ cfg.mode = "steady" /\ cfg.example \in Examples /\ cfg.depth > 1
    \/ /\ cfg.mode = "rate"
       /\ cfg.rate > 0
       /\ \/ cfg.scenario \in {"none", "hello_world"} /\ cfg.example \in Examples
          \/ cfg.scenario \in {"many_timers", "fan_out"}

Accepted(cfg) ==
    \/ cfg.mode = "steady" /\ cfg.example \in Examples /\ cfg.depth >= 1
    \/ /\ cfg.mode = "rate"
       /\ cfg.rate > 0
       /\ \/ cfg.scenario \in {"none", "hello_world"} /\ cfg.example \in Examples
          \/ cfg.scenario \in {"many_timers", "fan_out"}

(* Mutant: an --option is passed whatever its value.                       *)
OptionAlways(name, n) == {<<name, n>>}

(* An --option that is passed only if it is positive.                      *)
Option(name, n) == IF n > 0 THEN {<<name, n>>} ELSE {}

Options ==
    {"example", "concurrent-timers", "timer-duration", "children-per-workflow",
     "activities-per-workflow"}

NoCommand == [bin |-> "none", load |-> 0, input |-> <<>>, scenario |-> "none",
              ownWorker |-> FALSE, options |-> {}]

Command(cfg) ==
    IF cfg.mode = "steady"
    THEN [NoCommand EXCEPT !.bin = "runner", !.load = cfg.depth,
                           !.input = <<runnerExamples[cfg.example]>>]
    ELSE LET omes == [NoCommand EXCEPT !.bin = "omes", !.load = cfg.rate]
         IN  CASE cfg.scenario \in {"none", "hello_world"} ->
                    [omes EXCEPT !.scenario = "dispatch_hello_world",
                                 !.options = {<<"example", cfg.example>>}]
               [] cfg.scenario = "many_timers" ->
                    [omes EXCEPT !.scenario = "workflow_with_many_timers",
                                 !.ownWorker = TRUE,
                                 !.options =
                                     Option("concurrent-timers", cfg.timers) \cup
                                     Option("timer-duration", cfg.duration)]
               [] cfg.scenario = "fan_out" ->
                    [omes EXCEPT !.scenario = "workflow_with_many_actions",
                                 !.ownWorker = TRUE,
                                 !.options =
                                     Option("children-per-workflow", cfg.children) \cup
                                     Option("activities-per-workflow", cfg.activities)]

-----------------------------------------------------------------------------
(* What the command dispatches: how much, of which workflow, with which    *)
(* two knobs, and whether it needs the Worker.                             *)

ValueOf(options, name, default) ==
    IF \E o \in options: o[1] = name
    THEN (CHOOSE o \in options: o[1] = name)[2] ELSE default

Dispatch(options) == Does(helloWorldExamples[ValueOf(options, "example", 2)])

Load(cmd) ==
    LET knob(name) == ValueOf(cmd.options, name, OmesDefault)
        load(of, does, knobs) ==
            [of |-> of, amount |-> cmd.load, does |-> does, knobs |-> knobs,
             ownWorker |-> cmd.ownWorker]
    IN  CASE cmd.bin = "runner" -> load("depth", Does(cmd.input[1]), <<>>)
          [] cmd.scenario = "dispatch_hello_world" ->
                load("rate", Dispatch(cmd.options), <<>>)
          [] cmd.scenario = "workflow_with_many_timers" ->
                load("rate", <<"timers">>,
                     <<knob("concurrent-timers"), knob("timer-duration")>>)
          [] cmd.scenario = "workflow_with_many_actions" ->
                load("rate", <<"fan-out">>,
                     <<knob("children-per-workflow"), knob("activities-per-workflow")>>)

-----------------------------------------------------------------------------
(* The reference: what the page promises, knob by knob, in its own words.  *)

(* "1: Hello world", "2: Hello world via an activity", "3: Hello world via *)
(* an activity, then sleep 5s".                                            *)
Labels == << <<>>, <<"activity">>, <<"activity", "timer">> >>

OrDefault(x) == IF x # Blank /\ x > 0 THEN x ELSE OmesDefault

Promised(f) ==
    CASE f.mode = "steady" ->
            [of |-> "depth", amount |-> f.depth, does |-> Labels[f.example],
             knobs |-> <<>>, ownWorker |-> FALSE]
      [] f.mode = "rate" /\ f.scenario = "hello_world" ->
            [of |-> "rate", amount |-> f.rate, does |-> Labels[f.rateExample],
             knobs |-> <<>>, ownWorker |-> FALSE]
      [] f.mode = "rate" /\ f.scenario = "many_timers" ->
            [of |-> "rate", amount |-> f.rate, does |-> <<"timers">>,
             knobs |-> <<OrDefault(f.timers), OrDefault(f.duration)>>,
             ownWorker |-> TRUE]
      [] f.mode = "rate" /\ f.scenario = "fan_out" ->
            [of |-> "rate", amount |-> f.rate, does |-> <<"fan-out">>,
             knobs |-> <<OrDefault(f.children), OrDefault(f.activities)>>,
             ownWorker |-> TRUE]

(* The limits index.html sets on the two numbers that have no default: a   *)
(* depth of at least 1, a rate of at least 0.1.                            *)
WithinLimits(f) ==
    /\ f.mode = "steady" => f.depth # Blank /\ f.depth >= 1
    /\ f.mode = "rate" => f.rate # Blank /\ f.rate >= 1
=============================================================================
