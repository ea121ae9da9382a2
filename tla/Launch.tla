------------------------------- MODULE Launch -------------------------------
(***************************************************************************)
(* A runner that is reconfigured: users of the control panel turn knobs    *)
(* and start and stop it, other clients of the API send configurations of  *)
(* their own, and each accepted start replaces the command of the runner's *)
(* Deployment. How a configuration becomes a command is RunnerConfig.      *)
(***************************************************************************)
EXTENDS RunnerConfig

CONSTANTS
    ApiConfigs,  \* what clients other than the page send
    NoForm,      \* no form was sent
    MaxEdits     \* bound on the knobs a user turns

ASSUME MaxEditsIsNat == MaxEdits \in Nat

ASSUME ApiConfigsTyped ==
    ApiConfigs \subseteq [mode: STRING, scenario: STRING,
                          depth: Int, example: Int, rate: Int, timers: Int,
                          duration: Int, children: Int, activities: Int]

ASSUME NoFormIsNull == NoForm \notin Forms

VARIABLES
    form,      \* the knobs of the page
    edits,     \* how many more the user turns
    running,   \* the Deployment wants a replica
    command,   \* the command of its container
    launched,  \* (history) the form it was last started with, or NoForm
    refused    \* (history) the last form a start of which was refused

vars == <<form, edits, running, command, launched, refused>>

Init ==
    /\ form = NewForm
    /\ edits = MaxEdits
    /\ running = FALSE
    /\ command = NoCommand
    /\ launched = NoForm
    /\ refused = NoForm

(* The user turns a knob that is not disabled.                             *)
Turn ==
    /\ edits > 0
    /\ edits' = edits - 1
    /\ \E knob \in Enabled(form): \E x \in Settings(knob):
          form' = [form EXCEPT ![knob] = x]
    /\ UNCHANGED <<running, command, launched, refused>>

(* startRunner decodes, and StartRunner replaces the whole Spec, or        *)
(* nothing.                                                                *)
StartRunner(cfg, f) ==
    /\ IF Decodes(cfg) /\ Accepted(cfg)
       THEN /\ running' = TRUE
            /\ command' = Command(cfg)
            /\ launched' = f
            /\ UNCHANGED refused
       ELSE refused' = f /\ UNCHANGED <<running, command, launched>>
    /\ UNCHANGED <<form, edits>>

SwitchOn == StartRunner(Config(form), form)

ApiStart == \E cfg \in ApiConfigs: StartRunner(cfg, NoForm)

(* The switch, the API or the auto-stop: only the replicas change.         *)
StopRunner ==
    /\ running' = FALSE
    /\ UNCHANGED <<form, edits, command, launched, refused>>

Next == Turn \/ SwitchOn \/ ApiStart \/ StopRunner

Spec == Init /\ [][Next]_vars

-----------------------------------------------------------------------------
(* Properties.                                                             *)

(* The variables have their types; no --option of zero or less is passed,  *)
(* and none that is not one of Go's ints.                                  *)
Commands ==
    [bin: {"none", "runner", "omes"}, load: Nat,
     input: {<<>>} \cup {<<runnerExamples[e]>>: e \in Examples},
     scenario: {"none", "dispatch_hello_world", "workflow_with_many_timers",
                "workflow_with_many_actions"},
     ownWorker: BOOLEAN,
     options: SUBSET (Options \X (1..MaxInt))]

TypeOK ==
    /\ form \in Forms
    /\ edits \in Nat
    /\ running \in BOOLEAN
    /\ command \in Commands
    /\ launched \in Forms \cup {NoForm}
    /\ refused \in Forms \cup {NoForm}

(* Whatever was started, stopped, refused or sent by others before, the    *)
(* runner dispatches what the form it was last started with says: the      *)
(* depth or rate, the workflow its label names, the knobs on show or, for  *)
(* one left empty or at zero, omes' default, and nothing of a knob that    *)
(* was hidden.                                                             *)
KnobsHonoured ==
    running /\ launched # NoForm => Load(command) = Promised(launched)

(* A runner that runs dispatches something: no start, by the page or past  *)
(* it, leaves a pod with a depth or rate of zero or an unknown workflow.   *)
Dispatches ==
    running =>
        /\ command.bin # "none"
        /\ Load(command).amount > 0
        /\ Load(command).does \in {Labels[e]: e \in Examples}
                                      \cup {<<"timers">>, <<"fan-out">>}

(* No form within the limits the page sets is refused by the server,       *)
(* unless a number that it sends is beyond Go's ints: the page sets least  *)
(* values only.                                                            *)
PageAccepted ==
    refused # NoForm => ~WithinLimits(refused) \/ ~Decodes(Config(refused))
=============================================================================
