------------------------------ MODULE MCLaunch ------------------------------
(***************************************************************************)
(* Instances of Launch for TLC.                                            *)
(***************************************************************************)
EXTENDS Launch

(* A request of which every field is missing.                              *)
Zero ==
    [mode |-> "none", depth |-> 0, example |-> 0, rate |-> 0, scenario |-> "none",
     timers |-> 0, duration |-> 0, children |-> 0, activities |-> 0]

(* Requests that curl could send: nothing, an unknown mode or scenario, a  *)
(* scenario that is left out, a rate or an example out of range, a number  *)
(* that is no int.                                                         *)
MCApiConfigs ==
    {Zero,
     [Zero EXCEPT !.mode = "burst", !.depth = 1],
     [Zero EXCEPT !.mode = "steady", !.depth = 1],
     [Zero EXCEPT !.mode = "steady", !.example = 4, !.depth = 1],
     [Zero EXCEPT !.mode = "rate", !.rate = 1, !.example = 3],
     [Zero EXCEPT !.mode = "rate", !.rate = 1],
     [Zero EXCEPT !.mode = "rate", !.rate = 1, !.scenario = "storm"],
     [Zero EXCEPT !.mode = "rate", !.scenario = "fan_out"],
     [Zero EXCEPT !.mode = "rate", !.rate = 1, !.scenario = "fan_out",
                  !.children = MaxInt + 1]}

MCTyped == {-1, 0, 1, 7, MaxInt + 1}
=============================================================================
