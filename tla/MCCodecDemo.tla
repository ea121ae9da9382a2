---------------------------- MODULE MCCodecDemo ----------------------------
(***************************************************************************)
(* Instances of CodecDemo for TLC: a number and its last four digits,      *)
(* which someone enters as a number.                                       *)
(***************************************************************************)
EXTENDS CodecDemo

MCNumbers == {"long", "short"}

MCLast4 == [n \in MCNumbers |-> "short"]

MCData ==
    [what: {"person", "payment", "card"}, about: MCNumbers] \cup
    [what: {"receipt", "customer", "paid"}, about: {"short"}]
=============================================================================
