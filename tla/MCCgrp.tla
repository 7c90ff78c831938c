------------------------------- MODULE MCCgrp -------------------------------
(***************************************************************************)
(* Instances of Cgrp for TLC.                                              *)
(***************************************************************************)
EXTENDS Cgrp

CONSTANTS p1, p2

MCParts == {p1, p2}
MCSubscriptions == {{p1}, {p1, p2}}
MCEager == {[proto |-> "EAGER", cached |-> {}]}
MCCooperative == {[proto |-> "COOPERATIVE", cached |-> {p1}]}
MCBoth == MCEager \cup MCCooperative
=============================================================================
