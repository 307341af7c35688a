------------------------------ MODULE MCMtrNet ------------------------------
(* Instances of MtrNet for model checking. *)
EXTENDS MtrNet

OneTime == {1}
ThreeRouters == <<"r1", "r2", "r3">>
Addresses == {"r1", "r2", "r3", "target"}
=============================================================================
