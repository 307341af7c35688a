------------------------------- MODULE MCMtr --------------------------------
(* Instances of Mtr and of what is defined over it, for model checking.      *)
EXTENDS Diagnosis

TwoTimes == {1, 3}
ThreeTimes == {1, 2, 5}
OneRemote == {"r1"}
TwoRemotes == {"r1", "r2"}
=============================================================================
