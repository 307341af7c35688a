------------------------------ MODULE MCSession -----------------------------
(* Instances of Session for model checking. *)
EXTENDS Session

CONSTANTS f1, f2, f3, none

(* Every accepted configuration over three files, up to what the files are     *)
(* called: the files are numbered in the order in which the options CSV,      *)
(* baseline to save, baseline to compare with, report first name them.         *)
InOrderOfUse(c) ==
  LET used == SelectSeq(<<c.output_path, c.baseline_save_path, c.baseline_compare_path,
                          c.report_path>>, LAMBDA p : p # none)
      Number(p) == IF p = f1 THEN 1 ELSE IF p = f2 THEN 2 ELSE 3
  IN \A i \in DOMAIN used :
       \A n \in 1..(Number(used[i]) - 1) : \E j \in 1..(i - 1) : Number(used[j]) = n

AllConfigs == {c \in Config : Accepted(c) /\ InOrderOfUse(c)}

(* Save a baseline. *)
SaveOnly ==
  {[mode |-> "mtr", output_path |-> none, baseline_save_path |-> f2,
    baseline_compare_path |-> none, report_path |-> none]}
=============================================================================
