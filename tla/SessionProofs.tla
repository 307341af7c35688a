---------------------------- MODULE SessionProofs ----------------------------
(***************************************************************************)
(* Proofs about Session, for every set of files and configurations and any *)
(* number of runs.                                                         *)
(***************************************************************************)
EXTENDS Session, TLAPS

-----------------------------------------------------------------------------
(* The order of the steps that follow the measurement. *)

LEMMA OrderValues ==
  /\ Len(Order) = 5
  /\ Order[1] = "csv" /\ Order[2] = "save_open" /\ Order[3] = "compare_open"
  /\ Order[4] = "report_open" /\ Order[5] = "close"
  BY DEF Order

LEMMA WantedValues ==
  /\ Wanted(Order[1]) <=> config.output_path # NoPath
  /\ Wanted(Order[2]) <=> config.baseline_save_path # NoPath
  /\ Wanted(Order[3]) <=> config.baseline_compare_path # NoPath
  /\ Wanted(Order[4]) <=> config.report_path # NoPath
  /\ Wanted(Order[5])
  BY OrderValues DEF Wanted

LEMMA PositionValues ==
  /\ Position("csv") = 1
  /\ Position("save_open") = 2
  /\ Position("compare_open") = 3
  BY OrderValues DEF Position

(* After(i) is the first wanted step behind the i-th. *)
LEMMA AfterIsNext ==
  ASSUME NEW i \in 0..4
  PROVE  \E j \in (i + 1)..5 :
           /\ After(i) = Order[j]
           /\ Wanted(Order[j])
           /\ \A k \in (i + 1)..(j - 1) : ~Wanted(Order[k])
<1> DEFINE First(j) == Wanted(Order[j]) /\ \A k \in (i + 1)..(j - 1) : ~Wanted(Order[k])
<1>1. \E j \in (i + 1)..5 : First(j)
  <2>1. CASE \E j \in (i + 1)..4 : Wanted(Order[j])
    BY <2>1, WantedValues
  <2>2. CASE ~\E j \in (i + 1)..4 : Wanted(Order[j])
    BY <2>2, WantedValues
  <2> QED BY <2>1, <2>2
<1>2. (CHOOSE j \in (i + 1)..5 : First(j)) \in (i + 1)..5
      /\ First(CHOOSE j \in (i + 1)..5 : First(j))
  BY <1>1
<1>3. After(i) = Order[CHOOSE j \in (i + 1)..5 : First(j)]
  BY OrderValues DEF After
<1> QED BY <1>2, <1>3

LaterSteps == {"csv", "save_open", "compare_open", "report_open", "close"}

(* Which steps can follow which; each that does was asked for. *)
LEMMA NextSteps ==
  /\ After(0) \in LaterSteps
  /\ After(Position("csv")) \in LaterSteps \ {"csv"}
  /\ After(Position("save_open")) \in {"compare_open", "report_open", "close"}
  /\ After(Position("compare_open")) \in {"report_open", "close"}
  /\ \A i \in 0..4 : Wanted(After(i))
<1>1. \A i \in 0..4 : \E j \in (i + 1)..5 : After(i) = Order[j]
  BY AfterIsNext
<1>2. \A i \in 0..4 : Wanted(After(i))
  BY AfterIsNext
<1> QED BY <1>1, <1>2, OrderValues, PositionValues DEF LaterSteps

(* A step that is passed over was not asked for. *)
LEMMA SkippedSteps ==
  ASSUME NEW i \in 0..3
  PROVE  /\ i = 0 /\ After(i) # "csv" => config.output_path = NoPath
         /\ i < 2 /\ After(i) \notin {"csv", "save_open"} => config.baseline_save_path = NoPath
         /\ i < 3 /\ After(i) \in {"report_open", "close"} =>
              config.baseline_compare_path = NoPath
         /\ After(i) = "close" => config.report_path = NoPath
<1>1. PICK j \in (i + 1)..5 :
        After(i) = Order[j] /\ \A k \in (i + 1)..(j - 1) : ~Wanted(Order[k])
  BY AfterIsNext
<1> QED BY <1>1, OrderValues, WantedValues

-----------------------------------------------------------------------------
(* Resources.  What the process may hold depends on where it is: a stream of  *)
(* one of the three later steps only during that step, the second one on the  *)
(* baseline only while it is read.                                           *)

(* Where the report is open. *)
ReportStages ==
  {"report_load", "report_read", "report_body", "report_changes", "report_old", "report_now",
   "report_close"}

HeldInPlace ==
  /\ held \subseteq Resources
  /\ pc \in {"resolve", "socket", "exited"} => held = {}
  /\ "stats" \in held => pc \notin {"csv_open", "header", "alloc"}
  /\ "save" \in held => pc \in {"save_write", "save_close"}
  /\ "compare" \in held => pc = "compare_read"
  /\ "report" \in held => pc \in ReportStages
  /\ "report_baseline" \in held => pc = "report_read"

LEMMA HeldInitially == Init => HeldInPlace
  BY DEF Init, HeldInPlace

LEMMA HeldPreserved == HeldInPlace /\ [Next]_vars => HeldInPlace'
<1> SUFFICES ASSUME HeldInPlace, [Next]_vars PROVE HeldInPlace'
  OBVIOUS
<1> USE DEF HeldInPlace, Resources, ReportStages
<1>1. CASE Resolve \/ ResolveFails \/ OpenSocket \/ OpenSocketFails
  BY <1>1 DEF Resolve, ResolveFails, OpenSocket, OpenSocketFails, Go, Quit, AfterSocket
<1>2. CASE OpenCsv \/ WriteHeader \/ CsvFailsToOpen
  BY <1>2 DEF OpenCsv, WriteHeader, CsvFailsToOpen, Go, Quit
<1>3. CASE Alloc \/ AllocFails \/ MeasureRow \/ MeasureRowFails
  BY <1>3 DEF Alloc, AllocFails, MeasureRow, MeasureRowFails, Go, Quit
<1>4. CASE Measured \/ WriteMtrCsv \/ WriteMtrCsvFails
  BY <1>4, NextSteps DEF Measured, WriteMtrCsv, WriteMtrCsvFails, Go, Quit, LaterSteps
<1>5. CASE SaveOpen \/ SaveOpenFails \/ SaveWrite \/ SaveWriteFails \/ SaveClose
  BY <1>5, NextSteps DEF SaveOpen, SaveOpenFails, SaveWrite, SaveWriteFails, SaveClose, Go
<1>6. CASE CompareOpen \/ CompareOpenFails \/ CompareRead \/ CompareReadFails
           \/ ComparePrint \/ ComparePrintFails
  BY <1>6, NextSteps DEF CompareOpen, CompareOpenFails, CompareRead, CompareReadFails,
     ComparePrint, ComparePrintFails, Go
<1>7. CASE ReportOpen \/ ReportOpenFails \/ ReportClose \/ ReportCloseFails
  BY <1>7 DEF ReportOpen, ReportOpenFails, ReportClose, ReportCloseFails, Go
<1>l. CASE NoBaseline \/ OpenBaselineAgain \/ ReadBaselineAgain
  BY <1>l DEF NoBaseline, OpenBaselineAgain, ReadBaselineAgain, Loaded, Go
<1>p. CASE \/ ReportBody \/ ReportBodyFails \/ ReportChanges \/ ReportChangesFail
           \/ ReportOld \/ ReportOldFails \/ ReportNow \/ ReportNowFails
  BY <1>p DEF ReportBody, ReportBodyFails, ReportChanges, ReportChangesFail, ReportOld,
     ReportOldFails, ReportNow, ReportNowFails, GiveUpReport, Go
<1>8. CASE GiveUp \/ Close \/ Killed \/ NextRun
  BY <1>8 DEF GiveUp, Close, Killed, NextRun, Quit
<1>9. CASE NoMoreRuns \/ UNCHANGED vars
  BY <1>9 DEF NoMoreRuns, vars
<1> QED BY <1>1, <1>2, <1>3, <1>4, <1>5, <1>6, <1>7, <1>l, <1>p, <1>8, <1>9 DEF Next

(* Whichever of its many returns a run takes, it has closed its socket and    *)
(* every stream, the second one on the baseline included, and freed its       *)
(* results.                                                                  *)
THEOREM NoLeak == Spec => []NothingLeaks
<1>1. HeldInPlace => NothingLeaks
  BY DEF HeldInPlace, NothingLeaks
<1> QED BY <1>1, HeldInitially, HeldPreserved, PTL DEF Spec

-----------------------------------------------------------------------------
(* Files.  A step writes to at most one of them, and what it leaves there is  *)
(* of the current run.                                                       *)

LEMMA ConfigFacts ==
  ASSUME config \in Configs
  PROVE  /\ NoPath \notin Paths
         /\ config \in Config
         /\ Accepted(config)
  BY PathAssumption, ConfigsAssumption

Kinds == {"csv", "baseline", "report"}

LEMMA FileIsContent ==
  ASSUME run \in 1..MaxRun, NEW kind \in Kinds, NEW part \in {"empty", "partial", "broken", "whole"}
  PROVE  File(kind, part) \in Content
  BY MaxRunAssumption DEF File, Content, Kinds

(* disk differs at most in path, which holds a file of this run and kind. *)
OnlyWrites(path, kind) ==
  \E part \in {"empty", "partial", "broken", "whole"} :
    disk' = [disk EXCEPT ![path] = File(kind, part)]

LEMMA WritesOne ==
  ASSUME NEW path, NEW kind
  PROVE  Truncate(path, kind) \/ Flush(path, kind) \/ FlushAll(path, kind)
           => OnlyWrites(path, kind)
  BY DEF Truncate, Flush, FlushAll, OnlyWrites

LEMMA WriteEffect ==
  ASSUME disk \in [Paths -> Content], run \in 1..MaxRun,
         NEW path \in Paths, NEW kind \in Kinds, OnlyWrites(path, kind)
  PROVE  /\ disk' \in [Paths -> Content]
         /\ \A p \in Paths \ {path} : disk'[p] = disk[p]
         /\ disk'[path].kind = kind /\ disk'[path].run = run
         /\ disk'[path] \in Content
<1>1. PICK part \in {"empty", "partial", "broken", "whole"} :
        disk' = [disk EXCEPT ![path] = File(kind, part)]
  BY DEF OnlyWrites
<1>2. disk'[path] = File(kind, part)
  BY <1>1
<1> QED BY <1>1, <1>2, FileIsContent DEF File

(* What WriteOver leaves of another stream's file is still that stream's. *)
LEMMA WriteOverEffect ==
  ASSUME disk \in [Paths -> Content], NEW path \in Paths, NEW kind, WriteOver(path, kind),
         disk[path].run = run, run # 0
  PROVE  /\ disk' \in [Paths -> Content]
         /\ \A p \in Paths \ {path} : disk'[p] = disk[p]
         /\ disk'[path].kind = disk[path].kind /\ disk'[path].run = run
<1>1. CASE UNCHANGED disk
  BY <1>1
<1>2. CASE \E part \in {"partial", "broken"} : disk' = [disk EXCEPT ![path].part = part]
  <2>1. PICK part \in {"partial", "broken"} : disk' = [disk EXCEPT ![path].part = part]
    BY <1>2
  <2>2. disk[path] \in [kind : Kinds, run : 0..MaxRun,
                       part : {"empty", "partial", "broken", "whole"}]
    BY DEF Content, Absent, Note, Kinds
  <2>3. disk'[path] = [disk[path] EXCEPT !.part = part]
    BY <2>1
  <2>4. disk'[path] \in Content
    BY <2>2, <2>3 DEF Content, Kinds
  <2> QED BY <2>1, <2>2, <2>3, <2>4
<1> QED BY <1>1, <1>2 DEF WriteOver

(* Returning may pass on what is left of the CSV, and touches no other file:  *)
(* it leaves a CSV there, or a file of the kind it finds.                     *)
LEMMA QuitEffect ==
  ASSUME TypeOK, NEW code, NEW freed, Quit(code, freed),
         "csv" \in held => disk[config.output_path].run = run
  PROVE  /\ disk' \in [Paths -> Content]
         /\ \A p \in Paths : p # config.output_path => disk'[p] = disk[p]
         /\ "csv" \notin held => disk' = disk
         /\ "csv" \in held =>
              /\ config.output_path \in Paths
              /\ disk'[config.output_path].run = run
              /\ disk'[config.output_path].kind \in {"csv", disk[config.output_path].kind}
<1>1. CASE "csv" \notin held
  BY <1>1 DEF Quit, CloseCsv, TypeOK
<1>2. CASE "csv" \in held
  <2>1. config.output_path \in Paths
    BY <1>2, ConfigFacts DEF TypeOK, Config
  <2>2. CASE WriteOver(config.output_path, "csv")
    <3>1. run # 0
      <4>1. run \in 1..MaxRun
        BY DEF TypeOK
      <4> QED BY <4>1, MaxRunAssumption DEF MaxRunAssumption
    <3>2. disk \in [Paths -> Content] /\ disk[config.output_path].run = run
      BY <1>2 DEF TypeOK
    <3>3. /\ disk' \in [Paths -> Content]
          /\ \A p \in Paths \ {config.output_path} : disk'[p] = disk[p]
          /\ disk'[config.output_path].kind = disk[config.output_path].kind
          /\ disk'[config.output_path].run = run
      BY <2>1, <2>2, <3>1, <3>2, WriteOverEffect
    <3> QED BY <1>2, <2>1, <3>3
  <2>3. CASE ~WriteOver(config.output_path, "csv")
    <3>1. OnlyWrites(config.output_path, "csv")
      BY <1>2, <2>3, WritesOne DEF Quit, CloseCsv
    <3>2. "csv" \in Kinds /\ disk \in [Paths -> Content] /\ run \in 1..MaxRun
      BY DEF TypeOK, Kinds
    <3>3. /\ disk' \in [Paths -> Content]
          /\ \A p \in Paths \ {config.output_path} : disk'[p] = disk[p]
          /\ disk'[config.output_path].kind = "csv"
          /\ disk'[config.output_path].run = run
      BY <2>1, <3>1, <3>2, WriteEffect
    <3> QED BY <1>2, <2>1, <3>3
  <2> QED BY <2>2, <2>3
<1> QED BY <1>1, <1>2

-----------------------------------------------------------------------------
(* Types.  A step that uses a path is only reached when the path was given.   *)

PathGiven ==
  /\ pc \in {"csv_open", "header", "csv"} => config.output_path # NoPath
  /\ pc \in {"save_open", "save_write", "save_close"} => config.baseline_save_path # NoPath
  /\ pc \in {"compare_open", "compare_read", "compare_print", "report_read"} =>
       config.baseline_compare_path # NoPath
  /\ pc \in {"report_open"} \cup ReportStages => config.report_path # NoPath

(* While the CSV stream is open, its file is one of this run. *)
CsvIsOurs == "csv" \in held => disk[config.output_path].run = run

Typed == TypeOK /\ PathGiven /\ CsvIsOurs

LEMMA InitialContent ==
  /\ Absent \in Content
  /\ [kind |-> "baseline", run |-> 0, part |-> "whole"] \in Content
  BY MaxRunAssumption DEF Content, MaxRunAssumption

LEMMA RemarksValues ==
  /\ Content \subseteq Remarks
  /\ \A t \in {"nothing", "no baseline", "cannot open", "refused", "read error"} : Note(t) \in Remarks
  BY DEF Remarks

LEMMA TypedInitially == Init => Typed
<1> SUFFICES ASSUME Init PROVE Typed
  OBVIOUS
<1>1. disk \in [Paths -> Content]
  BY InitialContent DEF Init
<1>2. run \in 1..MaxRun
  <2>1. run = 1
    BY DEF Init
  <2> QED BY <2>1, MaxRunAssumption DEF MaxRunAssumption
<1>3. compared \in Content
  BY InitialContent DEF Init
<1>4. reported \in Remarks
  BY RemarksValues DEF Init
<1> QED BY <1>1, <1>2, <1>3, <1>4 DEF Init, Typed, TypeOK, PathGiven, ReportStages, CsvIsOurs

(* The paths that the steps write to or read from are names of files. *)
LEMMA PathTypes ==
  ASSUME Typed
  PROVE  /\ pc \in {"csv_open", "header", "csv"} \/ "csv" \in held => config.output_path \in Paths
         /\ pc \in {"save_open", "save_write", "save_close"} =>
              config.baseline_save_path \in Paths
         /\ pc \in {"compare_open", "compare_read", "compare_print", "report_read"} =>
              config.baseline_compare_path \in Paths
         /\ pc \in {"report_open"} \cup ReportStages => config.report_path \in Paths
  BY ConfigFacts DEF Typed, TypeOK, PathGiven, Config

LEMMA TypedAfterQuit ==
  ASSUME Typed, UNCHANGED results, NEW code, NEW freed, Quit(code, freed),
         code \in {"OK", "ERR_GENERAL", "ERR_SOCKET", "ERR_DNS", "ERR_IO"}
  PROVE  Typed'
<1>1. disk' \in [Paths -> Content]
  BY QuitEffect DEF Typed, CsvIsOurs
<1> QED BY <1>1 DEF Typed, TypeOK, PathGiven, ReportStages, CsvIsOurs, Quit, results

(* A step that After chooses was asked for. *)
LEMMA AfterGiven ==
  ASSUME NEW i \in 0..4, After(i) \in LaterSteps, pc' = After(i), UNCHANGED config
  PROVE  PathGiven'
<1>1. Wanted(After(i))
  BY NextSteps
<1> QED BY <1>1 DEF PathGiven, Wanted, LaterSteps, ReportStages

LEMMA LaterGiven ==
  /\ pc' = After(0) /\ UNCHANGED config => PathGiven'
  /\ pc' = After(Position("csv")) /\ UNCHANGED config => PathGiven'
  /\ pc' = After(Position("save_open")) /\ UNCHANGED config => PathGiven'
  /\ pc' = After(Position("compare_open")) /\ UNCHANGED config => PathGiven'
<1>1. {After(0), After(1), After(2), After(3)} \subseteq LaterSteps
  BY NextSteps, PositionValues DEF LaterSteps
<1>2. pc' = After(0) /\ UNCHANGED config => PathGiven'
  BY <1>1, AfterGiven
<1>3. pc' = After(1) /\ UNCHANGED config => PathGiven'
  BY <1>1, AfterGiven
<1>4. pc' = After(2) /\ UNCHANGED config => PathGiven'
  BY <1>1, AfterGiven
<1>5. pc' = After(3) /\ UNCHANGED config => PathGiven'
  BY <1>1, AfterGiven
<1> QED BY <1>2, <1>3, <1>4, <1>5, PositionValues

LEMMA TypedPreserved == Typed /\ [Next]_vars => Typed'
<1> SUFFICES ASSUME Typed, [Next]_vars PROVE Typed'
  OBVIOUS
<1> DEFINE Written(path) ==
      /\ disk' \in [Paths -> Content]
      /\ "csv" \in held \/ path = config.output_path => disk'[config.output_path].run = run
<1>w. ASSUME NEW path \in Paths, NEW kind \in Kinds,
             Truncate(path, kind) \/ Flush(path, kind) \/ FlushAll(path, kind)
      PROVE  Written(path)
  <2>1. /\ disk' \in [Paths -> Content]
        /\ \A p \in Paths \ {path} : disk'[p] = disk[p]
        /\ disk'[path].run = run
    BY <1>w, WritesOne, WriteEffect DEF Typed, TypeOK
  <2>2. "csv" \in held => config.output_path \in Paths /\ disk[config.output_path].run = run
    BY PathTypes DEF Typed, CsvIsOurs
  <2> QED BY <2>1, <2>2
<1>q. CASE \/ ResolveFails \/ OpenSocketFails \/ CsvFailsToOpen \/ AllocFails
           \/ MeasureRowFails \/ WriteMtrCsvFails \/ GiveUp \/ Close
  BY <1>q, TypedAfterQuit DEF ResolveFails, OpenSocketFails, CsvFailsToOpen, AllocFails,
     MeasureRowFails, WriteMtrCsvFails, GiveUp, Close
<1> USE DEF Typed, TypeOK, PathGiven, ReportStages, CsvIsOurs, results, Go, Resources
<1>1. CASE Resolve \/ OpenSocket
  BY <1>1 DEF Resolve, OpenSocket, AfterSocket
<1>2. CASE OpenCsv \/ WriteHeader
  <2>1. Written(config.output_path)
    BY <1>2, <1>w, PathTypes DEF OpenCsv, WriteHeader, Kinds
  <2> QED BY <1>2, <2>1 DEF OpenCsv, WriteHeader
<1>3. CASE Alloc
  BY <1>3 DEF Alloc
<1>4. CASE MeasureRow
  <2>1. Written(config.output_path)
    BY <1>4, <1>w, PathTypes DEF MeasureRow, Kinds
  <2> QED BY <1>4, <2>1 DEF MeasureRow
<1>5. CASE Measured
  <2>1. CASE config.mode = "mtr"
    <3>1. pc' = After(0) /\ After(0) \in LaterSteps /\ UNCHANGED config
      BY <1>5, <2>1, NextSteps DEF Measured
    <3>2. PathGiven'
      BY <3>1, LaterGiven
    <3> QED BY <1>5, <3>1, <3>2 DEF Measured, LaterSteps
  <2>2. CASE config.mode # "mtr"
    BY <1>5, <2>2 DEF Measured
  <2> QED BY <2>1, <2>2
<1>6. CASE WriteMtrCsv
  <2>1. Written(config.output_path)
    BY <1>6, <1>w, PathTypes DEF WriteMtrCsv, Kinds
  <2>2. pc' \in LaterSteps /\ pc' = After(Position("csv")) /\ UNCHANGED config
    BY <1>6, NextSteps DEF WriteMtrCsv, LaterSteps
  <2>3. PathGiven'
    BY <2>2, LaterGiven
  <2> QED BY <1>6, <2>1, <2>2, <2>3 DEF WriteMtrCsv, LaterSteps
<1>7. CASE SaveOpen \/ SaveOpenFails \/ SaveWrite \/ SaveWriteFails
  <2>1. CASE SaveOpenFails
    BY <2>1 DEF SaveOpenFails
  <2>2. CASE SaveOpen \/ SaveWrite \/ SaveWriteFails
    <3>1. Written(config.baseline_save_path)
      BY <2>2, <1>w, PathTypes DEF SaveOpen, SaveWrite, SaveWriteFails, Kinds
    <3> QED BY <2>2, <3>1 DEF SaveOpen, SaveWrite, SaveWriteFails
  <2> QED BY <1>7, <2>1, <2>2
<1>8. CASE SaveClose
  <2>1. Written(config.baseline_save_path)
    BY <1>8, <1>w, PathTypes DEF SaveClose, Kinds
  <2>2. pc' \in LaterSteps /\ pc' = After(Position("save_open")) /\ UNCHANGED config
    BY <1>8, NextSteps DEF SaveClose, LaterSteps
  <2>3. PathGiven'
    BY <2>2, LaterGiven
  <2> QED BY <1>8, <2>1, <2>2, <2>3 DEF SaveClose, LaterSteps
<1>9. CASE CompareOpen \/ CompareOpenFails \/ CompareReadFails \/ ComparePrintFails
  BY <1>9 DEF CompareOpen, CompareOpenFails, CompareReadFails, ComparePrintFails
<1>10. CASE CompareRead
  <2>1. compared' \in Content
    BY <1>10, PathTypes DEF CompareRead
  <2> QED BY <1>10, <2>1 DEF CompareRead
<1>11. CASE ComparePrint
  <2>1. pc' \in LaterSteps /\ pc' = After(Position("compare_open")) /\ UNCHANGED config
    BY <1>11, NextSteps DEF ComparePrint, LaterSteps
  <2>2. PathGiven'
    BY <2>1, LaterGiven
  <2> QED BY <1>11, <2>1, <2>2 DEF ComparePrint, LaterSteps
<1>12. CASE ReportOpenFails
  BY <1>12 DEF ReportOpenFails
<1>13. CASE NoBaseline \/ OpenBaselineAgain \/ ReadBaselineAgain
  <2>1. reported' \in Remarks
    BY <1>13, PathTypes, RemarksValues DEF NoBaseline, OpenBaselineAgain, ReadBaselineAgain,
       Loaded
  <2> QED BY <1>13, <2>1 DEF NoBaseline, OpenBaselineAgain, ReadBaselineAgain, Loaded
<1>14. CASE ReportOpen \/ ReportClose \/ ReportCloseFails
  <2>1. Written(config.report_path)
    BY <1>14, <1>w, PathTypes DEF ReportOpen, ReportClose, ReportCloseFails, Kinds
  <2> QED BY <1>14, <2>1 DEF ReportOpen, ReportClose, ReportCloseFails
<1>15. CASE ReportBody \/ ReportChanges \/ ReportOld \/ ReportNow
  <2>1. Written(config.report_path)
    BY <1>15, <1>w, PathTypes DEF ReportBody, ReportChanges, ReportOld, ReportNow, Kinds
  <2> QED BY <1>15, <2>1 DEF ReportBody, ReportChanges, ReportOld, ReportNow
<1>16. CASE ReportBodyFails \/ ReportChangesFail \/ ReportOldFails \/ ReportNowFails
  <2> USE DEF ReportBodyFails, ReportChangesFail, ReportOldFails, ReportNowFails, GiveUpReport
  <2>1. Written(config.report_path)
    BY <1>16, <1>w, PathTypes DEF Kinds
  <2> QED BY <1>16, <2>1
<1>17. CASE Killed
  BY <1>17 DEF Killed
<1>18. CASE NextRun
  <2>1. run' \in 1..MaxRun
    <3>1. run \in 1..MaxRun /\ run < MaxRun /\ run' = run + 1
      BY <1>18 DEF NextRun
    <3> HIDE DEF Typed, TypeOK, PathGiven
    <3> QED BY <3>1, MaxRunAssumption DEF MaxRunAssumption
  <2>2. compared' \in Content /\ reported' \in Remarks
    BY <1>18, InitialContent, RemarksValues DEF NextRun
  <2> QED BY <1>18, <2>1, <2>2 DEF NextRun
<1>19. CASE NoMoreRuns \/ UNCHANGED vars
  <2>1. /\ UNCHANGED <<config, run, pc, exit, held, rows, disk, before>>
        /\ UNCHANGED <<said, compared, reported>>
    BY <1>19 DEF NoMoreRuns, vars
  <2>2. TypeOK'
    BY <2>1
  <2>3. PathGiven' /\ CsvIsOurs'
    BY <2>1
  <2> QED BY <2>2, <2>3
<1> QED BY <1>q, <1>1, <1>2, <1>3, <1>4, <1>5, <1>6, <1>7, <1>8, <1>9, <1>10, <1>11,
       <1>12, <1>13, <1>14, <1>15, <1>16, <1>17, <1>18, <1>19 DEF Next

(* Types of the variables; a CSV stream is there only if one was asked for. *)
THEOREM TypeCorrect == Spec => []TypeOK
<1>1. Typed => TypeOK
  BY DEF Typed
<1> QED BY <1>1, TypedInitially, TypedPreserved, PTL DEF Spec

-----------------------------------------------------------------------------
(* Which file a step may write to. *)

CsvSteps == OpenCsv \/ WriteHeader \/ MeasureRow \/ WriteMtrCsv
Returns ==
  \/ ResolveFails \/ OpenSocketFails \/ CsvFailsToOpen \/ AllocFails
  \/ MeasureRowFails \/ WriteMtrCsvFails \/ GiveUp \/ Close
SaveSteps == SaveOpen \/ SaveWrite \/ SaveWriteFails \/ SaveClose
ReportSteps ==
  \/ ReportOpen \/ ReportBody \/ ReportBodyFails \/ ReportChanges \/ ReportChangesFail
  \/ ReportOld \/ ReportOldFails \/ ReportNow \/ ReportNowFails
  \/ ReportClose \/ ReportCloseFails
LoadSteps == NoBaseline \/ OpenBaselineAgain \/ ReadBaselineAgain
OtherSteps ==
  \/ Resolve \/ OpenSocket \/ Alloc \/ Measured \/ SaveOpenFails
  \/ CompareOpen \/ CompareOpenFails \/ CompareRead \/ CompareReadFails
  \/ ComparePrint \/ ComparePrintFails
  \/ ReportOpenFails \/ Killed

LEMMA NextCases ==
  ASSUME [Next]_vars
  PROVE  \/ CsvSteps \/ Returns \/ SaveSteps \/ ReportSteps \/ LoadSteps \/ OtherSteps
         \/ NextRun \/ UNCHANGED vars
  BY DEF Next, NoMoreRuns, CsvSteps, Returns, SaveSteps, ReportSteps, LoadSteps, OtherSteps

LEMMA ReturnIsQuit ==
  ASSUME Returns
  PROVE  /\ UNCHANGED results
         /\ \E code, freed : Quit(code, freed)
  BY DEF Returns, ResolveFails, OpenSocketFails, CsvFailsToOpen, AllocFails,
     MeasureRowFails, WriteMtrCsvFails, GiveUp, Close

(* Where a step of write_mtr_report leads, and what it leaves alone. *)
LEMMA ReportStepFlow ==
  ASSUME ReportSteps
  PROVE  /\ UNCHANGED <<config, run, exit, rows, before, compared, reported>>
         /\ said' = said \/ ReportClose
         /\ "saved" \in said => "saved" \in said'
         /\ \/ pc = "report_open" /\ pc' = "report_load"
            \/ /\ pc \in ReportStages \ {"report_load", "report_read"}
               /\ pc' \in (ReportStages \ {"report_load", "report_read"}) \cup {"failed"}
            \/ ReportClose /\ pc = "report_close" /\ pc' = "close"
<1>1. CASE ReportOpen \/ ReportClose \/ ReportCloseFails
  BY <1>1 DEF ReportOpen, ReportClose, ReportCloseFails, Go, results, ReportStages
<1>2. CASE ReportBody \/ ReportChanges \/ ReportOld \/ ReportNow
  BY <1>2 DEF ReportBody, ReportChanges, ReportOld, ReportNow, Go, results, ReportStages
<1>3. CASE ReportBodyFails \/ ReportChangesFail \/ ReportOldFails \/ ReportNowFails
  BY <1>3 DEF ReportBodyFails, ReportChangesFail, ReportOldFails, ReportNowFails, GiveUpReport,
     Go, results, ReportStages
<1> QED BY <1>1, <1>2, <1>3 DEF ReportSteps

LEMMA LoadStepFlow ==
  ASSUME LoadSteps
  PROVE  /\ UNCHANGED <<config, run, exit, rows, before, disk, said, compared>>
         /\ \/ pc = "report_load" /\ pc' = "report_body"
            \/ pc = "report_load" /\ pc' = "report_read" /\ reported' = reported
            \/ pc = "report_read" /\ pc' = "report_body"
  BY DEF LoadSteps, NoBaseline, OpenBaselineAgain, ReadBaselineAgain, Loaded, Go, results

LEMMA ReturnsWrite ==
  ASSUME Typed, Returns
  PROVE  /\ \A p \in Paths : p # config.output_path => disk'[p] = disk[p]
         /\ "csv" \notin held => disk' = disk
         /\ "csv" \in held =>
              /\ config.output_path \in Paths
              /\ disk'[config.output_path].run = run
              /\ disk'[config.output_path].kind \in {"csv", disk[config.output_path].kind}
  BY ReturnIsQuit, QuitEffect DEF Typed, CsvIsOurs

LEMMA CsvStepsWrite ==
  ASSUME Typed, CsvSteps
  PROVE  /\ config.output_path \in Paths
         /\ \A p \in Paths : p # config.output_path => disk'[p] = disk[p]
         /\ disk'[config.output_path].run = run /\ disk'[config.output_path].kind = "csv"
<1>1. config.output_path \in Paths
  BY PathTypes DEF CsvSteps, OpenCsv, WriteHeader, MeasureRow, WriteMtrCsv
<1>2. OnlyWrites(config.output_path, "csv")
  BY WritesOne DEF CsvSteps, OpenCsv, WriteHeader, MeasureRow, WriteMtrCsv
<1> QED BY <1>1, <1>2, WriteEffect DEF Typed, TypeOK, Kinds

LEMMA SaveStepsWrite ==
  ASSUME Typed, SaveSteps
  PROVE  /\ config.baseline_save_path \in Paths
         /\ \A p \in Paths : p # config.baseline_save_path => disk'[p] = disk[p]
         /\ disk'[config.baseline_save_path].run = run
         /\ disk'[config.baseline_save_path].kind = "baseline"
<1>1. config.baseline_save_path \in Paths
  BY PathTypes DEF SaveSteps, SaveOpen, SaveWrite, SaveWriteFails, SaveClose
<1>2. OnlyWrites(config.baseline_save_path, "baseline")
  BY WritesOne DEF SaveSteps, SaveOpen, SaveWrite, SaveWriteFails, SaveClose
<1> QED BY <1>1, <1>2, WriteEffect DEF Typed, TypeOK, Kinds

LEMMA ReportStepsWrite ==
  ASSUME Typed, ReportSteps
  PROVE  /\ config.report_path \in Paths
         /\ \A p \in Paths : p # config.report_path => disk'[p] = disk[p]
         /\ disk'[config.report_path].run = run /\ disk'[config.report_path].kind = "report"
<1> USE DEF ReportSteps, ReportOpen, ReportBody, ReportBodyFails, ReportChanges,
     ReportChangesFail, ReportOld, ReportOldFails, ReportNow, ReportNowFails, ReportClose,
     ReportCloseFails, GiveUpReport
<1>1. config.report_path \in Paths
  BY PathTypes DEF ReportStages
<1>2. OnlyWrites(config.report_path, "report")
  BY WritesOne
<1> QED BY <1>1, <1>2, WriteEffect DEF Typed, TypeOK, Kinds

LEMMA OtherStepsWrite ==
  ASSUME OtherSteps
  PROVE  UNCHANGED disk
  BY DEF OtherSteps, Resolve, OpenSocket, Alloc, Measured, SaveOpenFails, CompareOpen,
     CompareOpenFails, CompareRead, CompareReadFails, ComparePrint, ComparePrintFails,
     ReportOpenFails, Killed, Go

(* Only the next run has another configuration. *)
LEMMA SameRun ==
  ASSUME CsvSteps \/ Returns \/ SaveSteps \/ ReportSteps \/ LoadSteps \/ OtherSteps
  PROVE  UNCHANGED <<config, run, before>>
<1>1. CASE Returns
  BY <1>1, ReturnIsQuit DEF Quit
<1>2. CASE CsvSteps
  BY <1>2 DEF CsvSteps, OpenCsv, WriteHeader, MeasureRow, WriteMtrCsv, Go
<1>3. CASE SaveSteps
  BY <1>3 DEF SaveSteps, SaveOpen, SaveWrite, SaveWriteFails, SaveClose, Go
<1>4. CASE ReportSteps \/ LoadSteps
  BY <1>4, ReportStepFlow, LoadStepFlow
<1>5. CASE OtherSteps
  BY <1>5 DEF OtherSteps, Resolve, OpenSocket, Alloc, Measured, SaveOpenFails, CompareOpen,
     CompareOpenFails, CompareRead, CompareReadFails, ComparePrint, ComparePrintFails,
     ReportOpenFails, Killed, Go
<1> QED BY <1>1, <1>2, <1>3, <1>4, <1>5

-----------------------------------------------------------------------------
(* The report.  The message comes last, so it can only have been printed when *)
(* the run is about to return, and the one stream that is still open then     *)
(* writes to the CSV file.                                                   *)

StoredInPlace ==
  /\ "reported" \in said =>
       /\ pc \in {"close", "exited"}
       /\ config.report_path \in Paths
       /\ config.report_path # config.output_path \/ pc # "exited" =>
            disk[config.report_path] = File("report", "whole")
  /\ pc = "close" /\ config.report_path # NoPath => "reported" \in said
  /\ exit = "OK" /\ config.report_path # NoPath => "reported" \in said

LEMMA StoredInitially == Init => StoredInPlace
  BY DEF Init, StoredInPlace

(* run_mtr_mode passes over the report only if none was asked for. *)
LEMMA ReportPassedOver ==
  /\ After(0) = "close" => config.report_path = NoPath
  /\ After(Position("csv")) = "close" => config.report_path = NoPath
  /\ After(Position("save_open")) = "close" => config.report_path = NoPath
  /\ After(Position("compare_open")) = "close" => config.report_path = NoPath
  BY SkippedSteps, PositionValues

LEMMA StoredPreserved == Typed /\ StoredInPlace /\ [Next]_vars => StoredInPlace'
<1> SUFFICES ASSUME Typed, StoredInPlace, [Next]_vars PROVE StoredInPlace'
  OBVIOUS
<1>1. CASE CsvSteps
  <2>1. /\ "reported" \notin said /\ said' = said
        /\ exit' = exit
        /\ pc' = "close" => config.report_path = NoPath
    BY <1>1, ReportPassedOver DEF CsvSteps, OpenCsv, WriteHeader, MeasureRow, WriteMtrCsv,
       Go, StoredInPlace, results
  <2> QED BY <1>1, <2>1, SameRun DEF StoredInPlace
<1>2. CASE Returns
  <2>1. /\ said' = said /\ pc' = "exited"
        /\ exit' = "OK" => pc = "close"
    BY <1>2 DEF Returns, ResolveFails, OpenSocketFails, CsvFailsToOpen, AllocFails,
       MeasureRowFails, WriteMtrCsvFails, GiveUp, Close, Quit, results
  <2>2. UNCHANGED <<config, run>>
    BY <1>2, SameRun
  <2>3. pc # "exited"
    BY <1>2 DEF Returns, ResolveFails, OpenSocketFails, CsvFailsToOpen, AllocFails,
       MeasureRowFails, WriteMtrCsvFails, GiveUp, Close
  <2>4. config.report_path \in Paths /\ config.report_path # config.output_path =>
          disk'[config.report_path] = disk[config.report_path]
    BY <1>2, ReturnsWrite
  <2> QED BY <2>1, <2>2, <2>3, <2>4 DEF StoredInPlace, File
<1>3. CASE SaveSteps
  <2>1. /\ "reported" \notin said /\ "reported" \notin said'
        /\ exit' = exit
        /\ pc' = "close" => config.report_path = NoPath
    BY <1>3, ReportPassedOver DEF SaveSteps, SaveOpen, SaveWrite, SaveWriteFails, SaveClose,
       Go, StoredInPlace, results
  <2> QED BY <1>3, <2>1, SameRun DEF StoredInPlace
<1>4. CASE ReportClose
  <2>1. config.report_path \in Paths
    BY <1>4, PathTypes DEF ReportClose, ReportStages
  <2>2. disk'[config.report_path] = File("report", "whole")
    BY <1>4, <2>1 DEF ReportClose, FlushAll, Typed, TypeOK
  <2>3. UNCHANGED <<config, run, exit>> /\ "reported" \in said' /\ pc' = "close"
    BY <1>4 DEF ReportClose, Go
  <2> QED BY <2>1, <2>2, <2>3 DEF StoredInPlace, File
<1>5. CASE (ReportSteps /\ ~ReportClose) \/ LoadSteps
  <2>1. /\ said' = said /\ exit' = exit
        /\ pc \notin {"close", "exited"} /\ pc' # "close"
    BY <1>5, ReportStepFlow, LoadStepFlow DEF ReportStages
  <2>2. "reported" \notin said
    BY <2>1 DEF StoredInPlace
  <2> QED BY <1>5, <2>1, <2>2, SameRun DEF StoredInPlace
<1>6. CASE Killed
  BY <1>6 DEF Killed, StoredInPlace, results, File
<1>7. CASE OtherSteps /\ ~Killed
  <2>1. /\ "reported" \notin said /\ said' = said
        /\ exit' = exit
        /\ pc' = "close" => config.report_path = NoPath
    BY <1>7, ReportPassedOver, ConfigFacts DEF OtherSteps, Resolve, OpenSocket, Alloc,
       Measured, SaveOpenFails, CompareOpen, CompareOpenFails, CompareRead, CompareReadFails,
       ComparePrint, ComparePrintFails, ReportOpenFails, Go, StoredInPlace, results, AfterSocket, Accepted, Typed, TypeOK
  <2> QED BY <1>7, <2>1, SameRun DEF StoredInPlace
<1>8. CASE NextRun
  BY <1>8 DEF NextRun, StoredInPlace
<1>9. CASE UNCHANGED vars
  <2>1. UNCHANGED <<config, run, pc, exit, disk, said>>
    BY <1>9 DEF vars, results
  <2> QED BY <2>1 DEF StoredInPlace, File
<1> QED BY <1>1, <1>2, <1>3, <1>4, <1>5, <1>6, <1>7, <1>8, <1>9, NextCases

(* When a run says that it has stored its report, the whole report is in the  *)
(* file, until the CSV stream is closed if --output names that very file; a   *)
(* run that was asked for a report succeeds only then.                       *)
THEOREM ReportStored == Spec => []ReportIsStored
<1>1. StoredInPlace => ReportIsStored
  BY DEF StoredInPlace, ReportIsStored
<1> QED BY <1>1, TypedInitially, TypedPreserved, StoredInitially, StoredPreserved, PTL
        DEF Spec

-----------------------------------------------------------------------------
(* Order of the outputs.  A file of this run is one that is due, and a file   *)
(* that is not of this run is as it was when the run started.                *)

BeforeCsv == {"resolve", "socket", "csv_open", "header", "alloc", "measure"}
AtSave == {"save_open", "save_write", "save_close"}
AtCompare == {"compare_open", "compare_read"}
AtPrint == {"compare_print"}
AtReport == {"report_open"} \cup ReportStages

Due(path) ==
  /\ disk[path].run \in 0..run
  /\ IF disk[path].run = run THEN OutputDue(path) ELSE disk[path] = before[path]

InOrder ==
  /\ pc \in {"resolve", "socket"} => disk = before
  /\ exit # "" => pc = "exited"
  /\ exit \in {"ERR_DNS", "ERR_SOCKET"} => disk = before
  /\ pc \in BeforeCsv \cup {"csv"} => rows # "all"
  /\ pc \in AtSave \cup AtCompare \cup AtPrint \cup AtReport /\ config.output_path # NoPath
       => rows = "all"
  /\ pc \in AtCompare \cup AtPrint \cup AtReport /\ config.baseline_save_path # NoPath
       => "saved" \in said
  /\ pc \in AtPrint \cup AtReport /\ config.baseline_compare_path # NoPath
       => compared # Absent
  /\ \A path \in Paths : Due(path)

LEMMA InOrderInitially == Init => InOrder
<1> SUFFICES ASSUME Init PROVE InOrder
  OBVIOUS
<1>1. ASSUME NEW path \in Paths PROVE Due(path)
  <2>1. disk[path].run = 0
    <3>1. disk[path] \in {Absent, [kind |-> "baseline", run |-> 0, part |-> "whole"]}
      BY DEF Init
    <3>2. Absent.run = 0 /\ [kind |-> "baseline", run |-> 0, part |-> "whole"].run = 0
      BY DEF Absent, Note
    <3> QED BY <3>1, <3>2
  <2>2. run = 1 /\ before = disk
    BY DEF Init
  <2> QED BY <2>1, <2>2 DEF Due
<1> QED BY <1>1 DEF Init, InOrder, BeforeCsv, AtSave, AtCompare, AtPrint, AtReport, ReportStages

(* Steps that were passed over, seen from where the run goes on. *)
LEMMA PassedOver ==
  /\ After(0) # "csv" => config.output_path = NoPath
  /\ After(0) \notin {"csv", "save_open"} => config.baseline_save_path = NoPath
  /\ After(0) \in {"report_open", "close"} => config.baseline_compare_path = NoPath
  /\ After(Position("csv")) # "save_open" => config.baseline_save_path = NoPath
  /\ After(Position("csv")) \in {"report_open", "close"} => config.baseline_compare_path = NoPath
  /\ After(Position("save_open")) \in {"report_open", "close"} =>
       config.baseline_compare_path = NoPath
<1>1. After(Position("csv")) # "csv"
  BY NextSteps
<1> QED BY <1>1, SkippedSteps, PositionValues

(* What was done stays done. *)
Progress ==
  /\ UNCHANGED <<config, run, before>>
  /\ rows = "all" => rows' = "all"
  /\ "saved" \in said => "saved" \in said'
  /\ compared # Absent => compared' # Absent

LEMMA DueKept ==
  ASSUME NEW path \in Paths, Progress, Due(path), disk'[path] = disk[path]
  PROVE  Due(path)'
  BY DEF Progress, Due, OutputDue

LEMMA DueWritten ==
  ASSUME NEW path \in Paths, run \in Nat, UNCHANGED <<run>>, OutputDue(path)'
  PROVE  Due(path)'
<1>1. disk'[path].run = run'
  BY DEF OutputDue
<1> QED BY <1>1 DEF Due

LEMMA RunIsNat == TypeOK => run \in Nat
<1> SUFFICES ASSUME TypeOK PROVE run \in Nat
  OBVIOUS
<1>1. run \in 1..MaxRun
  BY DEF TypeOK
<1> QED BY <1>1, MaxRunAssumption DEF MaxRunAssumption

(* The conditions of InOrder that do not speak of the disk. *)
StepsInOrder ==
  /\ exit # "" => pc = "exited"
  /\ pc \in BeforeCsv \cup {"csv"} => rows # "all"
  /\ pc \in AtSave \cup AtCompare \cup AtPrint \cup AtReport /\ config.output_path # NoPath
       => rows = "all"
  /\ pc \in AtCompare \cup AtPrint \cup AtReport /\ config.baseline_save_path # NoPath
       => "saved" \in said
  /\ pc \in AtPrint \cup AtReport /\ config.baseline_compare_path # NoPath
       => compared # Absent

LEMMA InOrderPreserved ==
  Typed /\ HeldInPlace /\ InOrder /\ [Next]_vars => InOrder'
<1> SUFFICES ASSUME Typed, HeldInPlace, InOrder, [Next]_vars PROVE InOrder'
  OBVIOUS
<1>p. /\ config.output_path \in Paths \cup {NoPath}
      /\ config.baseline_save_path \in Paths \cup {NoPath}
      /\ config.baseline_compare_path \in Paths \cup {NoPath}
      /\ config.report_path \in Paths \cup {NoPath}
      /\ NoPath \notin Paths
      /\ Accepted(config)
      /\ run \in Nat
  BY ConfigFacts, RunIsNat DEF Typed, TypeOK, Config
<1>d. \A path \in Paths : Due(path)
  BY DEF InOrder
<1>o. StepsInOrder
  BY DEF InOrder, StepsInOrder
(* A step within a run that keeps the order of the steps. *)
<1>k. ASSUME Progress, StepsInOrder', \A path \in Paths : Due(path)',
             pc' \notin {"resolve", "socket"} \/ disk' = before',
             exit' \notin {"ERR_DNS", "ERR_SOCKET"} \/ disk' = before'
      PROVE  InOrder'
  BY <1>k DEF InOrder, StepsInOrder
<1> USE DEF BeforeCsv, AtSave, AtCompare, AtPrint, AtReport
<1>1. CASE CsvSteps
  <2>1. /\ exit' = exit /\ said' = said /\ compared' = compared
        /\ pc \in {"csv_open", "header", "measure", "csv"}
        /\ \/ pc' \in {"header", "alloc", "measure"} /\ rows' \in {rows, "some"}
           \/ pc' = After(Position("csv")) /\ rows' = "all"
    BY <1>1 DEF CsvSteps, OpenCsv, WriteHeader, MeasureRow, WriteMtrCsv, Go, results
  <2>2. rows # "all" /\ exit = ""
    BY <2>1, <1>o DEF StepsInOrder
  <2>3. Progress
    BY <1>1, <2>1, <2>2, SameRun DEF Progress
  <2>4. CASE pc' \in {"header", "alloc", "measure"} /\ rows' \in {rows, "some"}
    <3>1. StepsInOrder'
      BY <2>1, <2>2, <2>4 DEF StepsInOrder, ReportStages
    <3> QED
      <4>1. ASSUME NEW path \in Paths PROVE Due(path)'
        <5>1. CASE path = config.output_path
          <6>1. OutputDue(path)'
            BY <5>1, <1>1, <2>3, CsvStepsWrite DEF OutputDue, Progress
          <6> QED BY <6>1, <1>p, <2>3, DueWritten DEF Progress
        <5>2. CASE path # config.output_path
          BY <5>2, <1>1, <1>d, <2>3, CsvStepsWrite, DueKept
        <5> QED BY <5>1, <5>2
      <4> QED BY <3>1, <4>1, <1>k, <2>1, <2>2, <2>3, <2>4
  <2>5. CASE pc' = After(Position("csv")) /\ rows' = "all"
    <3>1. StepsInOrder'
      BY <2>1, <2>2, <2>3, <2>5, NextSteps, PassedOver
         DEF StepsInOrder, ReportStages, LaterSteps, Progress
    <3>2. pc' \notin {"resolve", "socket"}
      BY <2>5, NextSteps DEF LaterSteps
    <3> QED
      <4>1. ASSUME NEW path \in Paths PROVE Due(path)'
        <5>1. CASE path = config.output_path
          <6>1. OutputDue(path)'
            BY <5>1, <1>1, <2>3, CsvStepsWrite DEF OutputDue, Progress
          <6> QED BY <6>1, <1>p, <2>3, DueWritten DEF Progress
        <5>2. CASE path # config.output_path
          BY <5>2, <1>1, <1>d, <2>3, CsvStepsWrite, DueKept
        <5> QED BY <5>1, <5>2
      <4> QED BY <3>1, <3>2, <4>1, <1>k, <2>1, <2>2, <2>3
  <2> QED BY <2>1, <2>4, <2>5
<1>2. CASE Returns
  <2>1. /\ pc' = "exited" /\ rows' = rows
        /\ exit' \in {"ERR_DNS", "ERR_SOCKET"} => pc \in {"resolve", "socket"}
    BY <1>2 DEF Returns, ResolveFails, OpenSocketFails, CsvFailsToOpen, AllocFails,
       MeasureRowFails, WriteMtrCsvFails, GiveUp, Close, Quit
  <2>2. Progress
    BY <1>2, <2>1, SameRun, ReturnIsQuit DEF Progress, results
  <2>3. StepsInOrder'
    BY <2>1 DEF StepsInOrder, ReportStages
  <2>4. pc \in {"resolve", "socket"} => disk' = before'
    BY <1>2, <2>2, ReturnsWrite DEF HeldInPlace, InOrder, Progress
  <2>5. ASSUME NEW path \in Paths PROVE Due(path)'
    <3>1. CASE path = config.output_path /\ "csv" \in held
      <4>1. disk[path].run = run
        BY <3>1 DEF Typed, CsvIsOurs
      <4>2. OutputDue(path)
        BY <4>1, <1>d DEF Due
      <4>3. disk'[path].run = run /\ disk'[path].kind \in {"csv", disk[path].kind}
        BY <3>1, <1>2, ReturnsWrite
      <4>4. OutputDue(path)'
        BY <3>1, <4>2, <4>3, <2>2 DEF OutputDue, Progress
      <4> QED BY <4>4, <1>p, <2>2, DueWritten DEF Progress
    <3>2. CASE ~(path = config.output_path /\ "csv" \in held)
      <4>1. disk'[path] = disk[path]
        BY <3>2, <1>2, ReturnsWrite
      <4> QED BY <4>1, <1>d, <2>2, DueKept
    <3> QED BY <3>1, <3>2
  <2> QED BY <2>1, <2>2, <2>3, <2>4, <2>5, <1>k
<1>3. CASE SaveSteps
  <2>1. /\ exit' = exit /\ compared' = compared /\ rows' = rows
        /\ pc \in AtSave
        /\ \/ pc' \in {"save_write", "save_close", "failed"} /\ said' = said
           \/ pc' = After(Position("save_open")) /\ said' = said \cup {"saved"}
    BY <1>3 DEF SaveSteps, SaveOpen, SaveWrite, SaveWriteFails, SaveClose, Go, results
  <2>2. exit = "" /\ (config.output_path # NoPath => rows = "all")
    BY <2>1, <1>o DEF StepsInOrder
  <2>3. Progress
    BY <1>3, <2>1, SameRun DEF Progress
  <2>4. /\ StepsInOrder'
        /\ pc' \notin {"resolve", "socket"}
    BY <2>1, <2>2, <2>3, NextSteps, PassedOver DEF StepsInOrder, ReportStages, Progress
  <2>5. ASSUME NEW path \in Paths PROVE Due(path)'
    <3>1. CASE path = config.baseline_save_path
      <4>1. OutputDue(path)'
        BY <3>1, <1>3, <2>1, <2>2, <2>3, SaveStepsWrite DEF OutputDue, Progress
      <4> QED BY <4>1, <1>p, <2>3, DueWritten DEF Progress
    <3>2. CASE path # config.baseline_save_path
      BY <3>2, <1>3, <1>d, <2>3, SaveStepsWrite, DueKept
    <3> QED BY <3>1, <3>2
  <2> QED BY <2>1, <2>2, <2>3, <2>4, <2>5, <1>k
<1>4. CASE ReportSteps
  <2>1. /\ UNCHANGED <<exit, rows, compared>>
        /\ pc \in AtReport /\ pc' \in ReportStages \cup {"failed", "close"}
        /\ "saved" \in said => "saved" \in said'
    BY <1>4, ReportStepFlow DEF ReportStages
  <2>2. /\ exit = ""
        /\ config.output_path # NoPath => rows = "all"
        /\ config.baseline_save_path # NoPath => "saved" \in said
        /\ config.baseline_compare_path # NoPath => compared # Absent
    BY <2>1, <1>o DEF StepsInOrder, ReportStages
  <2>3. Progress
    BY <1>4, <2>1, SameRun DEF Progress
  <2>4. StepsInOrder' /\ pc' \notin {"resolve", "socket"}
    BY <2>1, <2>2, <2>3 DEF StepsInOrder, ReportStages, Progress
  <2>5. ASSUME NEW path \in Paths PROVE Due(path)'
    <3>1. CASE path = config.report_path
      <4>1. OutputDue(path)'
        BY <3>1, <1>4, <2>1, <2>2, <2>3, ReportStepsWrite DEF OutputDue, Progress
      <4> QED BY <4>1, <1>p, <2>3, DueWritten DEF Progress
    <3>2. CASE path # config.report_path
      BY <3>2, <1>4, <1>d, <2>3, ReportStepsWrite, DueKept
    <3> QED BY <3>1, <3>2
  <2> QED BY <2>1, <2>2, <2>3, <2>4, <2>5, <1>k
<1>5. CASE LoadSteps
  <2>1. /\ UNCHANGED <<exit, rows, disk, said, compared>>
        /\ pc \in ReportStages /\ pc' \in ReportStages
    BY <1>5, LoadStepFlow DEF ReportStages
  <2>2. exit = ""
    BY <2>1, <1>o DEF StepsInOrder, ReportStages
  <2>3. Progress
    BY <1>5, <2>1, SameRun DEF Progress
  <2>4. StepsInOrder' /\ pc' \notin {"resolve", "socket"}
    BY <2>1, <2>2, <2>3, <1>o DEF StepsInOrder, ReportStages, Progress
  <2>5. ASSUME NEW path \in Paths PROVE Due(path)'
    BY <2>1, <2>3, <1>d, DueKept
  <2> QED BY <2>1, <2>2, <2>3, <2>4, <2>5, <1>k
<1>6. CASE OtherSteps
  <2>1. UNCHANGED <<config, run, before, disk>>
    BY <1>6, SameRun, OtherStepsWrite
  <2>2. /\ said' = said
        /\ rows = "all" => rows' = "all"
        /\ compared # Absent => compared' # Absent
        /\ pc' \in {"resolve", "socket"} => pc \in {"resolve", "socket"}
        /\ exit' \in {exit, "KILLED"}
        /\ StepsInOrder'
    <3>1. CASE Resolve \/ OpenSocket \/ Alloc
      BY <3>1, <2>1, <1>o DEF Resolve, OpenSocket, Alloc, AfterSocket, Go, results,
         StepsInOrder, ReportStages
    <3>2. CASE Measured
      <4>1. /\ exit' = exit /\ said' = said /\ compared' = compared
            /\ pc = "measure"
            /\ \/ pc' = After(0) /\ rows' = rows
               \/ pc' = "close" /\ rows' = "all"
        BY <3>2 DEF Measured, Go, results
      <4>2. rows # "all" /\ exit = ""
        BY <4>1, <1>o DEF StepsInOrder
      <4> QED BY <4>1, <4>2, <2>1, NextSteps, PassedOver
              DEF StepsInOrder, LaterSteps, ReportStages
    <3>3. CASE \/ SaveOpenFails \/ CompareOpen \/ CompareOpenFails \/ CompareReadFails
               \/ ComparePrintFails \/ ReportOpenFails \/ Killed
      BY <3>3, <2>1, <1>o DEF SaveOpenFails, CompareOpen, CompareOpenFails, CompareReadFails,
         ComparePrintFails, ReportOpenFails, Killed, Go, results, StepsInOrder, ReportStages
    <3>4. CASE CompareRead
      <4>1. /\ exit' = exit /\ said' = said /\ rows' = rows
            /\ pc = "compare_read" /\ pc' = "compare_print"
            /\ compared'.kind = "baseline"
        BY <3>4 DEF CompareRead, read_mtr_baseline_stream, Go
      <4>2. compared' # Absent
        BY <4>1 DEF Absent, Note
      <4> QED BY <4>1, <4>2, <2>1, <1>o DEF StepsInOrder, ReportStages
    <3>5. CASE ComparePrint
      <4>1. /\ UNCHANGED <<exit, said, rows, compared>>
            /\ pc = "compare_print" /\ pc' = After(Position("compare_open"))
        BY <3>5 DEF ComparePrint, Go, results
      <4> QED BY <4>1, <2>1, <1>o, NextSteps DEF StepsInOrder, ReportStages
    <3> QED BY <1>6, <3>1, <3>2, <3>3, <3>4, <3>5 DEF OtherSteps
  <2>3. Progress
    BY <2>1, <2>2 DEF Progress
  <2>4. ASSUME NEW path \in Paths PROVE Due(path)'
    BY <2>1, <2>3, <1>d, DueKept
  <2> QED BY <2>1, <2>2, <2>3, <2>4, <1>k DEF InOrder
<1>7. CASE NextRun
  <2>1. /\ pc' = "resolve" /\ exit' = "" /\ rows' = "none"
        /\ disk' = disk /\ before' = disk /\ run' = run + 1
    BY <1>7 DEF NextRun
  <2>2. ASSUME NEW path \in Paths PROVE Due(path)'
    <3>1. disk[path].run \in 0..run
      BY <1>d DEF Due
    <3>2. disk'[path].run \in 0..run' /\ disk'[path].run # run'
      <4>1. run \in Nat /\ run' = run + 1 /\ disk'[path].run = disk[path].run
        BY <2>1, <1>p
      <4> QED BY <3>1, <4>1
    <3> QED BY <3>2, <2>1 DEF Due
  <2> QED BY <2>1, <2>2 DEF InOrder, ReportStages
<1>8. CASE UNCHANGED vars
  <2>1. UNCHANGED <<config, run, pc, exit, rows, disk, before, said, compared>>
    BY <1>8 DEF vars, results
  <2>2. Progress
    BY <2>1 DEF Progress
  <2>3. ASSUME NEW path \in Paths PROVE Due(path)'
    BY <2>1, <2>2, <1>d, DueKept
  <2> QED BY <2>1, <2>3 DEF InOrder
<1> QED BY <1>1, <1>2, <1>3, <1>4, <1>5, <1>6, <1>7, <1>8, NextCases

(* A run that fails or is killed has not touched the files of later steps,    *)
(* whether or not options name the same file.                                *)
THEOREM OutputsOrdered == Spec => []OutputsInOrder
<1>1. InOrder => OutputsInOrder
  BY DEF InOrder, Due, OutputsInOrder
<1> QED BY <1>1, TypedInitially, TypedPreserved, HeldInitially, HeldPreserved,
        InOrderInitially, InOrderPreserved, PTL DEF Spec

-----------------------------------------------------------------------------
(* The two readings of the baseline.  The only file written to between them   *)
(* is the report: if it is another one, the second reading finds what the     *)
(* first found, and if it is the same, the second finds a report.             *)

Unread == {"report_open", "report_load", "report_read"}

Agreement ==
  /\ pc \notin {"report_body", "report_changes", "report_old", "report_now", "report_close",
                "failed", "close", "exited"} => reported = Note("nothing")
  /\ /\ pc \in AtCompare
     /\ config.baseline_save_path # NoPath
     /\ config.baseline_save_path = config.baseline_compare_path
     => disk[config.baseline_compare_path].run = run
  /\ pc \in AtPrint \cup Unread /\ config.baseline_compare_path # NoPath =>
       /\ read_mtr_baseline_stream(compared)
       /\ config.baseline_save_path = config.baseline_compare_path => compared.run = run
       /\ pc \in {"compare_print", "report_open"}
            \/ config.report_path # config.baseline_compare_path =>
            compared = disk[config.baseline_compare_path]
       /\ pc \in {"report_load", "report_read"}
            /\ config.report_path = config.baseline_compare_path =>
            disk[config.baseline_compare_path].kind = "report"
  /\ ReportAgreesWithComparison

LEMMA NotesAreNoFiles ==
  /\ \A t \in {"nothing", "no baseline", "cannot open", "refused", "read error"} :
       Note(t) \notin Content
  /\ \A t \in {"nothing", "no baseline", "cannot open", "read error"} :
       Note(t) # Note("refused")
<1>1. \A c \in Content : c.kind \in {"absent", "csv", "baseline", "report"}
  BY DEF Content, Absent, Note
<1>2. \A t \in {"nothing", "no baseline", "cannot open", "refused", "read error"} :
        Note(t).kind \notin {"absent", "csv", "baseline", "report"}
  BY DEF Note
<1>3. \A t \in {"nothing", "no baseline", "cannot open", "read error"} :
        Note(t).kind # Note("refused").kind
  BY DEF Note
<1> QED BY <1>1, <1>2, <1>3

(* A report that says nothing of a baseline agrees with whatever was compared. *)
LEMMA NothingSaid ==
  ASSUME reported \in {Note(t) : t \in {"nothing", "no baseline", "cannot open", "read error"}}
  PROVE  ReportAgreesWithComparison
  BY NotesAreNoFiles DEF ReportAgreesWithComparison

LEMMA AgreementInitially == Init => Agreement
  BY NothingSaid DEF Init, Agreement, AtCompare, AtPrint, Unread

LEMMA AgreementPreserved == Typed /\ Agreement /\ [Next]_vars => Agreement'
<1> SUFFICES ASSUME Typed, Agreement, [Next]_vars PROVE Agreement'
  OBVIOUS
<1>p. /\ config.baseline_compare_path \in Paths \cup {NoPath}
      /\ config.report_path \in Paths \cup {NoPath}
      /\ NoPath \notin Paths
  BY ConfigFacts DEF Typed, TypeOK, Config
<1>a. ASSUME UNCHANGED <<config, run, compared, reported>> PROVE ReportAgreesWithComparison'
  BY <1>a DEF Agreement, ReportAgreesWithComparison
<1>n. ASSUME reported' \in {Note(t) : t \in {"nothing", "no baseline", "cannot open", "read error"}}
      PROVE  ReportAgreesWithComparison'
  BY <1>n, NotesAreNoFiles DEF ReportAgreesWithComparison
<1> USE DEF AtCompare, AtPrint, Unread
<1>1. CASE CsvSteps
  <2>1. UNCHANGED <<config, run>>
    BY <1>1, SameRun
  <2>2. /\ reported' = reported /\ compared' = compared
        /\ pc \in {"csv_open", "header", "measure", "csv"}
        /\ \/ pc' \in {"header", "alloc", "measure"}
           \/ pc' = After(Position("csv"))
    BY <1>1 DEF CsvSteps, OpenCsv, WriteHeader, MeasureRow, WriteMtrCsv, Go, results
  <2>3. reported = Note("nothing")
    BY <2>2 DEF Agreement
  <2>4. ReportAgreesWithComparison'
    BY <2>1, <2>2, <1>a
  <2> QED BY <2>1, <2>2, <2>3, <2>4, NextSteps, PassedOver DEF Agreement, LaterSteps
<1>2. CASE Returns
  <2>1. UNCHANGED <<config, run>> /\ UNCHANGED results
    BY <1>2, SameRun, ReturnIsQuit
  <2>2. pc' = "exited"
    BY <1>2, ReturnIsQuit DEF Quit
  <2>3. ReportAgreesWithComparison'
    BY <2>1, <1>a DEF results
  <2> QED BY <2>2, <2>3 DEF Agreement
<1>3. CASE SaveSteps
  <2>1. UNCHANGED <<config, run>> /\ disk'[config.baseline_save_path].run = run
    BY <1>3, SameRun, SaveStepsWrite
  <2>2. /\ reported' = reported /\ compared' = compared
        /\ pc \in {"save_open", "save_write", "save_close"}
        /\ \/ pc' \in {"save_write", "save_close", "failed"}
           \/ pc' = After(Position("save_open"))
    BY <1>3 DEF SaveSteps, SaveOpen, SaveWrite, SaveWriteFails, SaveClose, Go, results
  <2>3. reported = Note("nothing")
    BY <2>2 DEF Agreement
  <2>4. ReportAgreesWithComparison'
    BY <2>1, <2>2, <1>a
  <2> QED BY <2>1, <2>2, <2>3, <2>4, NextSteps, PassedOver DEF Agreement
<1>4. CASE ReportSteps
  <2>1. /\ UNCHANGED <<config, run, compared, reported>>
        /\ \/ pc = "report_open" /\ pc' = "report_load"
           \/ pc' \in {"report_body", "report_changes", "report_old", "report_now",
                      "report_close", "failed", "close"}
    BY <1>4, ReportStepFlow DEF ReportStages
  <2>2. ReportAgreesWithComparison'
    BY <2>1, <1>a
  <2>3. CASE pc = "report_open" /\ pc' = "report_load"
    <3>1. reported = Note("nothing")
      BY <2>3 DEF Agreement
    <3>2. CASE config.baseline_compare_path = NoPath
      BY <2>1, <2>2, <2>3, <3>1, <3>2 DEF Agreement
    <3>3. CASE config.baseline_compare_path # NoPath
      <4>1. /\ read_mtr_baseline_stream(compared)
            /\ config.baseline_save_path = config.baseline_compare_path => compared.run = run
            /\ compared = disk[config.baseline_compare_path]
        BY <2>3, <3>3 DEF Agreement
      <4>2. config.report_path # config.baseline_compare_path =>
              disk'[config.baseline_compare_path] = disk[config.baseline_compare_path]
        BY <1>4, <1>p, <3>3, ReportStepsWrite
      <4>3. config.report_path = config.baseline_compare_path =>
              disk'[config.baseline_compare_path].kind = "report"
        BY <1>4, ReportStepsWrite
      <4>4. read_mtr_baseline_stream(compared')
        BY <4>1, <2>1
      <4> QED BY <2>1, <2>2, <2>3, <3>1, <4>1, <4>2, <4>3, <4>4 DEF Agreement
    <3> QED BY <3>2, <3>3
  <2>4. CASE pc' \in {"report_body", "report_changes", "report_old", "report_now",
                      "report_close", "failed", "close"}
    BY <2>2, <2>4 DEF Agreement
  <2> QED BY <2>1, <2>3, <2>4
<1>5. CASE NoBaseline
  <2>1. /\ pc' = "report_body"
        /\ reported' \in {Note("no baseline"), Note("cannot open")}
    BY <1>5 DEF NoBaseline, Loaded, Go
  <2> QED BY <2>1, <1>n DEF Agreement
<1>6. CASE OpenBaselineAgain
  <2>1. /\ UNCHANGED <<config, run, disk, compared, reported>>
        /\ pc = "report_load" /\ pc' = "report_read"
    BY <1>6 DEF OpenBaselineAgain, Go, results
  <2>2. ReportAgreesWithComparison'
    BY <2>1, <1>a
  <2>3. read_mtr_baseline_stream(compared) <=> read_mtr_baseline_stream(compared')
    BY <2>1
  <2> QED BY <2>1, <2>2, <2>3 DEF Agreement
<1>7. CASE ReadBaselineAgain
  <2> DEFINE content == disk[config.baseline_compare_path]
  <2>1. /\ UNCHANGED <<config, run, compared>>
        /\ pc = "report_read" /\ pc' = "report_body"
        /\ \/ read_mtr_baseline_stream(content) /\ reported' = content
           \/ ~read_mtr_baseline_stream(content) /\ reported' = Note("refused")
           \/ reported' = Note("read error")
    BY <1>7 DEF ReadBaselineAgain, Loaded, Go
  <2>2. config.baseline_compare_path # NoPath
    BY <2>1 DEF Typed, PathGiven
  <2>3. /\ read_mtr_baseline_stream(compared)
        /\ config.baseline_save_path = config.baseline_compare_path => compared.run = run
        /\ config.report_path # config.baseline_compare_path => compared = content
        /\ config.report_path = config.baseline_compare_path => content.kind = "report"
    BY <2>1, <2>2 DEF Agreement
  <2>4. ReportAgreesWithComparison'
    <3>1. CASE reported' = Note("read error")
      BY <3>1, <1>n
    <3>2. CASE read_mtr_baseline_stream(content) /\ reported' = content
      <4>1. config.report_path # config.baseline_compare_path
        BY <3>2, <2>3 DEF read_mtr_baseline_stream
      <4>2. content \in Content
        BY <2>2, <1>p DEF Typed, TypeOK
      <4>3. reported' # Note("refused")
        BY <3>2, <4>2, NotesAreNoFiles
      <4> QED BY <2>1, <2>3, <3>2, <4>1, <4>3 DEF ReportAgreesWithComparison
    <3>3. CASE ~read_mtr_baseline_stream(content) /\ reported' = Note("refused")
      <4>1. config.report_path = config.baseline_compare_path
        BY <3>3, <2>3
      <4>2. reported' \notin Content
        BY <3>3, NotesAreNoFiles
      <4> QED BY <2>1, <4>1, <4>2 DEF ReportAgreesWithComparison
    <3> QED BY <2>1, <3>1, <3>2, <3>3
  <2> QED BY <2>1, <2>4 DEF Agreement
<1>8. CASE OtherSteps
  <2>1. UNCHANGED <<config, run, disk>>
    BY <1>8, SameRun, OtherStepsWrite
  <2>2. CASE \/ Resolve \/ OpenSocket \/ Alloc \/ SaveOpenFails \/ CompareOpen
             \/ CompareOpenFails \/ CompareReadFails \/ ComparePrintFails
             \/ ReportOpenFails \/ Killed
    <3>1. /\ UNCHANGED <<compared, reported>>
          /\ \/ pc = "compare_open" /\ pc' = "compare_read"
             \/ pc' \in {"failed", "exited"}
             \/ pc \in {"resolve", "socket", "alloc"}
                  /\ pc' \in {"socket", "csv_open", "alloc", "measure"}
      BY <2>2 DEF Resolve, OpenSocket, Alloc, AfterSocket, SaveOpenFails, CompareOpen,
         CompareOpenFails, CompareReadFails, ComparePrintFails, ReportOpenFails, Killed, Go,
         results
    <3>2. ReportAgreesWithComparison'
      BY <2>1, <3>1, <1>a
    <3> QED BY <2>1, <3>1, <3>2 DEF Agreement
  <2>3. CASE Measured
    <3>1. /\ reported' = reported /\ compared' = compared
          /\ pc = "measure"
          /\ pc' = After(0) \/ pc' = "close"
      BY <2>3 DEF Measured, Go, results
    <3>2. reported = Note("nothing")
      BY <3>1 DEF Agreement
    <3>3. ReportAgreesWithComparison'
      BY <2>1, <3>1, <1>a
    <3> QED BY <3>1, <3>2, <3>3, <2>1, NextSteps, PassedOver DEF Agreement, LaterSteps
  <2>4. CASE CompareRead
    <3>1. /\ reported' = reported
          /\ pc = "compare_read" /\ pc' = "compare_print"
          /\ compared' = disk[config.baseline_compare_path]
          /\ read_mtr_baseline_stream(compared')
      BY <2>4 DEF CompareRead, Go
    <3>2. reported = Note("nothing")
      BY <3>1 DEF Agreement
    <3>3. ReportAgreesWithComparison'
      BY <3>1, <3>2, <1>n
    <3> QED BY <3>1, <3>2, <3>3, <2>1 DEF Agreement
  <2>5. CASE ComparePrint
    <3>1. /\ UNCHANGED <<compared, reported>>
          /\ pc = "compare_print" /\ pc' = After(Position("compare_open"))
      BY <2>5 DEF ComparePrint, Go, results
    <3>2. ReportAgreesWithComparison'
      BY <2>1, <3>1, <1>a
    <3>3. read_mtr_baseline_stream(compared) <=> read_mtr_baseline_stream(compared')
      BY <3>1
    <3> QED BY <3>1, <3>2, <3>3, <2>1, NextSteps DEF Agreement
  <2> QED BY <1>8, <2>2, <2>3, <2>4, <2>5 DEF OtherSteps
<1>9. CASE NextRun
  <2>1. reported' = Note("nothing") /\ pc' = "resolve"
    BY <1>9 DEF NextRun
  <2> QED BY <2>1, <1>n DEF Agreement
<1>10. CASE UNCHANGED vars
  <2>1. UNCHANGED <<config, run, pc, disk, compared, reported>>
    BY <1>10 DEF vars, results
  <2>2. ReportAgreesWithComparison'
    BY <2>1, <1>a
  <2>3. read_mtr_baseline_stream(compared) <=> read_mtr_baseline_stream(compared')
    BY <2>1
  <2> QED BY <2>1, <2>2, <2>3 DEF Agreement
<1> QED BY <1>1, <1>2, <1>3, <1>4, <1>5, <1>6, <1>7, <1>8, <1>9, <1>10, NextCases DEF LoadSteps

(* Both readings of the baseline find the same: the report compares with the  *)
(* very baseline the terminal output compared with, and with the new one if   *)
(* the run has just saved it there; the second reading refuses the file only  *)
(* if the report itself is written to it, and never accepts it then.           *)
THEOREM ReportAgrees == Spec => []ReportAgreesWithComparison
<1>1. Agreement => ReportAgreesWithComparison
  BY DEF Agreement
<1> QED BY <1>1, TypedInitially, TypedPreserved, AgreementInitially, AgreementPreserved, PTL
        DEF Spec
=============================================================================
