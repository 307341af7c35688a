------------------------------ MODULE Session -------------------------------
(***************************************************************************)
(* What a run owns and what it leaves behind: the resources of runtime.c,  *)
(* the order of steps of run_ping_mode, run_trace_mode and run_mtr_mode,   *)
(* and the files they write (CSV, baseline, report) through buffered       *)
(* streams.  Every system call may fail, and the process may be killed     *)
(* between any two steps.  Runs follow each other on the same disk, so     *)
(* that one run compares with the baseline another one saved.  The         *)
(* measurement itself is in Mtr, Trace and Icmp.                           *)
(***************************************************************************)
EXTENDS Naturals, Sequences

CONSTANTS
  Paths,      \* files, whatever names they are given by
  NoPath,     \* an option that was not given (NULL)
  Configs,    \* configurations that parse_cli accepts
  MaxRun      \* bound: number of runs

Config ==
  [mode : {"ping", "trace", "mtr"}, output_path : Paths \cup {NoPath},
   baseline_save_path : Paths \cup {NoPath}, baseline_compare_path : Paths \cup {NoPath},
   report_path : Paths \cup {NoPath}]

(* parse_cli takes baseline and report options only with --mtr.  It does not  *)
(* compare the paths: several options may name one file.                     *)
Accepted(c) ==
  c.mode # "mtr" => {c.baseline_save_path, c.baseline_compare_path, c.report_path} = {NoPath}

ASSUME PathAssumption == NoPath \notin Paths
ASSUME ConfigsAssumption == \A c \in Configs : c \in Config /\ Accepted(c)
ASSUME MaxRunAssumption == MaxRun \in Nat \ {0}

VARIABLES
  config,     \* configuration of the run
  run,        \* number of the run
  pc,         \* next step of the run; "exited" after main has returned
  exit,       \* exit code; "KILLED" when the process was killed, "" before
  held,       \* resources the process owns
  rows,       \* how much of the CSV was handed to stdio: "none", "some", "all"
  disk,       \* path -> what is on the disk
  said,       \* completion messages printed: "saved", "reported"
  compared,   \* ghost: what the first reading found, Absent before
  reported,   \* ghost: what the second reading found, for the report
  before      \* ghost: the disk when the run started

results == <<said, compared, reported>>
vars == <<config, run, pc, exit, held, rows, disk, results, before>>

(* write_mtr_report opens the baseline once more, as a stream of its own. *)
Resources == {"socket", "csv", "stats", "save", "compare", "report", "report_baseline"}

-----------------------------------------------------------------------------
(* Files.  "part" tells what is there of a file: a "partial" one is cut off   *)
(* where the reader of a baseline does not notice (between two lines, in the *)
(* metadata, in the last field of a row), a "broken" one where it does (in   *)
(* its first line, in an earlier field of a row); see Baseline.  A file that *)
(* two streams wrote to is one or the other.                                 *)

Note(text) == [kind |-> text, run |-> 0, part |-> "empty"]

Absent == Note("absent")

Content ==
  {Absent} \cup
  [kind : {"csv", "baseline", "report"}, run : 0..MaxRun,
   part : {"empty", "partial", "broken", "whole"}]

(* What a report can say of the baseline: the one it compares with, or why    *)
(* there is none.  A file that is refused and one that gives a read error are *)
(* the same remark in the report.                                            *)
Remarks ==
  Content \cup
  {Note(t) : t \in {"nothing", "no baseline", "cannot open", "refused", "read error"}}

File(kind, part) == [kind |-> kind, run |-> run, part |-> part]

(* read_mtr_baseline_stream accepts c: its first line is the magic, and every *)
(* row has its eleven fields.  How many rows there should be is not checked.  *)
read_mtr_baseline_stream(c) == c.kind = "baseline" /\ c.part \in {"partial", "whole"}

(* fopen(path, "w"): whatever was there is gone. *)
Truncate(path, kind) == disk' = [disk EXCEPT ![path] = File(kind, "empty")]

(* stdio passes a part of what it was given on to the file, or keeps it all.  *)
Flush(path, kind) ==
  \E part \in {"empty", "partial", "broken"} :
    /\ part = "empty" => disk[path].part = "empty"
    /\ disk' = [disk EXCEPT ![path] = File(kind, part)]

(* fclose passes on the rest. *)
FlushAll(path, kind) == disk' = [disk EXCEPT ![path] = File(kind, "whole")]

-----------------------------------------------------------------------------
(* Order of the steps. *)

(* Mutant: a CSV file is opened whether or not one was asked for. *)
CsvWithoutOption == "csv_open"

AfterSocket == IF config.output_path # NoPath THEN "csv_open" ELSE "alloc"

(* Mutants: the baseline is saved before the CSV is written; it is compared   *)
(* before it is saved.                                                       *)
SavesFirst == <<"save_open", "csv", "compare_open", "report_open", "close">>
ComparesFirst == <<"csv", "compare_open", "save_open", "report_open", "close">>

(* What run_mtr_mode does after its measurement. *)
Order == <<"csv", "save_open", "compare_open", "report_open", "close">>

Wanted(step) ==
  /\ step = "csv" => config.output_path # NoPath
  /\ step = "save_open" => config.baseline_save_path # NoPath
  /\ step = "compare_open" => config.baseline_compare_path # NoPath
  /\ step = "report_open" => config.report_path # NoPath

(* The first step wanted behind the i-th. *)
After(i) ==
  Order[CHOOSE j \in (i + 1)..Len(Order) :
          Wanted(Order[j]) /\ \A k \in (i + 1)..(j - 1) : ~Wanted(Order[k])]

Position(step) == CHOOSE i \in 1..Len(Order) : Order[i] = step

(* What the CSV stream still writes when the file has meanwhile been          *)
(* truncated and written by another stream of this run: nothing, or a piece  *)
(* over the other's text.                                                    *)
WriteOver(path, kind) ==
  /\ disk[path].kind # kind
  /\ \/ UNCHANGED disk
     \/ \E part \in {"partial", "broken"} : disk' = [disk EXCEPT ![path].part = part]

(* fclose of the CSV stream; whether it succeeds is not looked at. *)
CloseCsv ==
  IF "csv" \in held
  THEN \/ rows = "all" /\ FlushAll(config.output_path, "csv")
       \/ Flush(config.output_path, "csv")
       \/ WriteOver(config.output_path, "csv")
  ELSE UNCHANGED disk

(* The run returns: what it frees itself, then runtime_close. *)
Quit(code, freed) ==
  /\ pc' = "exited"
  /\ exit' = code
  /\ held' = held \ (freed \cup {"socket", "csv"})
  /\ CloseCsv
  /\ UNCHANGED <<config, run, rows, before>>

Go(step) == pc' = step /\ UNCHANGED <<config, run, exit, before>>

Init ==
  /\ config \in Configs
  /\ run = 1
  /\ pc = "resolve"
  /\ exit = ""
  /\ held = {}
  /\ rows = "none"
  /\ disk \in [Paths -> {Absent, [kind |-> "baseline", run |-> 0, part |-> "whole"]}]
  /\ said = {}
  /\ compared = Absent
  /\ reported = Note("nothing")
  /\ before = disk

-----------------------------------------------------------------------------
(* runtime_open. *)

Resolve ==
  /\ pc = "resolve"
  /\ Go("socket")
  /\ UNCHANGED <<held, rows, disk, results>>

ResolveFails ==
  /\ pc = "resolve"
  /\ Quit("ERR_DNS", {})
  /\ UNCHANGED results

OpenSocket ==
  /\ pc = "socket"
  /\ held' = held \cup {"socket"}
  /\ Go(AfterSocket)
  /\ UNCHANGED <<rows, disk, results>>

OpenSocketFails ==
  /\ pc = "socket"
  /\ Quit("ERR_SOCKET", {})
  /\ UNCHANGED results

OpenCsv ==
  /\ pc = "csv_open"
  /\ held' = held \cup {"csv"}
  /\ Truncate(config.output_path, "csv")
  /\ Go("header")
  /\ UNCHANGED <<rows, results>>

WriteHeader ==
  /\ pc = "header"
  /\ Flush(config.output_path, "csv")
  /\ Go("alloc")
  /\ UNCHANGED <<held, rows, results>>

(* fopen or the header fails. *)
CsvFailsToOpen ==
  /\ pc \in {"csv_open", "header"}
  /\ Quit("ERR_IO", {})
  /\ UNCHANGED results

-----------------------------------------------------------------------------
(* The measurement. *)

(* calloc for the results; run_trace_mode needs none. *)
Alloc ==
  /\ pc = "alloc"
  /\ held' = IF config.mode = "trace" THEN held ELSE held \cup {"stats"}
  /\ Go("measure")
  /\ UNCHANGED <<rows, disk, results>>

AllocFails ==
  /\ pc = "alloc"
  /\ config.mode # "trace"
  /\ Quit("ERR_GENERAL", {})
  /\ UNCHANGED results

(* run_ping_mode and run_trace_mode write a row as soon as they have it. *)
MeasureRow ==
  /\ pc = "measure"
  /\ config.mode # "mtr"
  /\ "csv" \in held
  /\ rows' = "some"
  /\ Flush(config.output_path, "csv")
  /\ UNCHANGED <<config, run, pc, exit, held, results, before>>

MeasureRowFails ==
  /\ pc = "measure"
  /\ config.mode # "mtr"
  /\ "csv" \in held
  /\ Quit("ERR_IO", {"stats"})
  /\ UNCHANGED results

Measured ==
  /\ pc = "measure"
  /\ rows' = IF config.mode # "mtr" THEN "all" ELSE rows
  /\ Go(IF config.mode = "mtr" THEN After(0) ELSE "close")
  /\ UNCHANGED <<held, disk, results>>

-----------------------------------------------------------------------------
(* What run_mtr_mode does with the measurement. *)

WriteMtrCsv ==
  /\ pc = "csv"
  /\ rows' = "all"
  /\ Flush(config.output_path, "csv")
  /\ Go(After(Position("csv")))
  /\ UNCHANGED <<held, results>>

WriteMtrCsvFails ==
  /\ pc = "csv"
  /\ Quit("ERR_IO", {"stats"})
  /\ UNCHANGED results

SaveOpen ==
  /\ pc = "save_open"
  /\ held' = held \cup {"save"}
  /\ Truncate(config.baseline_save_path, "baseline")
  /\ Go("save_write")
  /\ UNCHANGED <<rows, results>>

SaveWrite ==
  /\ pc = "save_write"
  /\ Flush(config.baseline_save_path, "baseline")
  /\ Go("save_close")
  /\ UNCHANGED <<held, rows, results>>

SaveOpenFails ==
  /\ pc = "save_open"
  /\ Go("failed")
  /\ UNCHANGED <<held, rows, disk, results>>

SaveWriteFails ==
  /\ pc = "save_write"
  /\ Flush(config.baseline_save_path, "baseline")
  /\ held' = held \ {"save"}
  /\ Go("failed")
  /\ UNCHANGED <<rows, results>>

(* fclose, whether or not it succeeds, and the message. *)
SaveClose ==
  /\ pc = "save_close"
  /\ held' = held \ {"save"}
  /\ \/ FlushAll(config.baseline_save_path, "baseline")
     \/ Flush(config.baseline_save_path, "baseline")
  /\ said' = said \cup {"saved"}
  /\ Go(After(Position("save_open")))
  /\ UNCHANGED <<rows, compared, reported>>

CompareOpen ==
  /\ pc = "compare_open"
  /\ disk[config.baseline_compare_path] # Absent
  /\ held' = held \cup {"compare"}
  /\ Go("compare_read")
  /\ UNCHANGED <<rows, disk, results>>

(* The baseline is read and its stream closed. *)
CompareRead ==
  /\ pc = "compare_read"
  /\ read_mtr_baseline_stream(disk[config.baseline_compare_path])
  /\ held' = held \ {"compare"}
  /\ compared' = disk[config.baseline_compare_path]
  /\ Go("compare_print")
  /\ UNCHANGED <<rows, disk, said, reported>>

ComparePrint ==
  /\ pc = "compare_print"
  /\ Go(After(Position("compare_open")))
  /\ UNCHANGED <<held, rows, disk, results>>

CompareOpenFails ==
  /\ pc = "compare_open"
  /\ Go("failed")
  /\ UNCHANGED <<held, rows, disk, results>>

(* The file is not a baseline or cannot be read. *)
CompareReadFails ==
  /\ pc = "compare_read"
  /\ held' = held \ {"compare"}
  /\ Go("failed")
  /\ UNCHANGED <<rows, disk, results>>

(* The terminal cannot be written to. *)
ComparePrintFails ==
  /\ pc = "compare_print"
  /\ Go("failed")
  /\ UNCHANGED <<held, rows, disk, results>>

ReportOpen ==
  /\ pc = "report_open"
  /\ held' = held \cup {"report"}
  /\ Truncate(config.report_path, "report")
  /\ Go("report_load")
  /\ UNCHANGED <<rows, results>>

ReportOpenFails ==
  /\ pc = "report_open"
  /\ Go("failed")
  /\ UNCHANGED <<held, rows, disk, results>>

(* The report goes on with what is known of the baseline. *)
Loaded(remark) ==
  /\ reported' = remark
  /\ Go("report_body")
  /\ UNCHANGED <<rows, disk, said, compared>>

(* No baseline was asked for, or it cannot be opened: no failure. *)
NoBaseline ==
  /\ pc = "report_load"
  /\ Loaded(IF config.baseline_compare_path = NoPath
            THEN Note("no baseline") ELSE Note("cannot open"))
  /\ UNCHANGED held

OpenBaselineAgain ==
  /\ pc = "report_load"
  /\ config.baseline_compare_path # NoPath
  /\ disk[config.baseline_compare_path] # Absent
  /\ held' = held \cup {"report_baseline"}
  /\ Go("report_read")
  /\ UNCHANGED <<rows, disk, results>>

(* Mutant: the stream is only closed after a good reading. *)
ClosesWhenRead ==
  /\ pc = "report_read"
  /\ LET content == disk[config.baseline_compare_path] IN
       IF read_mtr_baseline_stream(content)
       THEN \/ Loaded(content) /\ held' = held \ {"report_baseline"}
            \/ Loaded(Note("read error")) /\ UNCHANGED held
       ELSE Loaded(Note("refused")) /\ UNCHANGED held

(* A baseline that cannot be read is noted in the report, and no failure. *)
ReadBaselineAgain ==
  /\ pc = "report_read"
  /\ held' = held \ {"report_baseline"}
  /\ LET content == disk[config.baseline_compare_path] IN
       \/ Loaded(IF read_mtr_baseline_stream(content) THEN content ELSE Note("refused"))
       \/ Loaded(Note("read error"))

(* The parts of the report; the changes and the old hops need a baseline. *)
ReportBody ==
  /\ pc = "report_body"
  /\ Flush(config.report_path, "report")
  /\ Go(IF reported \in Content THEN "report_changes" ELSE "report_now")
  /\ UNCHANGED <<held, rows, results>>

ReportChanges ==
  /\ pc = "report_changes"
  /\ Flush(config.report_path, "report")
  /\ Go("report_old")
  /\ UNCHANGED <<held, rows, results>>

ReportOld ==
  /\ pc = "report_old"
  /\ Flush(config.report_path, "report")
  /\ Go("report_now")
  /\ UNCHANGED <<held, rows, results>>

ReportNow ==
  /\ pc = "report_now"
  /\ Flush(config.report_path, "report")
  /\ Go("report_close")
  /\ UNCHANGED <<held, rows, results>>

(* ferror after a part: each of the four has a return of its own. *)
GiveUpReport(part) ==
  /\ pc = part
  /\ Flush(config.report_path, "report")
  /\ held' = held \ {"report"}
  /\ Go("failed")
  /\ UNCHANGED <<rows, results>>

ReportBodyFails == GiveUpReport("report_body")
ReportChangesFail == GiveUpReport("report_changes")
ReportOldFails == GiveUpReport("report_old")
ReportNowFails == GiveUpReport("report_now")

(* Mutant: fclose is not checked, as in save_mtr_baseline. *)
ReportCloseUnchecked ==
  /\ pc = "report_close"
  /\ held' = held \ {"report"}
  /\ \/ FlushAll(config.report_path, "report")
     \/ Flush(config.report_path, "report")
  /\ said' = said \cup {"reported"}
  /\ Go("close")
  /\ UNCHANGED <<rows, compared, reported>>

ReportClose ==
  /\ pc = "report_close"
  /\ held' = held \ {"report"}
  /\ FlushAll(config.report_path, "report")
  /\ said' = said \cup {"reported"}
  /\ Go("close")
  /\ UNCHANGED <<rows, compared, reported>>

(* fclose fails. *)
ReportCloseFails ==
  /\ pc = "report_close"
  /\ Flush(config.report_path, "report")
  /\ held' = held \ {"report"}
  /\ Go("failed")
  /\ UNCHANGED <<rows, results>>

(* One of the three steps returned an error to run_mtr_mode. *)
GiveUp ==
  /\ pc = "failed"
  /\ Quit("ERR_IO", {"stats"})
  /\ UNCHANGED results

Close ==
  /\ pc = "close"
  /\ Quit("OK", {"stats"})
  /\ UNCHANGED results

-----------------------------------------------------------------------------
(* The process is killed (Ctrl-C: no signal is handled): the system takes     *)
(* back what it held, and what stdio had not passed on is lost.              *)
Killed ==
  /\ pc # "exited"
  /\ pc' = "exited"
  /\ exit' = "KILLED"
  /\ held' = {}
  /\ UNCHANGED <<config, run, rows, disk, results, before>>

(* The next run finds the files of this one. *)
NextRun ==
  /\ pc = "exited"
  /\ run < MaxRun
  /\ config' \in Configs
  /\ run' = run + 1
  /\ pc' = "resolve"
  /\ exit' = ""
  /\ held' = {}
  /\ rows' = "none"
  /\ said' = {}
  /\ compared' = Absent
  /\ reported' = Note("nothing")
  /\ before' = disk
  /\ UNCHANGED disk

NoMoreRuns == pc = "exited" /\ run = MaxRun /\ UNCHANGED vars

Next ==
  \/ Resolve \/ ResolveFails \/ OpenSocket \/ OpenSocketFails
  \/ OpenCsv \/ WriteHeader \/ CsvFailsToOpen
  \/ Alloc \/ AllocFails \/ MeasureRow \/ MeasureRowFails \/ Measured
  \/ WriteMtrCsv \/ WriteMtrCsvFails
  \/ SaveOpen \/ SaveOpenFails \/ SaveWrite \/ SaveWriteFails \/ SaveClose
  \/ CompareOpen \/ CompareOpenFails \/ CompareRead \/ CompareReadFails
  \/ ComparePrint \/ ComparePrintFails
  \/ ReportOpen \/ ReportOpenFails
  \/ NoBaseline \/ OpenBaselineAgain \/ ReadBaselineAgain
  \/ ReportBody \/ ReportBodyFails \/ ReportChanges \/ ReportChangesFail
  \/ ReportOld \/ ReportOldFails \/ ReportNow \/ ReportNowFails
  \/ ReportClose \/ ReportCloseFails
  \/ GiveUp \/ Close \/ Killed \/ NextRun \/ NoMoreRuns

Spec == Init /\ [][Next]_vars

-----------------------------------------------------------------------------
(* Properties. *)

(* Types of the variables; a CSV stream is there only if one was asked for. *)
TypeOK ==
  /\ config \in Configs /\ run \in 1..MaxRun
  /\ pc \in {"resolve", "socket", "csv_open", "header", "alloc", "measure", "csv",
            "save_open", "save_write", "save_close", "compare_open", "compare_read",
            "compare_print", "report_open", "report_load", "report_read", "report_body",
            "report_changes", "report_old", "report_now", "report_close", "failed", "close",
            "exited"}
  /\ exit \in {"", "OK", "ERR_GENERAL", "ERR_SOCKET", "ERR_DNS", "ERR_IO", "KILLED"}
  /\ held \subseteq Resources /\ ("csv" \in held => config.output_path # NoPath)
  /\ rows \in {"none", "some", "all"}
  /\ disk \in [Paths -> Content] /\ before \in [Paths -> Content]
  /\ said \subseteq {"saved", "reported"}
  /\ compared \in Content
  /\ reported \in Remarks

(* Whichever of its many returns a run takes, it has closed its socket and    *)
(* every stream, the one on which the report reads the baseline once more     *)
(* included, and freed its results (runtime.c:17-73, mtr.c:124-204,          *)
(* ping.c:28-70, baseline.c:529-691).                                        *)
NothingLeaks == pc = "exited" => held = {}

(* What a run may have left in path, and what must be done by then. *)
OutputDue(path) ==
  LET file == disk[path]
      csvDone == config.output_path # NoPath => rows = "all"
  IN /\ file.run = run
     /\ \/ file.kind = "csv" /\ path = config.output_path
        \/ file.kind = "baseline" /\ path = config.baseline_save_path /\ csvDone
        \/ /\ file.kind = "report" /\ path = config.report_path /\ csvDone
           /\ config.baseline_save_path # NoPath => "saved" \in said
           /\ config.baseline_compare_path # NoPath => compared # Absent

(* A run that fails or is killed has not touched the files of later steps:    *)
(* no file at all without a target and a socket; a baseline is only written   *)
(* where one was to be saved, when every CSV row was handed to the stream; a  *)
(* report only when the baseline was saved and compared as well, whether or   *)
(* not options name the same file (runtime.c:32-57, mtr.c:170-200).          *)
OutputsInOrder ==
  /\ exit \in {"ERR_DNS", "ERR_SOCKET"} => disk = before
  /\ \A path \in Paths : disk[path] # before[path] => OutputDue(path)

(* When a run says that it has stored its report, the whole report is in the  *)
(* file, until the CSV stream is closed if --output names that very file; a   *)
(* run that was asked for a report succeeds only then                        *)
(* (baseline.c:686-690, mtr.c:193-200, runtime.c:65-68).                     *)
ReportIsStored ==
  /\ "reported" \in said /\ (config.report_path # config.output_path \/ pc # "exited")
       => disk[config.report_path] = File("report", "whole")
  /\ exit = "OK" /\ config.report_path # NoPath => "reported" \in said

(* Both readings of the baseline find the same: the report compares with the  *)
(* very baseline the terminal output compared with, and with the new one if   *)
(* the run has just saved it there; the second reading refuses the file only  *)
(* if the report itself is written to it, and never accepts it then           *)
(* (mtr.c:177-200, baseline.c:602-620).                                      *)
ReportAgreesWithComparison ==
  /\ reported \in Content =>
       /\ reported = compared
       /\ config.baseline_save_path = config.baseline_compare_path => reported.run = run
       /\ config.report_path # config.baseline_compare_path
  /\ reported = Note("refused") => config.report_path = config.baseline_compare_path

(* When a run says that it has saved a baseline, the whole baseline is in the *)
(* file (baseline.c:541-542).                                                *)
SavedBaselineIsStored ==
  "saved" \in said => disk[config.baseline_save_path] = File("baseline", "whole")
=============================================================================
