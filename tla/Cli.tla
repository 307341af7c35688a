-------------------------------- MODULE Cli ---------------------------------
(***************************************************************************)
(* parse_cli (cli.c) and the dispatch of main.c.  The words of the command *)
(* line are chosen one by one, as the loop reads them: what it never reads *)
(* (behind an error, --help or --version) makes no difference.  NULL, a    *)
(* field that was not given, is "", which is therefore no word.            *)
(***************************************************************************)
EXTENDS Integers, Sequences, TLC

CONSTANTS
  Words,        \* words a command line may have
  Numbers,      \* those that strtol reads to their end: word -> integer
  Dashed,       \* those that begin with "--" and are the name of no option
  MaxArgs       \* bound: words of a command line

ASSUME WordsAssumption ==
  "" \notin Words /\ DOMAIN Numbers \subseteq Words /\ Dashed \subseteq Words
ASSUME MaxArgsAssumption == MaxArgs \in Nat

Option(long, short, type, min, max) ==
  [names |-> {long, short}, type |-> type, min |-> min, max |-> max]
INT_OPTION(long, short, min, max) == Option(long, short, "INT", min, max)
BOOL_OPTION(long, short) == Option(long, short, "BOOL", 0, 0)
STRING_OPTION(long, short) == Option(long, short, "STRING", 0, 0)

OPTIONS ==
  [count |-> INT_OPTION("--count", "--c", 1, 100000),
   interval_ms |-> INT_OPTION("--interval", "--i", 10, 60000),
   timeout_ms |-> INT_OPTION("--timeout", "--to", 1, 60000),
   trace |-> BOOL_OPTION("--trace", "--tr"),
   mtr |-> BOOL_OPTION("--mtr", "--mt"),
   max_hop |-> INT_OPTION("--max-hop", "--mh", 1, 255),
   trace_attempts |-> INT_OPTION("--trace-attempts", "--ta", 1, 10),
   show_timeouts |-> BOOL_OPTION("--show-timeouts", "--st"),
   output_path |-> STRING_OPTION("--output", "--o"),
   baseline_save_path |-> STRING_OPTION("--baseline-save", "--bs"),
   baseline_compare_path |-> STRING_OPTION("--baseline-compare", "--bc"),
   report_path |-> STRING_OPTION("--report", "--rp"),
   graph_enabled |-> BOOL_OPTION("--graph", "--g"),
   help |-> BOOL_OPTION("--help", "--h"),
   version |-> BOOL_OPTION("--version", "--v")]

Fields == DOMAIN OPTIONS

exits_early == {"help", "version"}

(* The aliases are not ambiguous (cli.c:99), and no name is for a word that  *)
(* is no option.                                                             *)
ASSUME NamesAssumption ==
  /\ \A f, g \in Fields : f # g => OPTIONS[f].names \cap OPTIONS[g].names = {}
  /\ \A f \in Fields : OPTIONS[f].names \cap (Dashed \cup DOMAIN Numbers) = {}

(* The fields whose option arg is: none or one. *)
find_option(arg) == {f \in Fields : arg \in OPTIONS[f].names}

parse_int_range(arg, f) ==
  arg \in DOMAIN Numbers /\ Numbers[arg] \in OPTIONS[f].min..OPTIONS[f].max

VARIABLES
  argv,     \* ghost: the words read so far
  config,   \* RouteProbeConfig
  pc,       \* "word", "value" of an option, "parsed", "main", "exit"
  option,   \* the option that waits for its value
  rc,       \* what parse_cli returns
  mode      \* what main does: a mode, "help", "version", "usage"

vars == <<argv, config, pc, option, rc, mode>>

config_init_defaults ==
  [target |-> "", count |-> 4, interval_ms |-> 1000, timeout_ms |-> 1000, trace |-> FALSE,
   mtr |-> FALSE, max_hop |-> 30, trace_attempts |-> 3, show_timeouts |-> FALSE,
   output_path |-> "", baseline_save_path |-> "", baseline_compare_path |-> "",
   report_path |-> "", graph_enabled |-> FALSE, help |-> FALSE, version |-> FALSE]

Init ==
  /\ argv = <<>>
  /\ config = config_init_defaults
  /\ pc = "word"
  /\ option = "none"
  /\ rc = "OK"
  /\ mode = "none"

-----------------------------------------------------------------------------
Read(arg) == Len(argv) < MaxArgs /\ argv' = Append(argv, arg)

Fail == pc' = "main" /\ rc' = "ERR_USAGE" /\ UNCHANGED <<config, option, mode>>

(* Where the loop goes after a flag: --help and --version end it. *)
AfterFlag(f) == IF f \in exits_early THEN "main" ELSE "word"

Flag(arg) ==
  /\ pc = "word"
  /\ Read(arg)
  /\ \E f \in find_option(arg) :
       /\ OPTIONS[f].type = "BOOL"
       /\ config' = [config EXCEPT ![f] = TRUE]
       /\ pc' = AfterFlag(f)
  /\ UNCHANGED <<option, rc, mode>>

(* An option whose value is the next word. *)
OptionName(arg) ==
  /\ pc = "word"
  /\ Read(arg)
  /\ \E f \in find_option(arg) : OPTIONS[f].type # "BOOL" /\ option' = f
  /\ pc' = "value"
  /\ UNCHANGED <<config, rc, mode>>

(* Mutant: a path that was given before is kept. *)
FirstStringWins(arg) ==
  /\ pc = "value"
  /\ Read(arg)
  /\ OPTIONS[option].type = "STRING"
  /\ config' = [config EXCEPT ![option] = IF @ = "" THEN arg ELSE @]
  /\ pc' = "word"
  /\ UNCHANGED <<option, rc, mode>>

(* Any word will do as a path, the name of an option as well. *)
StringValue(arg) ==
  /\ pc = "value"
  /\ Read(arg)
  /\ OPTIONS[option].type = "STRING"
  /\ config' = [config EXCEPT ![option] = arg]
  /\ pc' = "word"
  /\ UNCHANGED <<option, rc, mode>>

IntValue(arg) ==
  /\ pc = "value"
  /\ Read(arg)
  /\ OPTIONS[option].type = "INT"
  /\ parse_int_range(arg, option)
  /\ config' = [config EXCEPT ![option] = Numbers[arg]]
  /\ pc' = "word"
  /\ UNCHANGED <<option, rc, mode>>

BadIntValue(arg) ==
  /\ pc = "value"
  /\ Read(arg)
  /\ OPTIONS[option].type = "INT"
  /\ ~parse_int_range(arg, option)
  /\ Fail

(* require_value at the end of the command line. *)
NoValue ==
  /\ pc = "value"
  /\ Fail
  /\ UNCHANGED argv

UnknownOption(arg) ==
  /\ pc = "word"
  /\ Read(arg)
  /\ arg \in Dashed
  /\ Fail

Target(arg) ==
  /\ pc = "word"
  /\ Read(arg)
  /\ find_option(arg) = {} /\ arg \notin Dashed
  /\ config.target = ""
  /\ config' = [config EXCEPT !.target = arg]
  /\ UNCHANGED <<pc, option, rc, mode>>

SecondTarget(arg) ==
  /\ pc = "word"
  /\ Read(arg)
  /\ find_option(arg) = {} /\ arg \notin Dashed
  /\ config.target # ""
  /\ Fail

(* Mutant: a report without --mtr is accepted. *)
ReportNotChecked(c) ==
  /\ c.target # ""
  /\ ~(c.trace /\ c.mtr)
  /\ ~c.mtr => c.baseline_save_path = "" /\ c.baseline_compare_path = ""

(* The checks at the end of parse_cli. *)
Consistent(c) ==
  /\ c.target # ""
  /\ ~(c.trace /\ c.mtr)
  /\ ~c.mtr => c.baseline_save_path = "" /\ c.baseline_compare_path = "" /\ c.report_path = ""

EndOfWords ==
  /\ pc = "word"
  /\ pc' = "main"
  /\ rc' = IF Consistent(config) THEN "OK" ELSE "ERR_USAGE"
  /\ UNCHANGED <<argv, config, option, mode>>

(* main: what is done with the configuration. *)
Dispatch ==
  /\ pc = "main"
  /\ mode' = CASE rc # "OK" -> "usage"
               [] rc = "OK" /\ config.help -> "help"
               [] rc = "OK" /\ ~config.help /\ config.version -> "version"
               [] OTHER -> IF config.trace THEN "trace" ELSE IF config.mtr THEN "mtr" ELSE "ping"
  /\ pc' = "exit"
  /\ UNCHANGED <<argv, config, option, rc>>

Exited == pc = "exit" /\ UNCHANGED vars

Next ==
  \/ \E arg \in Words :
       \/ Flag(arg) \/ OptionName(arg) \/ StringValue(arg) \/ IntValue(arg) \/ BadIntValue(arg)
       \/ UnknownOption(arg) \/ Target(arg) \/ SecondTarget(arg)
  \/ NoValue \/ EndOfWords \/ Dispatch
  \/ Exited

Spec == Init /\ [][Next]_vars

-----------------------------------------------------------------------------
(* Properties.  They read the command line as a whole: a word is the value   *)
(* of the word before it, or stands for itself.                              *)

TakesValue(arg) == \E f \in find_option(arg) : OPTIONS[f].type # "BOOL"

Standing ==
  LET value[i \in 0..Len(argv)] == i > 1 /\ TakesValue(argv[i - 1]) /\ ~value[i - 1]
  IN {i \in 1..Len(argv) : ~value[i]}

Occurrences(f) == {i \in Standing : argv[i] \in OPTIONS[f].names}
Targets == {i \in Standing : find_option(argv[i]) = {}}

LastOf(s) == CHOOSE i \in s : \A j \in s : j <= i

(* Every setting is the one its last option gives it, or the default; the    *)
(* target is the one word that is neither an option nor the value of one.    *)
(* A word behind an option that takes a value is its value, even when it is  *)
(* the name of an option (cli.c:88-180).                                     *)
LastOptionWins ==
  pc = "exit" /\ rc = "OK" =>
    /\ \A f \in Fields :
         IF Occurrences(f) = {} THEN config[f] = config_init_defaults[f]
         ELSE CASE OPTIONS[f].type = "BOOL" -> config[f] = TRUE
                [] OPTIONS[f].type = "INT" ->
                     config[f] = Numbers[argv[LastOf(Occurrences(f)) + 1]]
                [] OPTIONS[f].type = "STRING" ->
                     config[f] = argv[LastOf(Occurrences(f)) + 1]
    /\ config.target = IF Targets = {} THEN "" ELSE argv[LastOf(Targets)]

(* A mode runs only with settings it can work with, whatever the order of    *)
(* the words: one target, at most one of trace and MTR, a baseline or report *)
(* only for MTR, and numbers in range.  --help and --version show text and   *)
(* run nothing, and nothing is read behind them, nor behind an unknown option *)
(* (cli.c:151-195, main.c:14-41).                                            *)
ModeIsRunnable ==
  pc = "exit" =>
    /\ mode \in {"ping", "trace", "mtr"} =>
         /\ \E i \in Standing : Targets = {i}
         /\ Occurrences("trace") = {} \/ Occurrences("mtr") = {}
         /\ mode = "mtr" <=> Occurrences("mtr") # {}
         /\ mode # "mtr" =>
              \A f \in {"baseline_save_path", "baseline_compare_path", "report_path"} :
                Occurrences(f) = {}
         /\ Occurrences("help") = {} /\ Occurrences("version") = {}
         /\ argv # <<>> /\ TakesValue(argv[Len(argv)]) => Len(argv) \notin Standing
         /\ \A f \in Fields : OPTIONS[f].type = "INT" =>
              config[f] \in OPTIONS[f].min..OPTIONS[f].max
    /\ mode \in {"help", "version"} => Occurrences(mode) = {Len(argv)}
    /\ \A i \in Standing : argv[i] \in Dashed => mode = "usage" /\ i = Len(argv)
=============================================================================
