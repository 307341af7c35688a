# A TLA+ verification of RouteProbe

RouteProbe (`src/README.md`) is a single-threaded C program for Linux that measures a
network path with ICMP Echo Requests: *ping* (one target, many packets), *trace* (one row
per hop) and *MTR* (many sweeps over the hops, with statistics per hop, a stored baseline
and a diagnosis). Its own concurrency is none; what makes it hard is everything around
it: a raw socket that sees the whole host's ICMP traffic, a network that loses, delays,
duplicates and reorders, routes that change while they are measured, a clock, buffered
files, calls that fail and a user who presses Ctrl-C.

## Inventory

| Component | State it keeps | Operations | What makes it correct |
| --- | --- | --- | --- |
| `icmp.c` | none of its own; the socket's buffer, the start of the wait | `send_icmp_echo`, `receive_ping_response`, `receive_trace_response` (one receive loop, `receive_matching_packet`) | an answer is the answer of the current probe; a wait ends, neither early nor in a blocking call; no answer is thrown away |
| `mtr.c` | `MtrHopStats` per hop, `cycle`, `hop`, `seq` | `mtr_hop_stats_init/record`, `probe_mtr_hop`, `run_mtr_mode` | the incremental statistics mean what their names say; which hops are probed, how often, and shown |
| `trace.c` | `hop`, `attempt`, the current `TraceResult` | `run_trace_mode` | no sequence number twice; the TTL is that of the hop; retries; which rows appear |
| `ping.c` | array of `PingResult` | `run_ping_mode` | every result is counted once |
| `stats.c`, `quality.c` | none | `compute_ping_stats`, `evaluate_quality` | percentile, jitter and grade agree with their definitions |
| `runtime.c` | socket, CSV stream | `runtime_open`, `runtime_close` | what was opened is closed on every path |
| `resolver.c` | none | `resolve_target_ipv4` | first usable address, or an error |
| `baseline.c` | the baseline file, the report file | save, compare, report; the diagnosis | what is saved can be read back; what is claimed to be stored is stored; the diagnosis follows from the statistics |
| `csv_output.c`, `terminal_output.c` | none (streams of others) | rows and headers | rows in order, errors noticed |
| `cli.c`, `main.c`, `common.h` | `RouteProbeConfig` | `parse_cli`, dispatch | accepted configurations are consistent |
| `timeutil.c` | none | clock difference, sleep, timestamp | monotonic time, resumed sleep |

The modes call `runtime_open`, then for each probe `setsockopt(IP_TTL)`,
`send_icmp_echo` and a receive function of `icmp.c`, and hand each result on to the
statistics or to the output. `run_mtr_mode` alone goes on to `baseline.c`. All components
share the socket and the streams through `RouteProbeRuntime`; there are no callbacks but
the CSV header writer.

Hard behaviours, by component. *icmp*: late, duplicated, reordered, foreign answers; wrap of
the 16-bit sequence number; equal identifiers of two processes; a flood; rounding of the
remaining time; a blocking `recvfrom`. *mtr*: results in every order, routes that change
between sweeps, sweeps of different lengths. *trace*: retries, a failed `setsockopt`, hidden
rows, a CSV error in the middle. *runtime*, *baseline*, *csv*: partial failure of a sequence
of opens and writes, errors that only `fclose` reports, a kill between truncating and
writing, a file read again after it was replaced, a torn file read by a later run.
`PROJECT.json` lists these as `hazards`, each at its line.

## Modules

| Module | What it is |
| --- | --- |
| `ProbeService` | abstract: what a mode expects of one send-and-receive |
| `Icmp` | `icmp.c`: the receive loop step by step, with socket, clock and network |
| `MtrStats` | `MtrHopStats` and its two operations, as functions on records |
| `Mtr` | the measurement of `run_mtr_mode`: cycles, sweeps, table (uses `MtrStats`) |
| `Folding` | a loop over a sequence, with sums and counts, for the modules that have such loops |
| `MtrReference` | what those statistics mean: the same numbers computed from all the results of a hop at once |
| `MtrQuality` | the judgement of `baseline.c`: destination, cycles, scores, level, list of changes, as operators |
| `Diagnosis` | `Mtr` with what `MtrQuality` says of its table |
| `MtrNet` | composition: `Mtr` over `Icmp`, on a path of routers that may change |
| `Baseline` | the lines of a baseline file: written, torn, read back, compared |
| `Trace` | `run_trace_mode` |
| `Ping` | `run_ping_mode` |
| `PingStats`, `Quality` | `compute_ping_stats` and `evaluate_quality`, as operators |
| `Cli` | `parse_cli` word by word, and the dispatch of `main` |
| `Session` | `runtime.c`, the order of steps of the three modes, and the files of `baseline.c` and the CSV, over several runs |
| `StatsProofs` | lemmas on loops, sums, counts and the statistics of a hop, for `MtrProofs`, `PingProofs` and `BaselineProofs` |
| `IcmpProofs`, `MtrProofs`, `TraceProofs`, `SessionProofs`, `PingProofs`, `BaselineProofs`, `CliProofs` | theorems (`MtrProofs` has those of `Mtr`, `Diagnosis` and `MtrNet`) |
| `MCIcmp`, `MCMtr`, `MCMtrNet`, `MCBaseline`, `MCTrace`, `MCPing`, `MCCli`, `MCSession` | instances for TLC |

How they build on each other:

    ProbeService <-(implements)- Icmp
    Mtr, one probe at a time  <-(implements)- MtrNet = Diagnosis + INSTANCE Icmp
    MtrStats, Folding -> MtrReference -> Mtr;   Mtr, MtrQuality -> Diagnosis
    MtrStats, MtrQuality, Folding -> Baseline
    Folding -> PingStats;   PingStats, Quality, MtrReference -> Ping

**Icmp.** `pc` is the place in `receive_matching_packet`: `check` is the top of its loop,
`arm` is between reading the clock and calling `select`, `select` and `recv` are its two
system calls, `idle` is outside of it. `sock` is the receive
buffer of the raw socket. `elapsed` is the monotonic clock since `wait_start` in ticks,
finer than the millisecond that `select` is given; `selLeft` is the timeout computed for the
`select` to come and then what is left on its timer. The clock advances between any two
steps (`Tick`), the timer only while `select` is pending: a process that is not scheduled
between the two calls waits past its deadline by as long as that took, and nothing bounds it. `Deliver...` actions are the network: any probe ever sent may be
answered at any time and any number of times, by the destination, by a router (Time
Exceeded, whole or with a quote too short), or not at all, and foreign packets arrive at
will. A packet carries the ghost `origin`, the probe it really answers; the program
matches on identifier and sequence number only. Definitions keep the names of the C
functions they translate.

**Mtr.** A probe is one step with any `TraceResult`, whatever the ones before: this is what
`ProbeService` allows, for a route that may change at any time. Averages are pairs
`<<total, number>>`, so that nothing is lost to division; times are naturals from a
constant set. `history` is a ghost.

**MtrNet.** The same loops, but a probe is now the whole life of a probe in `Icmp` (an
`INSTANCE` of it in mode *trace*): `Send` or `SendFails`, the steps of the receive loop, and
`EndProbe`, which hands the outcome to `Mtr`'s `ProbeHop`. A path of routers decides who
answers: the destination if the TTL reached it, else the router at that distance. Answers
still come late, twice or never, and `RouteChanges` moves the destination between any
two steps. The address in a result is the sender's, which depends on the ghost `ttls`, the TTL of the
probe the accepted packet *really* answers; so a confusion of probes would show
as a row with another hop's address. `Flight` and `Outcome` say what becomes of the probe the sweep is
at, and `ImplementsMtr` is `Mtr` over them: a probe is started, ends once, its outcome stays
as it is until it is entered, is entered once, and only then the loops go on.

**Baseline.** `old` is any measurement the loops of `mtr.c` can leave. It is written line by
line; a file may end after any number of lines, or within one. What a cut leaves of a line
is modelled by what `read_mtr_baseline_stream` makes of it: a first line or a row with too few
fields is refused, a cut in the metadata is read as a line without effect, a row cut in its
last field as an unknown status. Times are rounded to tenths of a millisecond and losses
to tenths of a percent when they are saved, as `%.1f` does. Before the second run reads the file
somebody may have edited it (`Edited`): a number of hops or the hop of a row out of range, or an
empty line. The range checks of `parse_metadata_line` and `parse_hop_line` and the skip of empty
lines are those of the code (`MetadataFails`, `HopLineFails`, `valid_hop`, `ReadBlank`), and
`TypeOK` holds for such a file too; what the other properties say is about files nobody
edited. The restored `MtrBaseline` is
then compared with a second measurement.

**Ping, PingStats, Quality.** The mode is a state machine over the array of results; the
statistics and the grade are operators, with quotients as pairs and the standard
deviation as its square. `calloc` in `compute_ping_stats` may fail. What MTR would make of the
same results is asked of a hop at the address `Target`, one of `Remotes`; `PingStats` itself
does not share a line with `MtrStats`, as the two C files do not.

**Folding.** A loop over an array is `Fold(step, base, s)`, with the step a function on pairs.
The community modules fold with an operator; a function is what facts about *every* loop
can be stated of, and `StatsProofs` needs them.

**Cli.** A word of the command line is chosen when the loop reads it; the table of options is
that of `cli.c`, with type and range. The properties do not follow the loop: they read
the command line as a whole and say which word is an option, a value or the target.

**Trace.** The same abstraction of a probe; `show_timeouts` and the CSV option are part of the
initial state. `ttl` is what is set on the socket, `probes` a ghost. In `Trace` and `Ping` the
variable `csvAccepted` has the rows that the CSV *stream* took without an error. That is not
the file: stdio keeps rows back, an error at one row may lose those before it, and
`runtime_close` does not look at its `fclose`. What is in the file is the matter of `Session`.

**Session.** `held` is what the process owns, `disk` what is in the files; stdio may pass on
any part of what it is given and `fclose` the rest. A file is `empty`, `partial` (cut
where the reader of a baseline does not notice: between lines, in the metadata, or in the last
field of a row), `broken` (where it refuses: in the first line or in an earlier field of a row)
or `whole`; `Baseline` shows line by line why these are the cases. A killed process leaves
what was passed on. The next run finds the same disk. `rows = "all"` says that every row was handed
to stdio, no more. The second stream that `write_mtr_report` opens on the baseline is a resource
of its own (`report_baseline`), and each of the four returns after `ferror` a step of its own.
`parse_cli` does not compare paths, so options may name one file: `fopen` then truncates what
another step wrote, and the CSV stream, still open, may write a piece over it when it is closed
(`WriteOver`). Paths are the files they lead to, and no other program writes to them.

Definitions commented `Mutant` are plausible bugs that no behaviour uses; each property has
one that it must catch (`mutants` in `PROJECT.json`).

## Runs

| Run | Question | Bounds |
| --- | --- | --- |
| `icmp_engine` | does the engine implement the probe service, whatever the network and the clock do? | 3 probes, 4 sequence numbers, timeout of 2 ms in 4 ticks, 2 packets in the buffer |
| `icmp_wrap` | what is left when sequence numbers are used again, and does every wait end under a flood? | 4 probes, 2 sequence numbers, 2 ms in 4 ticks, 2 packets |
| `icmp_collision` | does the comparison of the quoted header keep other traceroute traffic out? (violated) | 1 probe, a second process with the same identifier |
| `mtr_stats` | do the incremental statistics equal the reference for every order of results? | 3 cycles, 2 hops, 3 times |
| `mtr_net` | through the engine and on a real path: are the rows about the right hops, is the destination found, does every probe end and count once? | 2 cycles, 3 hops, 1 route change, 1 packet in the buffer, 8 sequence numbers |
| `mtr_route_change` | does the diagnosis find a destination that answered? (violated) | 2 cycles, 2 hops |
| `trace` | sequence numbers, TTLs, rows and CSV stream of a trace | 3 hops, 2 attempts |
| `ping` | rows, summary, percentile, grade; agreement with the statistics of MTR | 1, 2, 3 and 20 probes, 3 times, at most 2 changes of outcome |
| `baseline` | round trip of a baseline, whole, torn and edited; comparison and diagnosis | 2 hops, 2 cycles, 6 results, any cut, one edit, an empty line behind line 7 |
| `cli` | which settings a command line gives and which mode runs with them | 6 words out of 10 |
| `session` | resources, exit codes, files and messages of two runs with any configuration, any failure, a kill anywhere | 2 runs, 3 files, which may coincide |
| `session_disk_full` | is a baseline that is said to be saved on the disk? (violated) | 1 run |

Why the bounds are enough.

* *Icmp*: a confusion needs the current probe, an earlier one and a foreign packet, in two
  orders in the buffer; three probes and two places give all of them, and four probes over
  two numbers use every number twice. Two ticks per millisecond show both sides of the
  cut to milliseconds.
* *Mtr*: jitter needs three results with a gap in between, which three cycles at one hop
  give. *MtrNet*: what a sweep does depends on the hop before, which three hops show, and on
  the sweep before, which two cycles show; one change of the route makes sweeps longer
  and shorter. One place in the buffer is enough for a stale answer, as reordering within the buffer
  is the matter of `icmp_engine`. There are at most six probes, so eight numbers do not wrap.
* *Trace*: three hops and two attempts give every stride of the sequence numbers and every
  transition between hops.
* *Ping*: up to three probes every order of outcomes is taken. Twenty is the smallest count
  where the rank of the 95th percentile is not the last, and where one loss is exactly
  the 5 % of a threshold; there the outcome changes at most twice (`MaxChanges`). The
  times 20, 50 and 170 ms are below, on and beyond the thresholds of the mean, and their
  differences of 30 ms and more on and beyond those of the jitter.
* *Baseline*: a row, the row after it and the end of the file; two cycles give a loss of one
  half and averages that need rounding. A tick is 10 µs; the shortest time is saved as 0.0, the
  others (10, 120 and 200 ms) lie between and beyond the thresholds of the scores. An edited number is
one below or one above its range, where the checks turn; one empty line, between two rows (`Blanks`), is
enough to be skipped, and every place more would multiply the files.
* *Cli*: six words are two options with values, or one given twice, beside `--mt` and a target.
  The ten words have every type of option, both spellings, and numbers in and out of range.
* *Session*: a baseline is saved by one run and read by the next, which takes two. Three files let
  any two of the outputs be the same one and a third be apart.

The bounds that are in the specification itself are named there (`MaxProbe`, `SockCap`,
`Blanks`, `MaxRouteChanges`, `MaxChanges`, `MaxArgs`, `MaxRun`); the theorems do without
their values.

**Fairness** is assumed in `icmp_wrap` only (`FairSpec`): weak fairness of the steps of the receive
loop (the process is scheduled and its system calls return) and of the clock. `select` returns by
its timer, `recvfrom` because there is a packet (`RecvNeverBlocks`). Nothing is assumed of
the network, which may flood the socket for ever. The other modes are loops with a
counter over calls that return; that they end is not stated.

All runs check for deadlock; `SessionOver`, `Finished`, `NetFinished`, `Closed`, `Exited` and
`NoMoreRuns` steps mark the states in which the program has really ended.

## What the violated runs show

* `icmp_collision`: `icmp.c:124-125` says that comparing the Echo header quoted by a Time
  Exceeded keeps other traceroute traffic out. The run shows a Time Exceeded for the probe of a
  second traceroute that is accepted as a hop: the other process has the same 16-bit
  identifier (`getpid() & 0xffff`), and nothing else of the quoted datagram is compared.
* `mtr_route_change`: a hop that was the destination in one cycle and a router in the next
  loses the status `DESTINATION` (`mtr.c:74`); when the deeper hop then times out, the report says
  that the destination was not reached (`baseline.c:413`), though it had answered.
* `session_disk_full`: `save_mtr_baseline` does not look at the result of `fclose`
  (`baseline.c:541`), which is what writes a short baseline; it reports success for a file
  that is empty or cut off. `write_mtr_report` does check (`baseline.c:686`).

## Proofs

Assumptions on constants are the named `ASSUME`s of the modules: bounds are positive
naturals, times are naturals. `tlapm` checks all of it.

`IcmpProofs`. The inductive invariant `IInv` is `TypeOK`, `SelectTimerMeetsDeadline` and
`RecvNeverBlocks` with two strengthenings: `GenuineBuffer` (every packet in the buffer is an answer to a probe that
was sent, or foreign) and `WaitsForSentProbe` (during a wait the current probe is on the
wire). Neither the timer bound nor the non-blocking property is inductive without the types. That a
timer never runs out before the deadline holds however long the process sleeps between
`ReadClock` and `CallSelect`; no upper bound is claimed. That an accepted packet is one's own follows from `GenuineBuffer` when it leaves the
buffer. From `IInv`:

* `TypeCorrect`, `TimerCorrect`, `NeverBlocks`, `NothingOwnDiscarded` for all constants;
* `AnswersAreOwn` assuming `NoCollision` (no foreign process has the identifier);
* `AnswersAreCurrent` and `Refinement` (`Icmp` implements `ProbeService`) assuming
  also `MaxProbe <= SeqMod` (sequence numbers have not wrapped). `icmp_collision` is
  why the first assumption is stated, `icmp_wrap` is why the second is stated: after a
  wrap an answer one whole cycle of numbers old would pass.

`StatsProofs`. Sequences have no bound, so what a loop computes is proved by induction.
The induction theorems of the library take a predicate, which no installed prover can
instantiate; here a *set* takes its place (`NaturalInduction`, `SequenceInduction`): a set of
sequences that has the empty one, and with each all its extensions by one element, has them
all. With them a `Fold` is shown to exist, to be unique and to obey its two rules
(`FoldEmpty`, `FoldAppend`), and to stay in a set its step stays in (`FoldType`). Everything else
follows from these: sums, counts, counts in a sequence in order (`CountOrdered`), and `HistoryStep`,
one result more keeps the statistics of a hop equal to those of its whole history.

`MtrProofs`. For every number of hops, cycles and times: `TypeCorrect`, `FlagsCorrect`,
`AveragesCorrect`, `StatsCorrect` and `SweepCorrect`. `Bounded` alone is not inductive: the invariant adds
that a hop without answers has its zeros (`Fresh`), and that the flags agree with the
counters. `StatsMatchHistory` is inductive only with what it does not show: the totals the
quotients are made of and the time of the latest answer, which the next distance is measured from
(`Totals`). `SweepAccounting` needs that a sleeping program has
another cycle to run (`SleepsBetweenCycles`) and that each sweep begins at the first hop
(`StartsAtFirstHop`).

Of the diagnosis: `CyclesObserved`, the number of cycles it reports is the number that
was run. `CyclesInv` says that no hop is probed twice in a cycle (`OncePerCycle`) and
that a measurement ends with its last cycle (`EndsWithLastCycle`); then the first hop's count is
the largest. `TableHasNoGap`: the rows printed are hops `1..n` in order. By `TableInPlace` the table is
the probed hops up to the one printed next; that they leave no gap is
`SweepsGetShorter`, which follows from `SweepAccounting`.

`PingProofs`. All five properties of the `ping` run, for every count and every set of times. The
invariant ties rows and CSV rows to the place in the loop (`RowsInPlace`), says when the array
is full (`InOrder`) and that the summary printed is that of the array (`SummaryInPlace`); from
there on the theorems are about `compute_ping_stats` and `evaluate_quality` of any array.

* `PrintedOnce`: rows printed and rows the CSV stream took; every result is an answer, a timeout or an error, counted once (`OutcomesCounted`).
* `GradeCorrect`: the worst of three grades is GOOD if all are, POOR if one is.
* `PingAgreesWithMtr`: update by update, the hop follows the array (`AllFollowed`, by
  `HistoryStep`); extremes agree because both bound all times and are among them.
* `DistributionCorrect`: sorting keeps, for every bound, the number of times up to it, and puts
  them in order (`SortedInOrder`); the element of rank `k` of a sequence in order is within `x`
  just when at least `k` elements are (`CountOrdered`); and the rank is 95 hundredths rounded up
  (`RankBounds`). The bound of the variance is that of the chord: a square lies below the line
  through the ends of its interval, so that the sum of squares lies below a linear
  function of the sum of times (`SumBelowTheChord`), which at the mean is a quarter of
  the square of the width (`HalfTheWidth`).

`MtrProofs`, of the composition. The steps of the engine in it are steps of `Icmp`, so that
`IcmpProofs`, instantiated (`EngineProofs`), holds of it without being proved again.

* `Refinement`: `MtrNet` implements `Mtr` with one probe at a time, whatever the number of
  sequence numbers. `InStep` ties the probe of the engine to `seq` of the loops, `Reports` says
  that an idle engine has one of the four outcomes of a `TraceResult`. Each step is then one of
  `ProbeStarts`, `ProbeEnds`, `OutcomeEntered` and `LoopsGoOn`, or leaves table, flight and outcome alone;
  a result taken twice, or before the wait is over, is none of them.
* `TableIsOfTheRoute`: `TableShowsRoute`, assuming `MaxProbe <= SeqMod`. `OnTheWay`
  says that packets and results on their way fit the TTL of the probe they answer and, while
  the route stays, its length; that the answer accepted is the answer of the current probe
  comes from `AnswersAreCurrent`; `TableFits` carries it into the statistics of the hop.

`TraceProofs`. All six properties of the `trace` run for every number of hops and attempts,
assuming `MaxHop * TraceAttempts < SeqMod` (255 times 10 is below 65536). The sequence number is a
product of loop counters, so `NumbersAreUnique` needs `Numbered`: which attempts of which hops
lie behind the current one. `TtlIsSet` and `TriedInPlace` tie the socket and the ghost of the
probes to the place in the loops, `RowsInPlace` and `CsvInPlace` the two outputs.

`SessionProofs`. All five properties of the `session` run, for every set of files, every set
of accepted configurations, whichever options name one file, and any number of runs. Each has an
inductive invariant that ties it to the step the run has reached:

* `NoLeak`: `HeldInPlace`, which resources can be held at which step;
* `TypeCorrect`: `PathGiven`, a step that opens a file is reached only when its option was given;
* `ReportStored`: `StoredInPlace`, the message comes last, and what is still written after
  it is the CSV, by `runtime_close`. If `--output` names the report's file, the report is whole only
  until then, and the property says no more;
* `OutputsOrdered`: `InOrder`, a file is untouched until its step, and a step is reached
  only when the earlier ones are done or were not asked for;
* `ReportAgrees`: `Agreement`, only the report can be written to the baseline between its two
  readings, and then there is nothing a reader accepts (`baseline.c:603`).

What comes after what is settled once, in `NextSteps` and `SkippedSteps`; which file a step may
write to, in `CsvStepsWrite`, `SaveStepsWrite`, `ReportStepsWrite` and `OtherStepsWrite`.

`BaselineProofs`. All five properties of the `baseline` run, for every number of hops and cycles,
every set of results, every set of places for an empty line and every unit of time that is ten to
the millisecond. The invariant is `(edited \/ IInv) /\ ComparisonInPlace /\ InRange /\ EditedInPlace`:
`IInv` knows the file line by line and holds until somebody edits it; the others hold in any case.

* Of an edited file: the numbers that the reader has accepted are in range (`InRange`), because
  `MetadataFails` and `HopLineFails` refuse the others; that is what `TypeCorrect` needs. A file is at
  most one line longer than it was (`EditedInPlace`).

* What is measured (`IsMeasurement`): by induction over the sweeps, the table is in order, its
  counters and quotients agree, and no hop has more probes than the one before it. So the
  hops that were probed are the first ones (`Deep`), and the rows of the file are theirs (`RowsShape`).
* What is written (`FileInPlace`): every line is whole, but for the last one of a torn file, and
  `Whole` and `Partial` say what a reader may rely on in line `i` in either case. What
  is read (`ReaderInPlace`): the line of column names is the sixth or was not reached, and only a
  torn file is refused. What is restored (`BaselineInPlace`): a hop for every row that was read.
* `RestoredCorrectly` follows with `Comeback(n)`: the first `n` hops are those that were measured,
  up to rounding (`SavedFrom`, last, least and greatest times included), and the rest is cleared.
* `ChangesCorrect` needs that the concatenation of the parts of the list has exactly their elements
  and none twice (`FlattenIsFold`, `ElementsFlattened`), as every part is about its own hop
  (`PartsApart`). `ListSays` then gives the list as a set, and what it says of a hop (`Says`) is
  compared with the true statistics. Here rounding matters: a growth of the rounded mean by a bound
  is a growth of the true one by that bound less a tenth, and conversely (`GrowthRounded`). The same
  for the share of probes without an answer, in tenths of a percent (`ListedLoss`): a hop is listed with
  a rise of 5 per cent, and only with one, but for the tenth.
* `OwnBaselineQuiet`: half a tenth is less than any threshold (`NoGrowth`), and the destination found
  in the restored hops is that of the measurement.
* `DiagnosisSound`: the score is a sum of parts with known ranges (`DiagnosisFields`, `ScoreRanges`);
  that a doubled mean shows is `GrowthRounded` again. The condition that the old mean was not
  saved as 0.0 is needed for that (`baseline.c:376`).

`CliProofs`. Both properties of the `cli` run, for every set of words, every table of numbers and
command lines of any length. Which words are values is a recursive function of the command line;
that it exists and is the only one (`Readable`) is part of the invariant, and `OneMoreWord` says how
one word more extends it. With that, `Settings` keeps for every field that the last of its
occurrences whose value was read (`Given`) is what the configuration has, in range if it is a
number; `Place` says that the loop waits for a value just when the last word does (`Waits`), and
`Ending` that an accepted command line ended with `--help` or `--version` as its last word, or passed
the checks. That a path is still its default just when its option is not given needs that `NULL`,
written `""` in the model, is no word (`WordsAssumption`); an empty argument is a word like any other.

Nothing behind `--help`, `--version` or an unknown option is read; of other errors the property says
only that no mode runs.

Only model-checked: `EveryWaitEnds`, as liveness is out of the prover's reach. No theorem states what
a run refutes.

## Not modelled

The Internet checksum and the computation of a time from a payload (`icmp.c:33-52`,
`247-260`); `receive_icmp_response`, which nothing calls; the walk over the `addrinfo` list in
`resolver.c`; the formatting of rows, CSV escaping, the graph, the wording of summary, diagnosis
and report, `print_usage`, timestamps; the build. Numbers are exact: the rounding of `double` is
left out, but for the rounding to a tenth that the baseline file makes. `EINTR` retries are stuttering
steps. Times are numbers of a small set; that a payload sent back by a broken host could give a
nonsensical time is not represented. `malloc` fails where the code goes on without it (`stats.c`)
and where a mode gives up (`Session`).

Hazards that no property covers are listed in `PROJECT.json` with the reason: an answer that was in
the buffer in time and is reported as a timeout, a quoted datagram of another protocol, the
unchecked `fclose` of the CSV, and a baseline whose mean was saved as 0.0. Edits of a baseline other
than those of `Edited` are not modelled: lines in another order, text where a number should be,
lines longer than the buffer of `fgets`.

## Plan

1. **Done**: `Icmp` against `ProbeService`, `Mtr` with its reference, `Trace`, `Session`,
   `Baseline` with `MtrQuality`, `Ping` with `PingStats` and `Quality`, `MtrNet` as the composition
   of `Mtr` and `Icmp`, `Cli`.
2. **Done**: proofs for `Icmp`, `Mtr`, `Diagnosis`, `MtrNet`, `Trace`, `Session`, `Ping`,
   `Baseline` and `Cli`: every safety property that a passing run checks.
3. **Done**: `Session` with options that name one file, `Baseline` with an edited file, `MtrNet`
   against `Mtr` with one probe at a time.
