------------------------------ MODULE CliProofs -----------------------------
(***************************************************************************)
(* Proofs about Cli, for every set of words, every table of numbers and    *)
(* command lines of any length.                                            *)
(***************************************************************************)
EXTENDS Cli, TLAPS

-----------------------------------------------------------------------------
(* The table of options. *)

Bools == {"trace", "mtr", "show_timeouts", "graph_enabled", "help", "version"}
Strings == {"output_path", "baseline_save_path", "baseline_compare_path", "report_path"}
Ints == {"count", "interval_ms", "timeout_ms", "max_hop", "trace_attempts"}

LEMMA FieldNames == Fields = Bools \cup Strings \cup Ints
  BY DEF Fields, OPTIONS, Bools, Strings, Ints

LEMMA FieldTypes ==
  /\ \A f \in Bools : OPTIONS[f].type = "BOOL"
  /\ \A f \in Strings : OPTIONS[f].type = "STRING"
  /\ \A f \in Ints : OPTIONS[f].type = "INT"
<1>1. /\ \A a, b : BOOL_OPTION(a, b).type = "BOOL"
      /\ \A a, b : STRING_OPTION(a, b).type = "STRING"
      /\ \A a, b, c, d : INT_OPTION(a, b, c, d).type = "INT"
  BY DEF BOOL_OPTION, STRING_OPTION, INT_OPTION, Option
<1>2. \A f \in Bools : OPTIONS[f].type = "BOOL"
  BY <1>1 DEF Bools, OPTIONS
<1>3. \A f \in Strings : OPTIONS[f].type = "STRING"
  BY <1>1 DEF Strings, OPTIONS
<1>4. \A f \in Ints : OPTIONS[f].type = "INT"
  BY <1>1 DEF Ints, OPTIONS
<1> QED BY <1>2, <1>3, <1>4

InRange(f, n) == n \in OPTIONS[f].min..OPTIONS[f].max

LEMMA Defaults ==
  /\ \A f \in Bools : config_init_defaults[f] = FALSE
  /\ \A f \in Strings : config_init_defaults[f] = ""
  /\ \A f \in Ints : InRange(f, config_init_defaults[f])
  /\ config_init_defaults["target"] = ""
  /\ DOMAIN config_init_defaults = Fields \cup {"target"}
<1>1. \A f \in Bools : config_init_defaults[f] = FALSE
  <2>1. config_init_defaults["trace"] = FALSE
    BY DEF config_init_defaults
  <2>2. config_init_defaults["mtr"] = FALSE
    BY DEF config_init_defaults
  <2>3. config_init_defaults["show_timeouts"] = FALSE
    BY DEF config_init_defaults
  <2>4. config_init_defaults["graph_enabled"] = FALSE
    BY DEF config_init_defaults
  <2>5. config_init_defaults["help"] = FALSE
    BY DEF config_init_defaults
  <2>6. config_init_defaults["version"] = FALSE
    BY DEF config_init_defaults
  <2> QED BY <2>1, <2>2, <2>3, <2>4, <2>5, <2>6 DEF Bools
<1>2. \A f \in Strings : config_init_defaults[f] = ""
  <2>1. config_init_defaults["output_path"] = ""
    BY DEF config_init_defaults
  <2>2. config_init_defaults["baseline_save_path"] = ""
    BY DEF config_init_defaults
  <2>3. config_init_defaults["baseline_compare_path"] = ""
    BY DEF config_init_defaults
  <2>4. config_init_defaults["report_path"] = ""
    BY DEF config_init_defaults
  <2> QED BY <2>1, <2>2, <2>3, <2>4 DEF Strings
<1>3. \A f \in Ints : InRange(f, config_init_defaults[f])
  <2>1. \A a, b, c, d : INT_OPTION(a, b, c, d).min = c /\ INT_OPTION(a, b, c, d).max = d
    BY DEF INT_OPTION, Option
  <2>2. InRange("count", config_init_defaults["count"])
    BY <2>1 DEF InRange, OPTIONS, config_init_defaults
  <2>3. InRange("interval_ms", config_init_defaults["interval_ms"])
    BY <2>1 DEF InRange, OPTIONS, config_init_defaults
  <2>4. InRange("timeout_ms", config_init_defaults["timeout_ms"])
    BY <2>1 DEF InRange, OPTIONS, config_init_defaults
  <2>5. InRange("max_hop", config_init_defaults["max_hop"])
    BY <2>1 DEF InRange, OPTIONS, config_init_defaults
  <2>6. InRange("trace_attempts", config_init_defaults["trace_attempts"])
    BY <2>1 DEF InRange, OPTIONS, config_init_defaults
  <2> QED BY <2>2, <2>3, <2>4, <2>5, <2>6 DEF Ints
<1>4. config_init_defaults["target"] = ""
  BY DEF config_init_defaults
<1>5. DOMAIN config_init_defaults = Fields \cup {"target"}
  <2>1. DOMAIN config_init_defaults = Bools \cup Strings \cup Ints \cup {"target"}
    BY DEF config_init_defaults, Bools, Strings, Ints
  <2> QED BY <2>1, FieldNames
<1> QED BY <1>1, <1>2, <1>3, <1>4, <1>5

(* A word is the name of at most one option, and then of nothing else. *)
LEMMA OneOption ==
  ASSUME NEW f \in Fields, NEW w \in OPTIONS[f].names
  PROVE  /\ find_option(w) = {f} /\ w \notin Dashed /\ w \notin DOMAIN Numbers
         /\ \A g \in Fields : w \in OPTIONS[g].names => g = f
         /\ TakesValue(w) <=> OPTIONS[f].type # "BOOL"
<1>1. \A g \in Fields : w \in OPTIONS[g].names => g = f
  BY NamesAssumption DEF NamesAssumption
<1>2. find_option(w) = {f}
  BY <1>1 DEF find_option
<1>3. w \notin Dashed /\ w \notin DOMAIN Numbers
  BY NamesAssumption DEF NamesAssumption
<1>4. TakesValue(w) <=> OPTIONS[f].type # "BOOL"
  BY <1>2 DEF TakesValue
<1> QED BY <1>1, <1>2, <1>3, <1>4

LEMMA NoOption ==
  ASSUME NEW w, find_option(w) = {}
  PROVE  ~TakesValue(w) /\ \A g \in Fields : w \notin OPTIONS[g].names
  BY DEF TakesValue, find_option

LEMMA DashedIsNoOption == \A w \in Dashed : find_option(w) = {}
  BY NamesAssumption DEF NamesAssumption, find_option

-----------------------------------------------------------------------------
(* Which words stand for themselves.                                         *)

(* f marks the words of s that are values. *)
Reads(f, s) ==
  f = [i \in 0..Len(s) |-> i > 1 /\ TakesValue(s[i - 1]) /\ ~f[i - 1]]

Readable(s) == \E f : Reads(f, s) /\ \A g : Reads(g, s) => g = f

Values(s) == CHOOSE f : Reads(f, s)
StandingOf(s) == {i \in 1..Len(s) : ~Values(s)[i]}

(* The last word of s waits for its value. *)
Waits(s) == Len(s) # 0 /\ Len(s) \in StandingOf(s) /\ TakesValue(s[Len(s)])

LEMMA StandingIs == Standing = StandingOf(argv)
  BY DEF Standing, StandingOf, Values, Reads

Marks(f, s) ==
  /\ f \in [0..Len(s) -> BOOLEAN]
  /\ \A i \in 0..Len(s) : f[i] <=> i > 1 /\ TakesValue(s[i - 1]) /\ ~f[i - 1]

LEMMA ReadsMarks == \A f, s : Reads(f, s) <=> Marks(f, s)
<1> SUFFICES ASSUME NEW f, NEW s PROVE Reads(f, s) <=> Marks(f, s)
  OBVIOUS
<1> DEFINE V(i) == i > 1 /\ TakesValue(s[i - 1]) /\ ~f[i - 1]
           D == 0..Len(s)
<1>1. Reads(f, s) <=> f = [i \in D |-> V(i)]
  BY DEF Reads
<1>2. Marks(f, s) <=> f \in [D -> BOOLEAN] /\ \A i \in D : f[i] <=> V(i)
  BY DEF Marks
<1>3. \A i : V(i) \in BOOLEAN
  OBVIOUS
<1> HIDE DEF V, D
<1>4. ASSUME f = [i \in D |-> V(i)] PROVE f \in [D -> BOOLEAN] /\ \A i \in D : f[i] <=> V(i)
  <2>1. [i \in D |-> V(i)] \in [D -> BOOLEAN]
    BY <1>3
  <2>2. \A i \in D : f[i] = V(i)
    BY <1>4, Zenon
  <2> QED BY <1>4, <2>1, <2>2, Zenon
<1>5. ASSUME f \in [D -> BOOLEAN], \A i \in D : f[i] <=> V(i) PROVE f = [i \in D |-> V(i)]
  <2>1. ASSUME NEW i \in D PROVE f[i] = V(i)
    BY <1>3, <1>5, Zenon
  <2>2. f = [i \in D |-> f[i]]
    BY <1>5
  <2> QED BY <2>1, <2>2, Zenon
<1> QED BY <1>1, <1>2, <1>4, <1>5

LEMMA ValuesRead ==
  ASSUME NEW s, Readable(s)
  PROVE  Marks(Values(s), s) /\ \A f : Marks(f, s) => f = Values(s)
<1>1. Reads(Values(s), s)
  BY DEF Readable, Values
<1>2. \A f : Reads(f, s) => f = Values(s)
  BY <1>1 DEF Readable
<1> QED BY <1>1, <1>2, ReadsMarks

LEMMA ReadableMarks ==
  ASSUME NEW s, NEW f, Marks(f, s), \A g : Marks(g, s) => g = f
  PROVE  Readable(s) /\ Values(s) = f
<1>1. Readable(s)
  BY ReadsMarks DEF Readable
<1> QED BY <1>1, ValuesRead

LEMMA NothingRead == Readable(<<>>) /\ StandingOf(<<>>) = {} /\ ~Waits(<<>>)
<1> DEFINE f == [i \in 0..0 |-> FALSE]
<1>1. Len(<<>>) = 0 /\ 0..0 = {0}
  OBVIOUS
<1>2. Marks(f, <<>>)
  BY <1>1 DEF Marks
<1>3. ASSUME NEW g, Marks(g, <<>>) PROVE g = f
  <2>1. g \in [0..0 -> BOOLEAN] /\ ~g[0]
    BY <1>1, <1>3 DEF Marks
  <2>2. g[0] = FALSE
    BY <1>1, <2>1
  <2> QED BY <1>1, <2>1, <2>2
<1>4. Readable(<<>>)
  BY <1>2, <1>3, ReadableMarks
<1>5. StandingOf(<<>>) = {}
  BY <1>1 DEF StandingOf
<1> QED BY <1>1, <1>4, <1>5 DEF Waits

(* One word more stands for itself unless the last one waits for it. *)
LEMMA OneMoreWord ==
  ASSUME NEW s \in Seq(Words), NEW w \in Words, Readable(s)
  PROVE  LET t == Append(s, w)
             n == Len(s)
         IN /\ Readable(t) /\ t \in Seq(Words) /\ n \in Nat /\ Len(t) = n + 1 /\ t[n + 1] = w
            /\ \A i \in 1..n : t[i] = s[i]
            /\ StandingOf(s) \subseteq 1..n
            /\ Waits(s) => StandingOf(t) = StandingOf(s) /\ ~Waits(t)
            /\ ~Waits(s) => /\ StandingOf(t) = StandingOf(s) \cup {n + 1}
                            /\ Waits(t) <=> TakesValue(w)
<1> DEFINE t == Append(s, w)
           n == Len(s)
           v == Values(s)
<1>1. /\ t \in Seq(Words) /\ n \in Nat /\ Len(t) = n + 1 /\ t[n + 1] = w
      /\ \A i \in 1..n : t[i] = s[i]
  OBVIOUS
<1>2. Marks(v, s) /\ \A f : Marks(f, s) => f = v
  BY ValuesRead
<1> HIDE DEF v
<1>3. /\ v \in [0..n -> BOOLEAN]
      /\ \A i \in 0..n : v[i] <=> i > 1 /\ TakesValue(s[i - 1]) /\ ~v[i - 1]
  BY <1>2 DEF Marks
<1> HIDE DEF t, n
<1> DEFINE b == n + 1 > 1 /\ TakesValue(t[n]) /\ ~v[n]
           f == [i \in 0..(n + 1) |-> IF i = n + 1 THEN b ELSE v[i]]
<1>4. b \in BOOLEAN
  OBVIOUS
<1> HIDE DEF b
<1>5. /\ f \in [0..(n + 1) -> BOOLEAN] /\ (f[n + 1] <=> b)
      /\ \A i \in 0..n : f[i] <=> v[i]
  <2>1. f \in [0..(n + 1) -> BOOLEAN]
    BY <1>1, <1>3, <1>4
  <2>2. f[n + 1] <=> b
    BY <1>1
  <2>3. \A i \in 0..n : f[i] <=> v[i]
    BY <1>1
  <2> QED BY <2>1, <2>2, <2>3
<1> HIDE DEF f
<1>6. \A i \in 0..n : i > 1 => i - 1 \in 1..n /\ i - 1 \in 0..n /\ t[i - 1] = s[i - 1]
  BY <1>1
<1>7. \A i \in 0..(n + 1) : i \in 0..n \/ i = n + 1
  BY <1>1
<1>8. Marks(f, t)
  <2>1. ASSUME NEW i \in 0..n
        PROVE  f[i] <=> i > 1 /\ TakesValue(t[i - 1]) /\ ~f[i - 1]
    <3>1. CASE i > 1
      <4>1. i - 1 \in 0..n /\ t[i - 1] = s[i - 1]
        BY <1>6, <3>1
      <4> QED BY <1>3, <1>5, <3>1, <4>1
    <3>2. CASE ~(i > 1)
      BY <1>3, <1>5, <3>2
    <3> QED BY <3>1, <3>2
  <2>2. f[n + 1] <=> n + 1 > 1 /\ TakesValue(t[(n + 1) - 1]) /\ ~f[(n + 1) - 1]
    <3>1. (n + 1) - 1 = n /\ n \in 0..n
      BY <1>1
    <3> QED BY <1>5, <3>1 DEF b
  <2>3. \A i \in 0..(n + 1) : f[i] <=> i > 1 /\ TakesValue(t[i - 1]) /\ ~f[i - 1]
    BY <1>7, <2>1, <2>2
  <2> QED BY <1>1, <1>5, <2>3 DEF Marks
<1>9. ASSUME NEW g, Marks(g, t) PROVE g = f
  <2>1. /\ g \in [0..(n + 1) -> BOOLEAN]
        /\ \A i \in 0..(n + 1) : g[i] <=> i > 1 /\ TakesValue(t[i - 1]) /\ ~g[i - 1]
    BY <1>1, <1>9 DEF Marks
  <2> DEFINE h == [i \in 0..n |-> g[i]]
  <2>2. 0..n \subseteq 0..(n + 1) /\ n + 1 \in 0..(n + 1)
    BY <1>1
  <2>3. h \in [0..n -> BOOLEAN] /\ \A i \in 0..n : h[i] = g[i]
    BY <2>1, <2>2
  <2> HIDE DEF h
  <2>4. ASSUME NEW i \in 0..n PROVE h[i] <=> i > 1 /\ TakesValue(s[i - 1]) /\ ~h[i - 1]
    <3>1. h[i] = g[i] /\ (g[i] <=> i > 1 /\ TakesValue(t[i - 1]) /\ ~g[i - 1])
      BY <2>1, <2>2, <2>3
    <3>2. CASE i > 1
      <4>1. i - 1 \in 0..n /\ t[i - 1] = s[i - 1]
        BY <1>6, <3>2
      <4>2. h[i - 1] = g[i - 1]
        BY <2>3, <4>1
      <4> QED BY <3>1, <3>2, <4>1, <4>2
    <3>3. CASE ~(i > 1)
      BY <3>1, <3>3
    <3> QED BY <3>2, <3>3
  <2>5. h = v
    <3>1. Marks(h, s)
      BY <2>3, <2>4 DEF Marks, n
    <3> QED BY <1>2, <3>1
  <2>6. \A i \in 0..n : g[i] = v[i]
    BY <2>3, <2>5
  <2>7. g[n + 1] <=> b
    <3>1. (n + 1) - 1 = n /\ n \in 0..n
      BY <1>1
    <3>2. g[n + 1] <=> n + 1 > 1 /\ TakesValue(t[(n + 1) - 1]) /\ ~g[(n + 1) - 1]
      BY <2>1, <2>2
    <3> QED BY <2>6, <3>1, <3>2 DEF b
  <2>8. ASSUME NEW i \in 0..(n + 1) PROVE g[i] = f[i]
    <3>1. g[i] \in BOOLEAN /\ f[i] \in BOOLEAN
      BY <1>5, <2>1
    <3>2. g[i] <=> f[i]
      BY <1>5, <1>7, <2>6, <2>7
    <3> QED BY <3>1, <3>2
  <2>9. f = [i \in 0..(n + 1) |-> f[i]] /\ g = [i \in 0..(n + 1) |-> g[i]]
    BY <1>5, <2>1
  <2> QED BY <2>8, <2>9
<1>10. Readable(t) /\ Values(t) = f
  BY <1>8, <1>9, ReadableMarks
<1>11. StandingOf(s) = {i \in 1..n : ~v[i]} /\ StandingOf(t) = {i \in 1..(n + 1) : ~f[i]}
  BY <1>1, <1>10 DEF StandingOf, v, n
<1>12. \A i \in 1..(n + 1) : (i \in 1..n /\ i \in 0..n /\ (f[i] <=> v[i])) \/ i = n + 1
  BY <1>1, <1>5
<1>13. n + 1 \in 1..(n + 1) /\ 1..n \subseteq 1..(n + 1) /\ n + 1 \notin 1..n
  BY <1>1
<1>14. b <=> Waits(s)
  <2>1. CASE n = 0
    BY <1>1, <2>1 DEF b, Waits, n
  <2>2. CASE n # 0
    <3>1. n \in 1..n /\ t[n] = s[n] /\ n + 1 > 1
      BY <1>1, <2>2
    <3>2. n \in StandingOf(s) <=> ~v[n]
      BY <1>11, <3>1
    <3> QED BY <2>2, <3>1, <3>2 DEF b, Waits, n
  <2> QED BY <2>1, <2>2
<1>15. n + 1 \in StandingOf(t) <=> ~Waits(s)
  BY <1>5, <1>11, <1>13, <1>14
<1>16. \A i \in 1..n : i \in StandingOf(t) <=> i \in StandingOf(s)
  BY <1>11, <1>12, <1>13
<1>17. StandingOf(s) \subseteq 1..n /\ StandingOf(t) \subseteq 1..(n + 1)
  BY <1>11
<1>18. Waits(t) <=> ~Waits(s) /\ TakesValue(w)
  <2>1. Len(t) # 0
    BY <1>1
  <2> QED BY <1>1, <1>15, <2>1 DEF Waits
<1>19. Waits(s) => StandingOf(t) = StandingOf(s)
  BY <1>12, <1>15, <1>16, <1>17
<1>20. ~Waits(s) => StandingOf(t) = StandingOf(s) \cup {n + 1}
  BY <1>12, <1>13, <1>15, <1>16, <1>17
<1> QED BY <1>1, <1>10, <1>17, <1>18, <1>19, <1>20 DEF t, n

-----------------------------------------------------------------------------
(* The invariant: what has been read is what the configuration says.         *)

Names(f) == OPTIONS[f].names
Occ(f, s) == {i \in StandingOf(s) : s[i] \in Names(f)}
Free(s) == {i \in StandingOf(s) : find_option(s[i]) = {}}

(* The occurrences of f whose value was read. *)
Given(f) == Occ(f, argv) \ (IF pc = "value" THEN {Len(argv)} ELSE {})

(* c is what the option f at l, the last of those at S, makes of the field. *)
Value(f, s, l, c) ==
  /\ f \in Bools => c = TRUE
  /\ f \notin Bools => l + 1 <= Len(s)
  /\ f \in Ints => s[l + 1] \in DOMAIN Numbers /\ c = Numbers[s[l + 1]] /\ InRange(f, c)
  /\ f \in Strings => c = s[l + 1]

Setting(f, S, s, c) ==
  IF S = {} THEN c = config_init_defaults[f]
  ELSE \E l \in S : (\A j \in S : j <= l) /\ Value(f, s, l, c)

TargetIs(S, s, c) == (S = {} /\ c = "") \/ \E i \in S : S = {i} /\ c = s[i]

Settings ==
  rc = "OK" =>
    /\ DOMAIN config = Fields \cup {"target"}
    /\ \A f \in Fields : Setting(f, Given(f), argv, config[f])
    /\ TargetIs(Free(argv), argv, config["target"])

Place ==
  /\ pc \in {"word", "value", "main", "exit"} /\ rc \in {"OK", "ERR_USAGE"}
  /\ pc \in {"word", "value"} => rc = "OK"
  /\ pc = "word" => ~Waits(argv)
  /\ pc = "value" =>
       /\ option \in Fields \ Bools
       /\ Len(argv) \in StandingOf(argv) /\ argv[Len(argv)] \in Names(option)

NoEarly == \A f \in exits_early : Occ(f, argv) = {}

Early(h) ==
  /\ Occ(h, argv) = {Len(argv)}
  /\ \A g \in exits_early \ {h} : Occ(g, argv) = {}

Ending ==
  /\ pc \in {"word", "value"} => NoEarly
  /\ pc \in {"main", "exit"} /\ rc = "OK" =>
       \/ \E h \in exits_early : Early(h)
       \/ Consistent(config) /\ ~Waits(argv) /\ NoEarly

DashedEnds == \A i \in StandingOf(argv) : argv[i] \in Dashed => rc # "OK" /\ i = Len(argv)

ModeOf(r, c) ==
  CASE r # "OK" -> "usage"
    [] r = "OK" /\ c.help -> "help"
    [] r = "OK" /\ ~c.help /\ c.version -> "version"
    [] OTHER -> IF c.trace THEN "trace" ELSE IF c.mtr THEN "mtr" ELSE "ping"

Chosen == pc = "exit" => mode = ModeOf(rc, config)

IInv ==
  /\ argv \in Seq(Words) /\ Readable(argv)
  /\ Place /\ Settings /\ Ending /\ DashedEnds /\ Chosen
-----------------------------------------------------------------------------
(* What one word more changes. *)

LEMMA WordRead ==
  ASSUME NEW s \in Seq(Words), NEW w \in Words, Readable(s), ~Waits(s)
  PROVE  LET t == Append(s, w)
             n == Len(s)
         IN /\ \A f : Occ(f, s) \subseteq 1..n
            /\ \A f : w \in Names(f) => Occ(f, t) = Occ(f, s) \cup {n + 1}
            /\ \A f : w \notin Names(f) => Occ(f, t) = Occ(f, s)
            /\ Free(s) \subseteq 1..n
            /\ find_option(w) = {} => Free(t) = Free(s) \cup {n + 1}
            /\ find_option(w) # {} => Free(t) = Free(s)
<1> DEFINE t == Append(s, w)
           n == Len(s)
<1>1. /\ t[n + 1] = w /\ n \in Nat /\ n + 1 \notin 1..n
      /\ \A i \in 1..n : t[i] = s[i]
      /\ StandingOf(s) \subseteq 1..n
      /\ StandingOf(t) = StandingOf(s) \cup {n + 1}
  BY OneMoreWord
<1> HIDE DEF t, n
<1>2. \A f : Occ(f, s) \subseteq 1..n /\ Free(s) \subseteq 1..n
  BY <1>1 DEF Occ, Free
<1>3. ASSUME NEW f PROVE Occ(f, t) = Occ(f, s) \cup {i \in {n + 1} : w \in Names(f)}
  BY <1>1 DEF Occ
<1>4. Free(t) = Free(s) \cup {i \in {n + 1} : find_option(w) = {}}
  BY <1>1 DEF Free
<1> QED BY <1>2, <1>3, <1>4 DEF t, n

LEMMA ValueWordRead ==
  ASSUME NEW s \in Seq(Words), NEW w \in Words, Readable(s), Waits(s)
  PROVE  LET t == Append(s, w)
             n == Len(s)
         IN /\ \A f : Occ(f, s) \subseteq 1..n /\ Occ(f, t) = Occ(f, s)
            /\ Free(s) \subseteq 1..n /\ Free(t) = Free(s)
<1> DEFINE t == Append(s, w)
           n == Len(s)
<1>1. /\ \A i \in 1..n : t[i] = s[i]
      /\ StandingOf(s) \subseteq 1..n /\ StandingOf(t) = StandingOf(s)
  BY OneMoreWord
<1> HIDE DEF t, n
<1>2. \A f : Occ(f, s) \subseteq 1..n /\ Free(s) \subseteq 1..n
  BY <1>1 DEF Occ, Free
<1>3. ASSUME NEW f PROVE Occ(f, t) = Occ(f, s)
  BY <1>1 DEF Occ
<1>4. Free(t) = Free(s)
  BY <1>1 DEF Free
<1> QED BY <1>2, <1>3, <1>4 DEF t, n

LEMMA SettingKept ==
  ASSUME NEW s \in Seq(Words), NEW w \in Words, NEW f \in Fields, NEW c,
         NEW S, S \subseteq 1..Len(s), Setting(f, S, s, c)
  PROVE  Setting(f, S, Append(s, w), c)
<1> DEFINE t == Append(s, w)
           n == Len(s)
<1>1. n \in Nat /\ Len(t) = n + 1 /\ \A i \in 1..n : t[i] = s[i]
  OBVIOUS
<1> HIDE DEF t
<1>2. CASE S = {}
  BY <1>2, Zenon DEF Setting
<1>3. CASE S # {}
  <2>1. PICK l \in S : (\A j \in S : j <= l) /\ Value(f, s, l, c)
    BY <1>3, Zenon DEF Setting
  <2>2. l \in 1..n
    BY <2>1
  <2>3. f \notin Bools => l + 1 <= n
    BY <2>1 DEF Value
  <2>4. f \notin Bools => l + 1 <= n + 1 /\ t[l + 1] = s[l + 1]
    BY <1>1, <2>2, <2>3
  <2>5. f \in Ints \cup Strings => f \notin Bools
    BY DEF Ints, Strings, Bools
  <2>6. f \in Ints => t[l + 1] = s[l + 1]
    BY <2>4, <2>5
  <2>7. f \in Strings => t[l + 1] = s[l + 1]
    BY <2>4, <2>5
  <2>8. Value(f, t, l, c)
    <3>1. f \in Ints => t[l + 1] \in DOMAIN Numbers /\ c = Numbers[t[l + 1]] /\ InRange(f, c)
      BY <2>1, <2>6, Zenon DEF Value
    <3>2. f \in Strings => c = t[l + 1]
      BY <2>1, <2>7, Zenon DEF Value
    <3>3. f \in Bools => c = TRUE
      BY <2>1, Zenon DEF Value
    <3>4. f \notin Bools => l + 1 <= Len(t)
      BY <1>1, <2>4
    <3> QED BY <3>1, <3>2, <3>3, <3>4, Zenon DEF Value
  <2> QED BY <1>3, <2>1, <2>8, Zenon DEF Setting, t
<1> QED BY <1>2, <1>3 DEF t

LEMMA TargetKept ==
  ASSUME NEW s \in Seq(Words), NEW w \in Words, NEW c,
         NEW S, S \subseteq 1..Len(s), TargetIs(S, s, c)
  PROVE  TargetIs(S, Append(s, w), c)
<1> DEFINE t == Append(s, w)
           n == Len(s)
<1>1. \A i \in 1..n : t[i] = s[i]
  OBVIOUS
<1> HIDE DEF t, n
<1>2. \A i \in S : t[i] = s[i]
  BY <1>1 DEF n
<1> QED BY <1>2, Zenon DEF TargetIs, t

LEMMA NewConfig ==
  ASSUME NEW c, NEW f \in DOMAIN c, NEW v
  PROVE  LET d == [c EXCEPT ![f] = v]
         IN DOMAIN d = DOMAIN c /\ d[f] = v /\ \A g \in DOMAIN c : g # f => d[g] = c[g]
  OBVIOUS

LEMMA TargetIsNoField == "target" \notin Fields
  BY FieldNames DEF Bools, Strings, Ints

LEMMA IInvInit == Init => IInv
<1> SUFFICES ASSUME Init PROVE IInv
  OBVIOUS
<1>1. argv = <<>> /\ pc = "word" /\ rc = "OK" /\ config = config_init_defaults
  BY DEF Init
<1>2. argv \in Seq(Words) /\ Readable(argv) /\ ~Waits(argv) /\ StandingOf(argv) = {}
  BY <1>1, NothingRead
<1>3. (\A f : Occ(f, argv) = {}) /\ Free(argv) = {}
  BY <1>2 DEF Occ, Free
<1>4. Place
  BY <1>1, <1>2 DEF Place
<1>5. Settings
  <2>1. \A f : Given(f) = {}
    BY <1>3 DEF Given
  <2>2. \A f \in Fields : Setting(f, Given(f), argv, config[f])
    BY <1>1, <2>1, Zenon DEF Setting
  <2>3. TargetIs(Free(argv), argv, config["target"])
    BY <1>1, <1>3, Defaults, Zenon DEF TargetIs
  <2>4. DOMAIN config = Fields \cup {"target"}
    BY <1>1, Defaults, Zenon
  <2> QED BY <2>2, <2>3, <2>4 DEF Settings
<1>6. Ending
  BY <1>1, <1>3 DEF Ending, NoEarly
<1>7. DashedEnds
  BY <1>2 DEF DashedEnds
<1>8. Chosen
  BY <1>1 DEF Chosen
<1> QED BY <1>2, <1>4, <1>5, <1>6, <1>7, <1>8 DEF IInv

-----------------------------------------------------------------------------
(* Each action preserves the invariant. *)

LEMMA WordNext ==
  ASSUME IInv, NEW arg \in Words, Read(arg)
  PROVE  /\ argv' = Append(argv, arg) /\ argv' \in Seq(Words) /\ Readable(argv')
         /\ Len(argv) \in Nat /\ Len(argv') = Len(argv) + 1
         /\ argv'[Len(argv) + 1] = arg /\ \A i \in 1..Len(argv) : argv'[i] = argv[i]
<1>1. argv \in Seq(Words) /\ Readable(argv) /\ argv' = Append(argv, arg)
  BY DEF IInv, Read
<1> QED BY <1>1, OneMoreWord

LEMMA ValueWaits ==
  ASSUME IInv, pc = "value"
  PROVE  /\ Waits(argv) /\ rc = "OK" /\ option \in Fields \ Bools
         /\ Len(argv) \in Occ(option, argv)
         /\ \A g \in Fields : g # option => Len(argv) \notin Occ(g, argv)
<1>1. /\ option \in Fields \ Bools /\ rc = "OK"
      /\ Len(argv) \in StandingOf(argv) /\ argv[Len(argv)] \in Names(option)
  BY DEF IInv, Place
<1>2. OPTIONS[option].type # "BOOL"
  <2>1. option \in Strings \cup Ints
    BY <1>1, FieldNames
  <2> QED BY <2>1, FieldTypes
<1>3. /\ TakesValue(argv[Len(argv)])
      /\ \A g \in Fields : argv[Len(argv)] \in OPTIONS[g].names => g = option
  BY <1>1, <1>2, OneOption DEF Names
<1>4. Len(argv) # 0
  <2>1. argv \in Seq(Words)
    BY DEF IInv
  <2>2. Len(argv) \in 1..Len(argv)
    BY <1>1 DEF StandingOf
  <2> QED BY <2>1, <2>2
<1> QED BY <1>1, <1>3, <1>4 DEF Waits, Occ, Names

(* Nothing that was read before a failure begins with dashes. *)
LEMMA NoDashes ==
  ASSUME IInv, rc = "OK", NEW i \in StandingOf(argv)
  PROVE  argv[i] \notin Dashed
  BY DEF IInv, DashedEnds

LEMMA NoMoreDashes ==
  ASSUME IInv, rc = "OK", NEW arg \in Words, Read(arg), Waits(argv) \/ arg \notin Dashed
  PROVE  \A i \in StandingOf(argv') : argv'[i] \notin Dashed
<1>1. argv \in Seq(Words) /\ Readable(argv) /\ argv' = Append(argv, arg)
  BY DEF IInv, Read
<1>2. /\ StandingOf(argv) \subseteq 1..Len(argv)
      /\ \A i \in 1..Len(argv) : argv'[i] = argv[i]
      /\ argv'[Len(argv) + 1] = arg
      /\ Waits(argv) => StandingOf(argv') = StandingOf(argv)
      /\ ~Waits(argv) => StandingOf(argv') = StandingOf(argv) \cup {Len(argv) + 1}
  BY <1>1, OneMoreWord
<1>3. ASSUME NEW i \in StandingOf(argv) PROVE argv'[i] \notin Dashed
  <2>1. argv'[i] = argv[i]
    BY <1>2
  <2> QED BY <2>1, NoDashes
<1> QED BY <1>2, <1>3

LEMMA FailStep ==
  ASSUME Fail, argv' \in Seq(Words), Readable(argv'),
         \A i \in StandingOf(argv') : argv'[i] \in Dashed => i = Len(argv')
  PROVE  IInv'
<1>1. pc' = "main" /\ rc' = "ERR_USAGE"
  BY DEF Fail
<1>2. Place'
  BY <1>1 DEF Place
<1>3. Settings'
  BY <1>1 DEF Settings
<1>4. Ending'
  BY <1>1 DEF Ending
<1>5. DashedEnds'
  BY <1>1 DEF DashedEnds
<1>6. Chosen'
  BY <1>1 DEF Chosen
<1> QED BY <1>2, <1>3, <1>4, <1>5, <1>6 DEF IInv

LEMMA BadIntValueStep == ASSUME IInv, NEW arg \in Words, BadIntValue(arg) PROVE IInv'
<1>1. pc = "value" /\ Read(arg) /\ Fail
  BY DEF BadIntValue
<1>2. \A i \in StandingOf(argv') : argv'[i] \notin Dashed
  BY <1>1, ValueWaits, NoMoreDashes
<1> QED BY <1>1, <1>2, WordNext, FailStep

LEMMA NoValueStep == ASSUME IInv, NoValue PROVE IInv'
<1>1. pc = "value" /\ Fail /\ argv' = argv
  BY DEF NoValue
<1>2. rc = "OK" /\ argv \in Seq(Words) /\ Readable(argv)
  BY <1>1, ValueWaits DEF IInv
<1>3. \A i \in StandingOf(argv') : argv'[i] \notin Dashed
  BY <1>1, <1>2, NoDashes
<1> QED BY <1>1, <1>2, <1>3, FailStep

LEMMA UnknownOptionStep == ASSUME IInv, NEW arg \in Words, UnknownOption(arg) PROVE IInv'
<1>1. Read(arg) /\ Fail /\ rc = "OK" /\ ~Waits(argv)
  BY DEF UnknownOption, IInv, Place
<1>2. argv \in Seq(Words) /\ Readable(argv) /\ argv' = Append(argv, arg)
  BY <1>1 DEF IInv, Read
<1>3. /\ StandingOf(argv) \subseteq 1..Len(argv)
      /\ \A i \in 1..Len(argv) : argv'[i] = argv[i]
      /\ Len(argv') = Len(argv) + 1
      /\ StandingOf(argv') = StandingOf(argv) \cup {Len(argv) + 1}
  BY <1>1, <1>2, OneMoreWord
<1>4. \A i \in StandingOf(argv) : argv'[i] \notin Dashed
  BY <1>1, <1>3, NoDashes
<1>5. \A i \in StandingOf(argv') : argv'[i] \in Dashed => i = Len(argv')
  BY <1>3, <1>4
<1> QED BY <1>1, <1>5, WordNext, FailStep

LEMMA SecondTargetStep == ASSUME IInv, NEW arg \in Words, SecondTarget(arg) PROVE IInv'
<1>1. Read(arg) /\ Fail /\ rc = "OK" /\ arg \notin Dashed
  BY DEF SecondTarget, IInv, Place
<1>2. \A i \in StandingOf(argv') : argv'[i] \notin Dashed
  BY <1>1, NoMoreDashes
<1> QED BY <1>1, <1>2, WordNext, FailStep

LEMMA EndOfWordsStep == ASSUME IInv, EndOfWords PROVE IInv'
<1>1. /\ pc = "word" /\ pc' = "main" /\ argv' = argv /\ config' = config
      /\ (rc' = "OK" /\ Consistent(config)) \/ rc' = "ERR_USAGE"
  BY DEF EndOfWords
<1>2. rc = "OK" /\ ~Waits(argv) /\ NoEarly
  BY <1>1 DEF IInv, Place, Ending
<1>3. argv' \in Seq(Words) /\ Readable(argv')
  BY <1>1 DEF IInv
<1>4. Place'
  BY <1>1 DEF Place
<1>5. Settings'
  <2>1. ASSUME NEW f PROVE Given(f)' = Given(f)
    BY <1>1 DEF Given
  <2>2. Settings
    BY DEF IInv
  <2> QED BY <1>1, <1>2, <2>1, <2>2 DEF Settings
<1>6. Ending'
  <2>1. Consistent(config)' <=> Consistent(config)
    BY <1>1 DEF Consistent
  <2>2. NoEarly'
    BY <1>1, <1>2 DEF NoEarly
  <2> QED BY <1>1, <1>2, <2>1, <2>2 DEF Ending
<1>7. DashedEnds'
  BY <1>1, <1>2, NoDashes DEF DashedEnds
<1>8. Chosen'
  BY <1>1 DEF Chosen
<1> QED BY <1>3, <1>4, <1>5, <1>6, <1>7, <1>8 DEF IInv

LEMMA DispatchStep == ASSUME IInv, Dispatch PROVE IInv'
<1>1. /\ pc = "main" /\ pc' = "exit" /\ argv' = argv /\ config' = config /\ rc' = rc
      /\ mode' = ModeOf(rc, config)
  BY DEF Dispatch, ModeOf
<1>2. Place'
  BY <1>1 DEF Place, IInv
<1>3. Settings'
  <2>1. ASSUME NEW f PROVE Given(f)' = Given(f)
    BY <1>1 DEF Given
  <2> QED BY <1>1, <2>1 DEF Settings, IInv
<1>4. Ending'
  BY <1>1 DEF Ending, IInv, NoEarly, Early, Consistent
<1>5. DashedEnds'
  BY <1>1 DEF DashedEnds, IInv
<1>6. Chosen'
  BY <1>1 DEF Chosen
<1> QED BY <1>1, <1>2, <1>3, <1>4, <1>5, <1>6 DEF IInv

(* What is known when a word is read that is not a value. *)
LEMMA WordFacts ==
  ASSUME IInv, pc = "word", NEW arg \in Words, Read(arg)
  PROVE  /\ rc = "OK" /\ ~Waits(argv) /\ NoEarly
         /\ \A g : Given(g) = Occ(g, argv)
         /\ \A g : Occ(g, argv) \subseteq 1..Len(argv)
         /\ \A g : arg \in Names(g) => Occ(g, argv') = Occ(g, argv) \cup {Len(argv')}
         /\ \A g : arg \notin Names(g) => Occ(g, argv') = Occ(g, argv)
         /\ Free(argv) \subseteq 1..Len(argv)
         /\ find_option(arg) = {} => Free(argv') = Free(argv) \cup {Len(argv')}
         /\ find_option(arg) # {} => Free(argv') = Free(argv)
         /\ Waits(argv') <=> TakesValue(arg)
         /\ DOMAIN config = Fields \cup {"target"}
         /\ \A g \in Fields : Setting(g, Occ(g, argv), argv', config[g])
         /\ TargetIs(Free(argv), argv', config["target"])
<1>1. rc = "OK" /\ ~Waits(argv) /\ NoEarly
  BY DEF IInv, Place, Ending
<1>2. \A g : Given(g) = Occ(g, argv)
  BY DEF Given
<1>3. argv \in Seq(Words) /\ Readable(argv) /\ argv' = Append(argv, arg) /\ Len(argv') = Len(argv) + 1
  BY WordNext DEF IInv
<1>4. /\ \A g : Occ(g, argv) \subseteq 1..Len(argv)
      /\ \A g : arg \in Names(g) => Occ(g, argv') = Occ(g, argv) \cup {Len(argv')}
      /\ \A g : arg \notin Names(g) => Occ(g, argv') = Occ(g, argv)
      /\ Free(argv) \subseteq 1..Len(argv)
      /\ find_option(arg) = {} => Free(argv') = Free(argv) \cup {Len(argv')}
      /\ find_option(arg) # {} => Free(argv') = Free(argv)
  BY <1>1, <1>3, WordRead
<1>5. Waits(argv') <=> TakesValue(arg)
  BY <1>1, <1>3, OneMoreWord
<1>6. /\ DOMAIN config = Fields \cup {"target"}
      /\ \A g \in Fields : Setting(g, Occ(g, argv), argv, config[g])
      /\ TargetIs(Free(argv), argv, config["target"])
  BY <1>1, <1>2 DEF IInv, Settings
<1>7. \A g \in Fields : Setting(g, Occ(g, argv), argv', config[g])
  BY <1>3, <1>4, <1>6, SettingKept
<1>8. TargetIs(Free(argv), argv', config["target"])
  BY <1>3, <1>4, <1>6, TargetKept
<1> QED BY <1>1, <1>2, <1>4, <1>5, <1>6, <1>7, <1>8

LEMMA FlagStep == ASSUME IInv, NEW arg \in Words, Flag(arg) PROVE IInv'
<1>1. /\ pc = "word" /\ Read(arg) /\ rc' = rc
      /\ \E f \in find_option(arg) :
           /\ OPTIONS[f].type = "BOOL" /\ config' = [config EXCEPT ![f] = TRUE]
           /\ pc' = AfterFlag(f)
  BY DEF Flag
<1>2. PICK f \in find_option(arg) :
           /\ OPTIONS[f].type = "BOOL" /\ config' = [config EXCEPT ![f] = TRUE]
           /\ pc' = AfterFlag(f)
  BY <1>1
<1>3. f \in Fields /\ arg \in Names(f)
  BY DEF find_option, Names
<1>4. /\ ~TakesValue(arg) /\ arg \notin Dashed
      /\ \A g \in Fields : g # f => arg \notin Names(g)
      /\ find_option(arg) # {}
  BY <1>2, <1>3, OneOption DEF Names
<1>5. f \in Bools
  BY <1>2, <1>3, FieldNames, FieldTypes
<1>6. /\ rc = "OK" /\ ~Waits(argv') /\ NoEarly /\ DOMAIN config = Fields \cup {"target"}
      /\ Occ(f, argv) \subseteq 1..Len(argv)
      /\ Occ(f, argv') = Occ(f, argv) \cup {Len(argv')}
      /\ \A g \in Fields : g # f => Occ(g, argv') = Occ(g, argv)
      /\ Free(argv') = Free(argv)
      /\ \A g \in Fields : Setting(g, Occ(g, argv), argv', config[g])
      /\ TargetIs(Free(argv), argv', config["target"])
  BY <1>1, <1>3, <1>4, WordFacts
<1>7. argv' \in Seq(Words) /\ Readable(argv') /\ Len(argv) \in Nat /\ Len(argv') = Len(argv) + 1
  BY <1>1, WordNext
<1>8. /\ DOMAIN config' = Fields \cup {"target"} /\ config'[f] = TRUE
      /\ \A g \in Fields : g # f => config'[g] = config[g]
      /\ config'["target"] = config["target"]
  BY <1>2, <1>3, <1>6, NewConfig, TargetIsNoField
<1>9. pc' \in {"word", "main"} /\ (pc' = "main" <=> f \in exits_early)
  BY <1>2 DEF AfterFlag
<1>10. Place'
  BY <1>1, <1>6, <1>9 DEF Place
<1>11. Settings'
  <2>1. ASSUME NEW g PROVE Given(g)' = Occ(g, argv')
    BY <1>9 DEF Given
  <2>2. Setting(f, Occ(f, argv'), argv', config'[f])
    <3>1. \A j \in Occ(f, argv') : j <= Len(argv')
      BY <1>6, <1>7
    <3>2. Value(f, argv', Len(argv'), config'[f])
      BY <1>5, <1>8 DEF Value, Bools, Ints, Strings
    <3> QED BY <1>6, <3>1, <3>2, Zenon DEF Setting
  <2>3. \A g \in Fields : Setting(g, Occ(g, argv'), argv', config'[g])
    BY <1>6, <1>8, <2>2
  <2> QED BY <1>6, <1>8, <2>1, <2>3 DEF Settings
<1>12. Ending'
  <2>0. exits_early \subseteq Fields
    BY FieldNames DEF exits_early, Bools
  <2>1. \A g \in exits_early : g # f => Occ(g, argv') = {}
    BY <1>6, <2>0 DEF NoEarly
  <2>2. CASE f \in exits_early
    <3>1. Occ(f, argv') = {Len(argv')}
      BY <1>6, <2>2 DEF NoEarly
    <3> QED BY <1>9, <2>1, <2>2, <3>1 DEF Ending, Early
  <2>3. CASE f \notin exits_early
    BY <1>9, <2>1, <2>3 DEF Ending, NoEarly
  <2> QED BY <2>2, <2>3
<1>13. DashedEnds'
  BY <1>1, <1>4, <1>6, NoMoreDashes DEF DashedEnds
<1>14. Chosen'
  BY <1>9 DEF Chosen
<1> QED BY <1>7, <1>10, <1>11, <1>12, <1>13, <1>14 DEF IInv

LEMMA OptionNameStep == ASSUME IInv, NEW arg \in Words, OptionName(arg) PROVE IInv'
<1>1. /\ pc = "word" /\ Read(arg) /\ rc' = rc /\ config' = config /\ pc' = "value"
      /\ option' \in find_option(arg) /\ OPTIONS[option'].type # "BOOL"
  BY DEF OptionName
<1> DEFINE f == option'
<1>3. f \in Fields /\ arg \in Names(f)
  BY <1>1 DEF find_option, Names
<1>4. /\ TakesValue(arg) /\ arg \notin Dashed
      /\ \A g \in Fields : g # f => arg \notin Names(g)
      /\ find_option(arg) # {}
  BY <1>1, <1>3, OneOption DEF Names
<1>5. f \in Fields \ Bools
  BY <1>1, <1>3, FieldTypes
<1>6. /\ rc = "OK" /\ NoEarly /\ DOMAIN config = Fields \cup {"target"}
      /\ \A g : Occ(g, argv) \subseteq 1..Len(argv)
      /\ Occ(f, argv') = Occ(f, argv) \cup {Len(argv')}
      /\ \A g \in Fields : g # f => Occ(g, argv') = Occ(g, argv)
      /\ Free(argv') = Free(argv)
      /\ \A g \in Fields : Setting(g, Occ(g, argv), argv', config[g])
      /\ TargetIs(Free(argv), argv', config["target"])
  BY <1>1, <1>3, <1>4, WordFacts
<1>7. argv' \in Seq(Words) /\ Readable(argv') /\ Len(argv) \in Nat /\ Len(argv') = Len(argv) + 1
      /\ argv'[Len(argv')] = arg
  BY <1>1, WordNext
<1>8. Len(argv') \in StandingOf(argv')
  BY <1>6 DEF Occ
<1>10. Place'
  BY <1>1, <1>3, <1>5, <1>6, <1>7, <1>8 DEF Place
<1>11. Settings'
  <2>1. \A g \in Fields : Given(g)' = Occ(g, argv)
    <3>1. \A g : Given(g)' = Occ(g, argv') \ {Len(argv')}
      BY <1>1 DEF Given
    <3>2. \A g : Len(argv') \notin Occ(g, argv)
      BY <1>6, <1>7
    <3> QED BY <1>6, <3>1, <3>2
  <2> QED BY <1>1, <1>6, <2>1 DEF Settings
<1>12. Ending'
  <2>1. exits_early \subseteq Fields \cap Bools
    BY FieldNames DEF exits_early, Bools
  <2>2. \A g \in exits_early : Occ(g, argv') = {}
    BY <1>5, <1>6, <2>1 DEF NoEarly
  <2> QED BY <1>1, <2>2 DEF Ending, NoEarly
<1>13. DashedEnds'
  BY <1>1, <1>4, <1>6, NoMoreDashes DEF DashedEnds
<1>14. Chosen'
  BY <1>1 DEF Chosen
<1> QED BY <1>7, <1>10, <1>11, <1>12, <1>13, <1>14 DEF IInv

LEMMA TargetStep == ASSUME IInv, NEW arg \in Words, Target(arg) PROVE IInv'
<1>1. /\ pc = "word" /\ Read(arg) /\ rc' = rc /\ pc' = pc
      /\ find_option(arg) = {} /\ arg \notin Dashed
      /\ config["target"] = "" /\ config' = [config EXCEPT !["target"] = arg]
  BY DEF Target
<1>2. ~TakesValue(arg) /\ \A g \in Fields : arg \notin Names(g)
  BY <1>1, NoOption DEF Names
<1>3. /\ rc = "OK" /\ ~Waits(argv') /\ NoEarly /\ DOMAIN config = Fields \cup {"target"}
      /\ \A g \in Fields : Occ(g, argv') = Occ(g, argv)
      /\ Free(argv) \subseteq 1..Len(argv) /\ Free(argv') = Free(argv) \cup {Len(argv')}
      /\ \A g \in Fields : Setting(g, Occ(g, argv), argv', config[g])
      /\ TargetIs(Free(argv), argv', config["target"])
  BY <1>1, <1>2, WordFacts
<1>4. /\ argv' \in Seq(Words) /\ Readable(argv') /\ argv'[Len(argv')] = arg
      /\ \A i \in 1..Len(argv) : argv'[i] \in Words
  <2>1. argv' = Append(argv, arg) /\ argv \in Seq(Words)
    BY <1>1, WordNext DEF IInv
  <2>2. \A i \in 1..Len(argv) : argv'[i] \in Words
    BY <2>1
  <2> QED BY <1>1, <2>2, WordNext
<1>5. /\ DOMAIN config' = Fields \cup {"target"} /\ config'["target"] = arg
      /\ \A g \in Fields : config'[g] = config[g]
  BY <1>1, <1>3, NewConfig, TargetIsNoField
<1>6. Place'
  BY <1>1, <1>3 DEF Place
<1>7. TargetIs(Free(argv'), argv', config'["target"])
  <2>1. Free(argv) = {}
    <3>1. ASSUME NEW i \in Free(argv) PROVE argv'[i] # ""
      <4>1. argv'[i] \in Words
        BY <1>3, <1>4
      <4> QED BY <4>1, WordsAssumption, Zenon DEF WordsAssumption
    <3> QED BY <1>1, <1>3, <3>1, Zenon DEF TargetIs
  <2>2. Free(argv') = {Len(argv')}
    BY <1>3, <2>1
  <2> QED BY <1>4, <1>5, <2>2, Zenon DEF TargetIs
<1>8. Settings'
  <2>1. \A g : Given(g)' = Occ(g, argv')
    BY <1>1 DEF Given
  <2> QED BY <1>3, <1>5, <1>7, <2>1 DEF Settings
<1>9. Ending'
  <2>1. exits_early \subseteq Fields
    BY FieldNames DEF exits_early, Bools
  <2> QED BY <1>1, <1>3, <2>1 DEF Ending, NoEarly
<1>10. DashedEnds'
  BY <1>1, <1>3, NoMoreDashes DEF DashedEnds
<1>11. Chosen'
  BY <1>1 DEF Chosen
<1> QED BY <1>4, <1>6, <1>8, <1>9, <1>10, <1>11 DEF IInv

(* A value was read, and v is what it sets the option to. *)
LEMMA ValueStep ==
  ASSUME IInv, pc = "value", NEW arg \in Words, Read(arg), pc' = "word", rc' = rc,
         NEW v, config' = [config EXCEPT ![option] = v],
         option \in Ints => arg \in DOMAIN Numbers /\ v = Numbers[arg] /\ InRange(option, v),
         option \in Strings => v = arg
  PROVE  IInv'
<1>1. /\ Waits(argv) /\ rc = "OK" /\ option \in Fields \ Bools
      /\ Len(argv) \in Occ(option, argv)
      /\ \A g \in Fields : g # option => Len(argv) \notin Occ(g, argv)
  BY ValueWaits
<1>2. argv \in Seq(Words) /\ Readable(argv) /\ argv' = Append(argv, arg)
  BY WordNext DEF IInv
<1>3. /\ argv' \in Seq(Words) /\ Readable(argv') /\ Len(argv) \in Nat
      /\ Len(argv') = Len(argv) + 1 /\ argv'[Len(argv) + 1] = arg
  BY WordNext
<1>4. /\ \A g : Occ(g, argv) \subseteq 1..Len(argv) /\ Occ(g, argv') = Occ(g, argv)
      /\ Free(argv) \subseteq 1..Len(argv) /\ Free(argv') = Free(argv)
  BY <1>1, <1>2, ValueWordRead
<1>5. ~Waits(argv')
  BY <1>1, <1>2, OneMoreWord
<1>6. /\ DOMAIN config = Fields \cup {"target"}
      /\ \A g \in Fields : Setting(g, Given(g), argv, config[g])
      /\ TargetIs(Free(argv), argv, config["target"])
  BY <1>1 DEF IInv, Settings
<1>7. /\ DOMAIN config' = Fields \cup {"target"} /\ config'[option] = v
      /\ \A g \in Fields : g # option => config'[g] = config[g]
      /\ config'["target"] = config["target"]
  BY <1>1, <1>6, NewConfig, TargetIsNoField
<1>8. Place'
  BY <1>1, <1>5 DEF Place
<1>9. Setting(option, Occ(option, argv'), argv', config'[option])
  <2>1. \A j \in Occ(option, argv') : j <= Len(argv)
    BY <1>3, <1>4
  <2>2. Len(argv) \in Occ(option, argv')
    BY <1>1, <1>4
  <2>3. Value(option, argv', Len(argv), v)
    <3>1. Len(argv) + 1 <= Len(argv')
      BY <1>3
    <3> QED BY <1>1, <1>3, <3>1, Zenon DEF Value
  <2> QED BY <1>7, <2>1, <2>2, <2>3, Zenon DEF Setting
<1>10. ASSUME NEW g \in Fields, g # option
       PROVE  Setting(g, Occ(g, argv'), argv', config'[g])
  <2>1. Given(g) = Occ(g, argv)
    BY <1>1, <1>10 DEF Given
  <2>2. Setting(g, Occ(g, argv), argv, config[g])
    BY <1>6, <2>1
  <2>3. Setting(g, Occ(g, argv), argv', config[g])
    BY <1>2, <1>4, <2>2, SettingKept
  <2> QED BY <1>4, <1>7, <1>10, <2>3
<1>11. TargetIs(Free(argv'), argv', config'["target"])
  BY <1>2, <1>4, <1>6, <1>7, TargetKept
<1>12. Settings'
  <2>1. \A g : Given(g)' = Occ(g, argv')
    BY DEF Given
  <2> QED BY <1>7, <1>9, <1>10, <1>11, <2>1 DEF Settings
<1>13. Ending'
  <2>1. NoEarly
    BY DEF IInv, Ending
  <2> QED BY <1>4, <2>1 DEF Ending, NoEarly
<1>14. DashedEnds'
  BY <1>1, NoMoreDashes DEF DashedEnds
<1>15. Chosen'
  BY DEF Chosen
<1> QED BY <1>3, <1>8, <1>12, <1>13, <1>14, <1>15 DEF IInv

LEMMA StringValueStep == ASSUME IInv, NEW arg \in Words, StringValue(arg) PROVE IInv'
<1>1. /\ pc = "value" /\ Read(arg) /\ OPTIONS[option].type = "STRING"
      /\ config' = [config EXCEPT ![option] = arg] /\ pc' = "word" /\ rc' = rc
  BY DEF StringValue
<1>2. option \notin Ints
  BY <1>1, FieldTypes
<1> QED BY <1>1, <1>2, ValueStep

LEMMA IntValueStep == ASSUME IInv, NEW arg \in Words, IntValue(arg) PROVE IInv'
<1>1. /\ pc = "value" /\ Read(arg) /\ OPTIONS[option].type = "INT"
      /\ arg \in DOMAIN Numbers /\ InRange(option, Numbers[arg])
      /\ config' = [config EXCEPT ![option] = Numbers[arg]] /\ pc' = "word" /\ rc' = rc
  BY DEF IntValue, parse_int_range, InRange
<1>2. option \notin Strings
  BY <1>1, FieldTypes
<1> QED BY <1>1, <1>2, ValueStep

LEMMA IInvNext == IInv /\ [Next]_vars => IInv'
<1> SUFFICES ASSUME IInv, [Next]_vars PROVE IInv'
  OBVIOUS
<1>1. CASE \E arg \in Words : Flag(arg) \/ OptionName(arg) \/ StringValue(arg) \/ IntValue(arg)
                           \/ BadIntValue(arg) \/ UnknownOption(arg) \/ Target(arg)
                           \/ SecondTarget(arg)
  BY <1>1, FlagStep, OptionNameStep, StringValueStep, IntValueStep, BadIntValueStep,
     UnknownOptionStep, TargetStep, SecondTargetStep
<1>2. CASE NoValue \/ EndOfWords \/ Dispatch
  BY <1>2, NoValueStep, EndOfWordsStep, DispatchStep
<1>3. CASE UNCHANGED vars
  <2>1. argv' = argv /\ config' = config /\ pc' = pc /\ option' = option /\ rc' = rc /\ mode' = mode
    BY <1>3 DEF vars
  <2> QED BY <2>1
       DEF IInv, Place, Settings, Given, Ending, NoEarly, Early, Consistent, DashedEnds, Chosen
<1> QED BY <1>1, <1>2, <1>3 DEF Next, Exited

LEMMA Invariant == Spec => []IInv
  BY IInvInit, IInvNext, PTL DEF Spec

-----------------------------------------------------------------------------
(* What follows from the invariant when the program is over. *)

LEMMA Everything ==
  ASSUME IInv, pc = "exit"
  PROVE  /\ Standing = StandingOf(argv) /\ Targets = Free(argv)
         /\ \A f : Occurrences(f) = Occ(f, argv)
         /\ rc = "OK" => /\ \A f \in Fields : Setting(f, Occ(f, argv), argv, config[f])
                         /\ TargetIs(Free(argv), argv, config["target"])
         /\ argv \in Seq(Words) /\ \A f : Occ(f, argv) \subseteq 1..Len(argv)
<1>1. \A f : Given(f) = Occ(f, argv)
  BY DEF Given
<1>2. \A f : Occurrences(f) = Occ(f, argv)
  BY StandingIs DEF Occurrences, Occ, Names
<1>3. Targets = Free(argv)
  BY StandingIs DEF Targets, Free
<1>4. \A f : Occ(f, argv) \subseteq 1..Len(argv)
  BY DEF Occ, StandingOf
<1> QED BY <1>1, <1>2, <1>3, <1>4, StandingIs DEF IInv, Settings

LEMMA LastIs ==
  ASSUME NEW S, NEW n \in Nat, S \subseteq 1..n, NEW l \in S, \A j \in S : j <= l
  PROVE  LastOf(S) = l
<1>1. LastOf(S) \in S /\ \A j \in S : j <= LastOf(S)
  BY Zenon DEF LastOf
<1> DEFINE m == LastOf(S)
<1> HIDE DEF m
<1>2. m \in 1..n /\ l \in 1..n /\ m <= l /\ l <= m
  BY <1>1 DEF m
<1>3. m = l
  BY <1>2
<1> QED BY <1>3 DEF m

Tells(S, c) == c \in BOOLEAN /\ (c <=> S # {})

LEMMA BoolSetting ==
  ASSUME NEW f \in Bools, NEW S, NEW s, NEW c, Setting(f, S, s, c)
  PROVE  Tells(S, c)
<1>1. CASE S = {}
  <2>1. c = FALSE
    BY <1>1, Defaults, Zenon DEF Setting
  <2> QED BY <1>1, <2>1 DEF Tells
<1>2. CASE S # {}
  <2>1. c = TRUE
    BY <1>2, Zenon DEF Setting, Value
  <2> QED BY <1>2, <2>1 DEF Tells
<1> QED BY <1>1, <1>2

LEMMA PathIsWord ==
  ASSUME NEW f \in Strings, NEW s \in Seq(Words), NEW S, S \subseteq 1..Len(s),
         NEW c, Setting(f, S, s, c), S # {}
  PROVE  c \in Words
<1>1. PICK l \in S : Value(f, s, l, c)
  BY Zenon DEF Setting
<1>2. f \notin Bools
  BY DEF Strings, Bools
<1>3. l + 1 <= Len(s) /\ c = s[l + 1]
  BY <1>1, <1>2, Zenon DEF Value
<1>4. l \in 1..Len(s) /\ Len(s) \in Nat
  OBVIOUS
<1>5. l + 1 \in 1..Len(s)
  BY <1>3, <1>4
<1> QED BY <1>3, <1>5

LEMMA StringSetting ==
  ASSUME NEW f \in Strings, NEW s \in Seq(Words), NEW S, S \subseteq 1..Len(s),
         NEW c, Setting(f, S, s, c), c = ""
  PROVE  S = {}
<1>1. S # {} => c \in Words
  BY PathIsWord
<1> QED BY <1>1, WordsAssumption, Zenon DEF WordsAssumption

LEMMA IntSetting ==
  ASSUME NEW f \in Ints, NEW S, NEW s, NEW c, Setting(f, S, s, c)
  PROVE  InRange(f, c)
<1>1. CASE S = {}
  BY <1>1, Defaults, Zenon DEF Setting
<1>2. CASE S # {}
  BY <1>2, Zenon DEF Setting, Value
<1> QED BY <1>1, <1>2

LEMMA SettingIsLast ==
  ASSUME NEW f \in Fields, NEW s \in Seq(Words), NEW S, S \subseteq 1..Len(s),
         NEW c, Setting(f, S, s, c)
  PROVE  /\ S = {} => c = config_init_defaults[f]
         /\ S # {} => /\ f \in Bools => c = TRUE
                      /\ f \in Ints => c = Numbers[s[LastOf(S) + 1]]
                      /\ f \in Strings => c = s[LastOf(S) + 1]
<1>1. S = {} => c = config_init_defaults[f]
  BY Zenon DEF Setting
<1>2. ASSUME S # {}
      PROVE  /\ f \in Bools => c = TRUE
             /\ f \in Ints => c = Numbers[s[LastOf(S) + 1]]
             /\ f \in Strings => c = s[LastOf(S) + 1]
  <2>1. PICK l \in S : (\A j \in S : j <= l) /\ Value(f, s, l, c)
    BY <1>2, Zenon DEF Setting
  <2>2. LastOf(S) = l
    <3>1. Len(s) \in Nat
      OBVIOUS
    <3> QED BY <2>1, <3>1, LastIs
  <2> QED BY <2>1, <2>2, Zenon DEF Value
<1> QED BY <1>1, <1>2

LEMMA LastOptionInv == IInv => LastOptionWins
<1> SUFFICES ASSUME IInv, pc = "exit", rc = "OK"
    PROVE  /\ \A f \in Fields :
                IF Occurrences(f) = {} THEN config[f] = config_init_defaults[f]
                ELSE CASE OPTIONS[f].type = "BOOL" -> config[f] = TRUE
                       [] OPTIONS[f].type = "INT" ->
                            config[f] = Numbers[argv[LastOf(Occurrences(f)) + 1]]
                       [] OPTIONS[f].type = "STRING" ->
                            config[f] = argv[LastOf(Occurrences(f)) + 1]
           /\ config.target = IF Targets = {} THEN "" ELSE argv[LastOf(Targets)]
  BY DEF LastOptionWins
<1>1. ASSUME NEW f \in Fields
      PROVE  /\ Occurrences(f) = {} => config[f] = config_init_defaults[f]
             /\ Occurrences(f) # {} =>
                  /\ f \in Bools => config[f] = TRUE
                  /\ f \in Ints => config[f] = Numbers[argv[LastOf(Occurrences(f)) + 1]]
                  /\ f \in Strings => config[f] = argv[LastOf(Occurrences(f)) + 1]
  <2>1. /\ argv \in Seq(Words) /\ Occurrences(f) \subseteq 1..Len(argv)
        /\ Setting(f, Occurrences(f), argv, config[f])
    BY Everything
  <2> QED BY <2>1, SettingIsLast
<1>2. ASSUME NEW f \in Fields
      PROVE  IF Occurrences(f) = {} THEN config[f] = config_init_defaults[f]
             ELSE CASE OPTIONS[f].type = "BOOL" -> config[f] = TRUE
                    [] OPTIONS[f].type = "INT" ->
                         config[f] = Numbers[argv[LastOf(Occurrences(f)) + 1]]
                    [] OPTIONS[f].type = "STRING" ->
                         config[f] = argv[LastOf(Occurrences(f)) + 1]
  <2> DEFINE ty == OPTIONS[f].type
             O == Occurrences(f)
             c == config[f]
             number == Numbers[argv[LastOf(O) + 1]]
             word == argv[LastOf(O) + 1]
  <2>1. CASE O = {}
    BY <1>1, <2>1
  <2>2. CASE O # {} /\ f \in Bools
    <3>1. c = TRUE
      BY <1>1, <2>2
    <3>2. ty = "BOOL" /\ ty # "INT" /\ ty # "STRING"
      BY <2>2, FieldTypes
    <3> HIDE DEF ty, O, c, number, word
    <3>3. IF O = {} THEN c = config_init_defaults[f]
          ELSE CASE ty = "BOOL" -> c = TRUE [] ty = "INT" -> c = number
                 [] ty = "STRING" -> c = word
      BY <2>2, <3>1, <3>2
    <3> QED BY <3>3 DEF ty, O, c, number, word
  <2>3. CASE O # {} /\ f \in Ints
    <3>1. c = number
      BY <1>1, <2>3
    <3>2. ty = "INT" /\ ty # "BOOL" /\ ty # "STRING"
      BY <2>3, FieldTypes
    <3> HIDE DEF ty, O, c, number, word
    <3>3. IF O = {} THEN c = config_init_defaults[f]
          ELSE CASE ty = "BOOL" -> c = TRUE [] ty = "INT" -> c = number
                 [] ty = "STRING" -> c = word
      BY <2>3, <3>1, <3>2
    <3> QED BY <3>3 DEF ty, O, c, number, word
  <2>4. CASE O # {} /\ f \in Strings
    <3>1. c = word
      BY <1>1, <2>4
    <3>2. ty = "STRING" /\ ty # "BOOL" /\ ty # "INT"
      BY <2>4, FieldTypes
    <3> HIDE DEF ty, O, c, number, word
    <3>3. IF O = {} THEN c = config_init_defaults[f]
          ELSE CASE ty = "BOOL" -> c = TRUE [] ty = "INT" -> c = number
                 [] ty = "STRING" -> c = word
      BY <2>4, <3>1, <3>2
    <3> QED BY <3>3 DEF ty, O, c, number, word
  <2> QED BY <2>1, <2>2, <2>3, <2>4, FieldNames
<1>3. config.target = IF Targets = {} THEN "" ELSE argv[LastOf(Targets)]
  <2>1. TargetIs(Targets, argv, config.target)
    BY Everything
  <2>2. ASSUME NEW i \in Targets, Targets = {i} PROVE LastOf(Targets) = i
    <3>1. i \in Nat /\ Targets \subseteq 1..i /\ \A j \in Targets : j <= i
      BY <2>2, Everything DEF Free, StandingOf
    <3> QED BY <3>1, LastIs
  <2> QED BY <2>1, <2>2, Zenon DEF TargetIs
<1> QED BY <1>2, <1>3

LEMMA RunnableInv == IInv => ModeIsRunnable
<1> SUFFICES ASSUME IInv, pc = "exit" PROVE ModeIsRunnable
  BY DEF ModeIsRunnable
<1>1. mode = ModeOf(rc, config)
  BY DEF IInv, Chosen
<1>2. rc \in {"OK", "ERR_USAGE"}
  BY DEF IInv, Place
<1>3. rc # "OK" => mode = "usage"
  BY <1>1, Zenon DEF ModeOf
<1>4. \A i \in Standing : argv[i] \in Dashed => mode = "usage" /\ i = Len(argv)
  BY <1>3, Everything DEF IInv, DashedEnds
<1>5. CASE rc # "OK"
  BY <1>3, <1>4, <1>5 DEF ModeIsRunnable
<1>6. CASE rc = "OK"
  <2> DEFINE On(f) == Occurrences(f) # {}
  <2>1. ASSUME NEW f \in Bools
        PROVE  config[f] \in BOOLEAN /\ (config[f] <=> On(f))
    <3>1. Setting(f, Occurrences(f), argv, config[f])
      BY <1>6, Everything, FieldNames
    <3>2. Tells(Occurrences(f), config[f])
      BY <3>1, BoolSetting
    <3> QED BY <3>2 DEF Tells
  <2>2. ASSUME NEW f \in Strings, config[f] = "" PROVE Occurrences(f) = {}
    <3>1. /\ Setting(f, Occurrences(f), argv, config[f]) /\ argv \in Seq(Words)
          /\ Occurrences(f) \subseteq 1..Len(argv)
      BY <1>6, Everything, FieldNames
    <3> QED BY <2>2, <3>1, StringSetting
  <2>3. ASSUME NEW f \in Fields, OPTIONS[f].type = "INT"
        PROVE  config[f] \in OPTIONS[f].min..OPTIONS[f].max
    <3>1. f \in Ints
      BY <2>3, FieldNames, FieldTypes
    <3>2. Setting(f, Occurrences(f), argv, config[f])
      BY <1>6, Everything
    <3> QED BY <3>1, <3>2, IntSetting DEF InRange
  <2>4. /\ config.help <=> On("help")
        /\ config.version <=> On("version")
        /\ config.trace <=> On("trace")
        /\ config.mtr <=> On("mtr")
    BY <2>1 DEF Bools
  <2>5. mode = IF On("help") THEN "help" ELSE IF On("version") THEN "version"
               ELSE IF On("trace") THEN "trace" ELSE IF On("mtr") THEN "mtr" ELSE "ping"
    <3> HIDE DEF On
    <3>1. mode = IF config.help THEN "help" ELSE IF config.version THEN "version"
                 ELSE IF config.trace THEN "trace" ELSE IF config.mtr THEN "mtr" ELSE "ping"
      BY <1>1, <1>6 DEF ModeOf
    <3> QED BY <2>4, <3>1
  <2>6. (\E h \in exits_early : Early(h)) \/ (Consistent(config) /\ ~Waits(argv) /\ NoEarly)
    BY <1>6 DEF IInv, Ending
  <2>7. CASE \E h \in exits_early : Early(h)
    <3>1. PICK h \in exits_early : Early(h)
      BY <2>7
    <3>2. /\ Occurrences(h) = {Len(argv)}
          /\ \A g \in exits_early : g # h => Occurrences(g) = {}
      BY <3>1, Everything DEF Early
    <3>3. mode = h
      <4>1. CASE h = "help"
        BY <2>5, <3>2, <4>1
      <4>2. CASE h = "version"
        BY <2>5, <3>2, <4>2 DEF exits_early
      <4> QED BY <4>1, <4>2 DEF exits_early
    <3> QED BY <1>4, <3>2, <3>3 DEF ModeIsRunnable, exits_early
  <2>8. CASE Consistent(config) /\ ~Waits(argv) /\ NoEarly
    <3>1. ~On("help") /\ ~On("version")
      BY <2>8, Everything DEF NoEarly, exits_early
    <3>2. ~(On("trace") /\ On("mtr"))
      BY <2>4, <2>8 DEF Consistent
    <3>3. ~On("mtr") => \A f \in {"baseline_save_path", "baseline_compare_path", "report_path"} :
                          Occurrences(f) = {}
      <4>1. ~On("mtr") => /\ config["baseline_save_path"] = ""
                          /\ config["baseline_compare_path"] = ""
                          /\ config["report_path"] = ""
        BY <2>4, <2>8, Zenon DEF Consistent
      <4> HIDE DEF On
      <4> QED BY <2>2, <4>1, Zenon DEF Strings
    <3>4. \E i \in Standing : Targets = {i}
      <4>1. config["target"] # ""
        BY <2>8, Zenon DEF Consistent
      <4>2. TargetIs(Targets, argv, config["target"])
        BY <1>6, Everything
      <4>3. \E i \in Targets : Targets = {i}
        BY <4>1, <4>2, Zenon DEF TargetIs
      <4> QED BY <4>3 DEF Targets
    <3>5. argv # <<>> /\ TakesValue(argv[Len(argv)]) => Len(argv) \notin Standing
      <4>1. argv # <<>> => Len(argv) # 0
        BY Everything
      <4> QED BY <2>8, <4>1, StandingIs DEF Waits
    <3>6. /\ mode \in {"ping", "trace", "mtr"}
          /\ mode = "mtr" <=> On("mtr")
      BY <2>5, <3>1, <3>2
    <3>7. \A f \in Fields : OPTIONS[f].type = "INT" =>
            config[f] \in OPTIONS[f].min..OPTIONS[f].max
      BY <2>3
    <3> HIDE DEF On
    <3>8. mode # "help" /\ mode # "version"
      BY <3>6
    <3>9. mode # "mtr" =>
            \A f \in {"baseline_save_path", "baseline_compare_path", "report_path"} :
              Occurrences(f) = {}
      BY <3>3, <3>6
    <3> QED BY <1>4, <3>1, <3>2, <3>4, <3>5, <3>6, <3>7, <3>8, <3>9, Zenon
            DEF ModeIsRunnable, On
  <2> QED BY <2>6, <2>7, <2>8
<1> QED BY <1>5, <1>6

-----------------------------------------------------------------------------
(* Every setting is the one its last option gives it, or the default, for    *)
(* every command line that parse_cli accepts, however long.                  *)
THEOREM SettingsCorrect == Spec => []LastOptionWins
  BY Invariant, LastOptionInv, PTL

(* Whatever the words and their order, a mode runs only with one target and  *)
(* settings it can work with; --help, --version and an unknown option end    *)
(* the reading.                                                              *)
THEOREM ModeCorrect == Spec => []ModeIsRunnable
  BY Invariant, RunnableInv, PTL
=============================================================================
