---------------------------- MODULE MCSampleRate ----------------------------
(***************************************************************************)
(* The tracks the runs of the sample rate are given: up to three payloads  *)
(* of 0, 2 or 3 samples, four of 0 or 2, with TSMP from some start or      *)
(* without, timestamps that follow the clock, stand still or are not, and  *)
(* whole or with one payload that does not open.                           *)
(***************************************************************************)
EXTENDS SampleRate

MCScales == <<100, 10, 1>>

Step == 10

Counts == UNION {[0..(n - 1) -> {0, 2, 3}] : n \in 1..3} \union [0..3 -> {0, 2}]

UpTo(counts, i) == FoldFunction(+, 0, [j \in 0..i |-> counts[j]])

Without == 0 - 1

Stamp(how, i) ==
  CASE how = "none" -> 0 [] how = "stuck" -> 40 [] how = "clock" -> 30 + 10 * i * Step

TrackOf(counts, total, how, hit, state, short) ==
  LET n == Cardinality(DOMAIN counts)
  IN [payloads |-> [i \in DOMAIN counts |->
        [samples |-> counts[i],
         total |-> IF counts[i] = 0 \/ total = Without THEN 0 ELSE total + UpTo(counts, i),
         stamp |-> IF counts[i] = 0 THEN 0 ELSE Stamp(how, i),
         base  |-> IF how = "none" THEN 0 ELSE 30,
         state |-> IF i = hit THEN state ELSE "good"]],
      upto |-> [i \in 0..n |-> IF i = 0 THEN 0 ELSE UpTo(counts, i - 1)],
      step |-> Step, length |-> n * Step - short, edit |-> 3]

Whole ==
  {TrackOf(c, total, how, 0, "good", short) :
     c \in Counts, total \in {Without, 0, 1, 7}, how \in {"none", "clock", "stuck"},
     short \in {0, 4}}

Hit ==
  UNION {{TrackOf(c, 0, how, hit, state, 0) : hit \in DOMAIN c, state \in {"bad", "empty"},
          how \in {"none", "clock"}} : c \in Counts}

MCTracks == Whole \union Hit
=============================================================================
