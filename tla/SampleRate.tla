----------------------------- MODULE SampleRate -----------------------------
(***************************************************************************)
(* GetGPMFSampleRate: the rate of one key from the payloads of a track.    *)
(* The first and the last payload with the key are found, their samples    *)
(* totalled, and a rate taken from their timestamps, or from the clock of  *)
(* the track, or fitted.  A step is one payload read or one block of code  *)
(* between two reads; every read overwrites the buffer that the stream ms  *)
(* is open on.                                                             *)
(*                                                                         *)
(* Of a payload only what concerns the key is kept: how many samples (0: it *)
(* has not the key), the total of TSMP and the STMP beside them (0: none), *)
(* the STMP of the time base (0: none), and whether GPMF_Init opens it.    *)
(* Rates and times are fractions; 0/0 is what the division gives.          *)
(***************************************************************************)
EXTENDS Integers, Sequences, FiniteSets, SequencesExt, FiniteSetsExt

CONSTANTS
  Tracks,     (* [payloads, upto, step, length, edit]: the payloads from 0, *)
              (* the samples before each, how long each lasts, all of them, *)
              (* and the edit list offset                                   *)
  Scales,     (* the units of timestamps tried, the finest first            *)
  Modulus     (* 2^32: samples are counted in 32 bits                       *)

ASSUME ModulusAssumption == Modulus \in Nat \ {0}

ASSUME ScaleAssumption == \A k \in DOMAIN Scales : Scales[k] \in Nat \ {0}

Counter == 0..(Modulus - 1)

Payload ==
  [samples: Counter, total: Counter, stamp: Nat, base: Nat, state: {"good", "bad", "empty"}]

(* The code never sees upto: the properties compare what it counts with it. *)
ASSUME TracksAssumption ==
  \A t \in Tracks :
    LET n == Cardinality(DOMAIN t.payloads)
    IN /\ n \in Nat \ {0}
       /\ t.payloads \in [0..(n - 1) -> Payload]
       /\ t.upto \in [0..n -> Nat] /\ t.upto[0] = 0
       /\ \A i \in 0..(n - 1) : t.upto[i + 1] = t.upto[i] + t.payloads[i].samples

VARIABLES
  track, flags,       (* what the call is given                             *)
  phase,              (* the loop or the block the call is in               *)
  teststart, testend, (* the first and the last payload with the key        *)
  at,                 (* the payload of the counting loops                  *)
  ms,                 (* the payload the stream is open on, and where       *)
  found,              (* what was read and counted                          *)
  repeatarray,        (* the samples up to each payload, or 0               *)
  rate, first,        (* the rate, and the time of the first sample         *)
  times               (* what is returned: first and last sample time       *)

vars == <<track, flags, phase, teststart, testend, at, ms, found, repeatarray, rate, first, times>>

payloads == track.payloads

indexcount == Cardinality(DOMAIN payloads)

Zero == <<0, 1>>

Unset == << >>

(* A stream whose buffer is NULL.                                           *)
Nowhere == [on |-> 0 - 1, key |-> FALSE]

Nothing ==
  [samples |-> 0, startsamples |-> 0, endsamples |-> 0,
   starttimestamp |-> 0, basetimestamp |-> 0, usedTimeStamps |-> FALSE]

(* Once the first payload is read; with no payload the call is over.        *)
Init ==
  /\ track \in Tracks
  /\ flags \in {"fast", "precise"}
  /\ phase = "open"
  /\ teststart = 0 /\ testend = indexcount /\ at = 0
  /\ ms = Nowhere
  /\ found = Nothing
  /\ repeatarray = [i \in DOMAIN payloads |-> 0]
  /\ rate = Zero /\ first = Zero /\ times = Unset

-----------------------------------------------------------------------------
Opens(i) == i \in DOMAIN payloads /\ payloads[i].state = "good"

Holds(i) == Opens(i) /\ payloads[i].samples > 0

(* Mutant: the stream is cleared whatever it was given.                     *)
OpenedCleared(i) == IF Opens(i) THEN [on |-> i, key |-> FALSE] ELSE Nowhere

(* GetPayload and GPMF_Init: past the index, or empty, a payload is NULL    *)
(* and the stream is left as it is; a bad one clears it.                    *)
Opened(i) ==
  IF Opens(i) THEN [on |-> i, key |-> FALSE]
  ELSE IF i \in DOMAIN payloads /\ payloads[i].state = "bad" THEN Nowhere ELSE ms

(* ... and GPMF_FindNext.                                                   *)
Searched(i) == [Opened(i) EXCEPT !.key = IF Holds(i) THEN TRUE ELSE @]

PayloadTime(i) ==
  [in  |-> i * track.step + track.edit,
   out |-> Min({(i + 1) * track.step, track.length}) + track.edit]

Less(a, b) == (a - b + Modulus) % Modulus

Now(p) == phase = p

Open ==
  /\ Now("open")
  /\ ms' = Opened(0)
  /\ phase' = IF Opens(0) THEN "first" ELSE "done"
  /\ UNCHANGED <<track, flags, teststart, testend, at, found, repeatarray, rate, first, times>>

(* Mutant: a payload that does not open is taken for the first.             *)
SkipFirstUnchecked ==
  /\ Now("first") /\ ~Holds(teststart)
  /\ teststart' = teststart + 1
  /\ ms' = Opened(teststart + 1)
  /\ phase' = IF Opens(teststart + 1) THEN "first" ELSE "last"
  /\ UNCHANGED <<track, flags, testend, at, found, repeatarray, rate, first, times>>

(* The loop that looks for the first payload with the key.                  *)
SkipFirst ==
  /\ Now("first") /\ ~Holds(teststart)
  /\ teststart' = teststart + 1
  /\ ms' = Opened(teststart + 1)
  /\ phase' = IF Opens(teststart + 1) THEN "first" ELSE "done"
  /\ UNCHANGED <<track, flags, testend, at, found, repeatarray, rate, first, times>>

(* Mutant: the samples of the first payload count as before it.             *)
BeforeAll(p) == p.total

(* TSMP counts the samples up to the end of its payload.                    *)
Before(p) == IF p.total # 0 THEN Less(p.total, p.samples) ELSE 0

NoteFirst ==
  /\ Now("first") /\ Holds(teststart)
  /\ LET p == payloads[teststart]
     IN found' = [Nothing EXCEPT !.samples = p.samples, !.startsamples = Before(p),
                    !.starttimestamp = p.stamp,
                    !.basetimestamp = IF p.stamp # 0 /\ p.base # 0 THEN p.base ELSE p.stamp]
  /\ testend' = indexcount
  /\ phase' = "last"
  /\ ms' = Searched(teststart)
  /\ UNCHANGED <<track, flags, teststart, at, repeatarray, rate, first, times>>

(* The loop that looks for the last payload with the key.  In payload 0 it  *)
(* stops without looking.                                                   *)
Looked(i) == IF i = 0 THEN Opened(i) ELSE Searched(i)

FindLast ==
  /\ Now("last")
  /\ testend' = testend - 1
  /\ LET i == testend - 1
     IN /\ ms' = Looked(i)
        /\ phase' = IF i > 0 /\ Opens(i) /\ ~Holds(i) THEN "last" ELSE "total"
  /\ UNCHANGED <<track, flags, teststart, at, found, repeatarray, rate, first, times>>

(* TSMP is found from the key only.                                         *)
Total ==
  /\ Now("total")
  /\ IF ms.key /\ payloads[ms.on].total # 0
     THEN /\ found' = [found EXCEPT !.endsamples = payloads[ms.on].total]
          /\ phase' = "stamps"
     ELSE /\ phase' = IF teststart <= testend THEN "count" ELSE "stamps"
          /\ UNCHANGED found
  /\ at' = teststart
  /\ UNCHANGED <<track, flags, teststart, testend, ms, repeatarray, rate, first, times>>

(* Mutant: one payload too many is counted.                                 *)
MoreLong(i) == i <= testend

More(i) == i < testend

CountSamples ==
  /\ Now("count")
  /\ ms' = Searched(at)
  /\ found' = [found EXCEPT !.endsamples =
                 IF Holds(at) THEN (@ + payloads[at].samples) % Modulus ELSE @]
  /\ at' = at + 1
  /\ phase' = IF More(at) THEN "count" ELSE "stamps"
  /\ UNCHANGED <<track, flags, teststart, testend, repeatarray, rate, first, times>>

-----------------------------------------------------------------------------
(* The rate.  When endsamples does not exceed startsamples the samples of   *)
(* the first payload have to do.                                            *)
Span == PayloadTime(testend).out - PayloadTime(teststart).in

Approximate ==
  <<IF found.endsamples > found.startsamples THEN found.endsamples - found.startsamples
    ELSE found.samples, Span>>

Near(r, a) ==
  /\ r[2] # 0 /\ a[2] > 0
  /\ 9 * r[1] * a[2] < 10 * a[1] * r[2] /\ 10 * a[1] * r[2] < 11 * r[1] * a[2]

WithoutStamps == IF flags = "fast" THEN "fast" ELSE "fit"

(* Mutant: the samples of the last payload, after its timestamp, count too. *)
StampedAll(last) == Less(found.endsamples, found.startsamples)

Stamped(last) == Less(Less(found.endsamples, last), found.startsamples)

(* PayloadSampleCount reads the stream wherever it is.                      *)
UseStamps ==
  /\ Now("stamps") /\ found.starttimestamp # 0 /\ ms # Nowhere
  /\ at' = teststart
  /\ LET p == payloads[ms.on]
         stamp == IF ms.key THEN p.stamp ELSE 0
         passed == stamp - found.starttimestamp
         by(k) == <<Stamped(p.samples) * Scales[k], passed>>
         fits == {k \in DOMAIN Scales : Near(by(k), Approximate)}
         k == Min(fits)
     IN /\ found' = [found EXCEPT !.usedTimeStamps = stamp # 0]
        /\ IF stamp = 0 \/ fits = {}
           THEN phase' = WithoutStamps /\ UNCHANGED <<rate, first>>
           ELSE /\ rate' = by(k)
                /\ first' = <<found.starttimestamp - found.basetimestamp, Scales[k]>>
                /\ phase' = "times"
  /\ UNCHANGED <<track, flags, teststart, testend, ms, repeatarray, times>>

NoStamps ==
  /\ Now("stamps") /\ found.starttimestamp = 0
  /\ at' = teststart
  /\ phase' = WithoutStamps
  /\ UNCHANGED <<track, flags, teststart, testend, ms, found, repeatarray, rate, first, times>>

(* A NULL buffer is read.                                                   *)
Crash ==
  /\ Now("stamps") /\ found.starttimestamp # 0 /\ ms = Nowhere
  /\ phase' = "crashed"
  /\ UNCHANGED <<track, flags, teststart, testend, at, ms, found, repeatarray, rate, first, times>>

Fast ==
  /\ Now("fast")
  /\ rate' = Approximate
  /\ first' = <<PayloadTime(teststart).in, 1>>
  /\ phase' = "times"
  /\ UNCHANGED <<track, flags, teststart, testend, at, ms, found, repeatarray, times>>

(* Mutant: the samples of each payload alone.                               *)
SoFarNone == 0

(* The samples so far, payload by payload; found.samples starts at 0 again. *)
SoFar == IF at = teststart THEN 0 ELSE found.samples

FitPayload ==
  /\ Now("fit") /\ at <= testend
  /\ ms' = Searched(at)
  /\ IF ~Opens(at) THEN phase' = "done" /\ UNCHANGED <<found, repeatarray, at>>
     ELSE LET n == SoFar + payloads[at].samples
          IN /\ found' = [found EXCEPT !.samples = n]
             /\ repeatarray' = [repeatarray EXCEPT ![at] = IF Holds(at) THEN n ELSE 0]
             /\ at' = at + 1
             /\ UNCHANGED phase
  /\ UNCHANGED <<track, flags, teststart, testend, rate, first, times>>

Points == {i \in DOMAIN repeatarray : repeatarray[i] # 0}

(* The line of best fit through the ends of the payloads: its slope, and    *)
(* where it meets zero.                                                     *)
FitLine ==
  /\ Now("fit") /\ at > testend
  /\ LET n     == Cardinality(Points)
         X(i)  == PayloadTime(i).out
         Y(i)  == repeatarray[i]
         sum(f(_)) == FoldFunction(+, 0, [i \in Points |-> f(i)])
         product(i) == X(i) * Y(i)
         square(i)  == X(i) * X(i)
         top   == n * sum(product) - sum(X) * sum(Y)
         bot   == n * sum(square) - sum(X) * sum(X)
     IN /\ rate' = <<top, bot>>
        /\ first' = <<sum(X) * top - sum(Y) * bot, n * top>>
  /\ phase' = "times"
  /\ UNCHANGED <<track, flags, teststart, testend, at, ms, found, repeatarray, times>>

Plus(q, r) == <<q[1] * r[2] + r[1] * q[2], q[2] * r[2]>>

(* The loop that looks for the last payload once more, and finds the same.  *)
(* Where it ends in payload 0 the times are not set.                        *)
SetTimes ==
  /\ Now("times")
  /\ LET again == Max({i \in DOMAIN payloads : i = 0 \/ ~Opens(i) \/ Holds(i)})
         total == Less(found.endsamples, found.startsamples)
         edit  == IF found.usedTimeStamps THEN <<track.edit, 1>> ELSE Zero
         start == Plus(first, edit)
     IN /\ ms' = Looked(again)
        /\ times' = IF again > 0 /\ Opens(again)
                    THEN <<start, Plus(start, <<total * rate[2], rate[1]>>)>> ELSE Unset
  /\ phase' = "done"
  /\ UNCHANGED <<track, flags, teststart, testend, at, found, repeatarray, rate, first>>

Next ==
  \/ Open \/ SkipFirst \/ NoteFirst \/ FindLast \/ Total \/ CountSamples
  \/ UseStamps \/ NoStamps \/ Crash \/ Fast \/ FitPayload \/ FitLine \/ SetTimes

Spec == Init /\ [][Next]_vars

(* The callbacks return, and the thread of the caller goes on.              *)
FairSpec == Spec /\ WF_vars(Next)

-----------------------------------------------------------------------------
Tally ==
  [samples: Nat, startsamples: Counter, endsamples: Counter,
   starttimestamp: Nat, basetimestamp: Nat, usedTimeStamps: BOOLEAN]

(* What every variable holds; the fractions are those of sums of samples    *)
(* and times.                                                               *)
TypeOK ==
  /\ flags \in {"fast", "precise"}
  /\ phase \in {"open", "first", "last", "total", "count", "stamps", "fast", "fit",
                "times", "done", "crashed"}
  /\ {teststart, testend, at} \subseteq 0..indexcount
  /\ ms = Nowhere \/ ms \in [on: DOMAIN payloads, key: BOOLEAN]
  /\ found \in Tally
  /\ repeatarray \in [DOMAIN payloads -> Nat]

Intact == \A i \in DOMAIN payloads : Opens(i)

WithKey == {i \in DOMAIN payloads : payloads[i].samples > 0}

From == Min(WithKey)

To == Max(WithKey)

Untotalled == \A i \in WithKey : payloads[i].total = 0

(* TSMP goes on counting from some start.                                   *)
Totalled ==
  \A i \in WithKey :
    LET t == payloads[From].total - payloads[From].samples
    IN t >= 0 /\ payloads[i].total = t + track.upto[i + 1]

(* The samples from the first to the last payload, by TSMP or by counting,  *)
(* are all of those of the track, in 32 bits.                               *)
Complete == Less(found.endsamples, found.startsamples) = track.upto[indexcount] % Modulus

Judged == phase \in {"stamps", "fast", "fit", "times"}

SamplesComplete ==
  Judged /\ Intact /\ (Untotalled \/ (Totalled /\ To > 0)) => Complete

(* As many samples in every payload from the first to the last, and every   *)
(* payload of a length.                                                     *)
Steady ==
  /\ WithKey # {} /\ WithKey = From..To
  /\ \A i \in WithKey : payloads[i].samples = payloads[From].samples
  /\ track.length = track.step * indexcount

(* A line needs two points, and payload 0 alone is never looked at for TSMP.*)
Measurable == From < To \/ (flags = "fast" /\ (To > 0 \/ Untotalled))

Equal(q, r) == q[2] # 0 /\ r[2] # 0 /\ q[1] * r[2] = r[1] * q[2]

(* The call comes to an end, through all its loops over payloads, and the   *)
(* rate of a steady track is then the samples of a payload over its time,   *)
(* whichever way it is found, wherever in the track the key begins and ends.*)
Clear == Intact /\ WithKey # {} /\ Steady /\ Measurable /\ (Untotalled \/ Totalled)

RateRight ==
  <>(phase \in {"done", "crashed"}
       /\ (Clear => phase = "done" /\ Equal(rate, <<payloads[From].samples, track.step>>)))

(* The timestamps are those of the track's clock in one of the units, from  *)
(* the time base.                                                           *)
OnClock(k) ==
  \A i \in WithKey :
    payloads[i].stamp = payloads[From].base + Scales[k] * i * track.step

Stampless == \A i \in WithKey : payloads[i].stamp = 0

(* The times of a steady track are where its first payload with the key     *)
(* begins and where its last ends, the edit list applied once.              *)
Timed ==
  Stampless \/ (From < To /\ payloads[From].base # 0 /\ \E k \in DOMAIN Scales : OnClock(k))

TimesRight ==
  phase = "done" /\ Clear /\ To > 0 /\ Timed =>
    /\ times # Unset
    /\ Equal(times[1], <<PayloadTime(From).in, 1>>)
    /\ Equal(times[2], <<PayloadTime(To).out, 1>>)

(* A key the track has not gets no rate and no times.                       *)
AbsentNoRate == phase = "done" /\ WithKey = {} => rate = Zero /\ times = Unset

(* The stream is read while it is open on nothing only if a payload is bad  *)
(* behind the last with the key: damage elsewhere, or a payload that is     *)
(* empty or cannot be read, is met without.                                 *)
StreamOpen ==
  phase = "crashed" =>
    \E i \in DOMAIN payloads : payloads[i].state = "bad" /\ \A j \in DOMAIN payloads : j > i => ~Holds(j)
=============================================================================
