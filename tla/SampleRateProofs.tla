-------------------------- MODULE SampleRateProofs --------------------------
(***************************************************************************)
(* What holds of the sample rate of every track: that the stream is open   *)
(* whenever it is read, but for the damage StreamOpen names, and that the  *)
(* samples, totalled or counted, are those of the track.                   *)
(***************************************************************************)
EXTENDS SampleRate, TLAPS

-----------------------------------------------------------------------------
(* The payloads behind the first and before the last with the key have it   *)
(* not; nor has any of them samples, when all of them open.                 *)
NoneBefore(i) == \A j \in DOMAIN payloads : j < i => ~Holds(j)

NoneFrom(i) == \A j \in DOMAIN payloads : j >= i => ~Holds(j)

(* A bad payload closed the stream, and up to i none opened it again.       *)
ClosedUpTo(i) ==
  \E k \in DOMAIN payloads :
    /\ payloads[k].state = "bad"
    /\ \A j \in DOMAIN payloads : k < j /\ j <= i => ~Holds(j)

Bounded == phase \in {"total", "count", "stamps", "fast", "fit", "times"}

(* Where the loops are: the first payload with the key is found, and none   *)
(* behind testend has it.                                                   *)
Placed ==
  /\ NoneBefore(teststart)
  /\ phase = "open" => teststart = 0
  /\ phase = "first" => Opens(teststart) /\ ms # Nowhere
  /\ phase = "last" \/ Bounded => Holds(teststart)
  /\ ~Holds(teststart) => rate = Zero /\ times = Unset
  /\ phase = "last" => ms # Nowhere /\ teststart < testend /\ NoneFrom(testend)
  /\ Bounded => teststart <= testend /\ testend < indexcount /\ NoneFrom(testend + 1)
  /\ phase = "count" => teststart <= at /\ at <= testend

(* The stream is open on nothing only once a bad payload closed it.         *)
Closed ==
  /\ phase \in {"total", "stamps", "crashed"} /\ ms = Nowhere => ClosedUpTo(indexcount)
  /\ phase = "count" /\ teststart < at /\ ms = Nowhere => ClosedUpTo(at - 1)
  /\ phase = "crashed" => ms = Nowhere

(* The samples up to where the loops have come, if every payload opens.     *)
Counted ==
  /\ phase \notin {"done", "crashed"} => track.upto[teststart] = 0
  /\ phase = "last" => track.upto[testend] = track.upto[indexcount]
  /\ Bounded => /\ track.upto[testend + 1] = track.upto[indexcount]
                /\ testend = 0 \/ Holds(testend)
  /\ phase \in {"last", "total", "count"} => found.startsamples = Before(payloads[teststart])
  /\ phase \in {"last", "total"} => found.endsamples = 0
  /\ phase = "total" => ms = IF testend = 0 THEN [on |-> 0, key |-> FALSE]
                            ELSE [on |-> testend, key |-> TRUE]
  /\ phase = "count" => found.endsamples = track.upto[at] % Modulus /\ ~(Totalled /\ To > 0)

IInv ==
  /\ track \in Tracks
  /\ TypeOK
  /\ Placed
  /\ Closed
  /\ Intact => Counted
  /\ SamplesComplete

-----------------------------------------------------------------------------
(* The greatest and the least of a set of numbers, and sums in 32 bits.     *)
LEMMA MaxIs ==
  ASSUME NEW S, \A y \in S : y \in Nat, NEW x \in S, \A y \in S : y <= x
  PROVE  Max(S) = x
<1>1. \A z \in S : (\A y \in S : z >= y) => z = x
  BY SMT
<1> QED
  BY <1>1 DEF Max

LEMMA MinIs ==
  ASSUME NEW S, \A y \in S : y \in Nat, NEW x \in S, \A y \in S : x <= y
  PROVE  Min(S) = x
<1>1. \A z \in S : (\A y \in S : z <= y) => z = x
  BY SMT
<1> QED
  BY <1>1 DEF Min

LEMMA Wrapped ==
  ASSUME NEW m \in Nat \ {0}, NEW q \in Int, NEW r \in 0..(m - 1)
  PROVE  (m * q + r) % m = r
<1> DEFINE x == m * q + r
<1>1. x \in Int /\ x % m \in 0..(m - 1) /\ x = (m * (x \div m)) + (x % m) /\ x \div m \in Int
  BY SMT
<1> DEFINE d == x \div m
           e == x % m
<1>2. d \in Int /\ e \in 0..(m - 1) /\ m * q + r = m * d + e
  BY <1>1
<1> HIDE DEF x, d, e
<1>3. m * (q - d) = e - r
  BY <1>2
<1>4. q - d = 0
  <2>1. ASSUME NEW k \in Int, k >= 1 PROVE m * k >= m
    BY <2>1
  <2>2. ASSUME NEW k \in Int, k <= 0 - 1 PROVE m * k <= 0 - m
    BY <2>2
  <2>3. ~(q - d >= 1)
    BY <1>2, <1>3, <2>1
  <2>4. ~(q - d <= 0 - 1)
    BY <1>2, <1>3, <2>2
  <2> QED
    BY <1>2, <2>3, <2>4
<1> QED
  BY <1>2, <1>3, <1>4 DEF x, e

LEMMA Added ==
  ASSUME NEW x \in Nat, NEW b \in Nat
  PROVE  ((x % Modulus) + b) % Modulus = (x + b) % Modulus
<1> DEFINE z == x % Modulus
           y == z + b
           d == x \div Modulus
           r == y % Modulus
           q == y \div Modulus
<1>1. Modulus \in Nat \ {0}
  BY ModulusAssumption
<1>2. x = (Modulus * d) + z /\ d \in Int /\ z \in Int
  BY <1>1
<1>3. y \in Int /\ y = Modulus * q + r /\ q \in Int /\ r \in 0..(Modulus - 1)
  BY <1>1, <1>2
<1> HIDE DEF z, d, r, q
<1>4. x + b = (Modulus * d) + y
  <2> DEFINE m == Modulus * d
  <2>1. m \in Int /\ x = m + z
    BY <1>1, <1>2
  <2> HIDE DEF m
  <2> QED
    BY <1>2, <2>1 DEF m
<1>5. x + b = Modulus * (d + q) + r /\ d + q \in Int
  <2> HIDE DEF y
  <2>1. Modulus * d + Modulus * q = Modulus * (d + q)
    BY <1>1, <1>2, <1>3
  <2> QED
    BY <1>1, <1>2, <1>3, <1>4, <2>1
<1>6. (Modulus * (d + q) + r) % Modulus = r
  BY <1>1, <1>3, <1>5, Wrapped
<1> QED
  BY <1>5, <1>6 DEF r, z

LEMMA Remainder ==
  ASSUME NEW x \in Nat
  PROVE  x % Modulus \in Counter /\ (x < Modulus => x % Modulus = x)
<1>1. Modulus \in Nat \ {0}
  BY ModulusAssumption
<1>2. x % Modulus \in Counter
  BY <1>1 DEF Counter
<1>3. x < Modulus => x % Modulus = x
  <2> HAVE x < Modulus
  <2>1. (Modulus * 0 + x) % Modulus = x
    BY <1>1, Wrapped
  <2> QED
    BY <1>1, <2>1
<1> QED
  BY <1>2, <1>3

(* What is subtracted comes back.                                           *)
LEMMA LessOf ==
  ASSUME NEW t \in Counter, NEW x \in Nat
  PROVE  Less(t + x, t) = x % Modulus
<1>1. Modulus \in Nat \ {0} /\ t \in Nat
  BY ModulusAssumption DEF Counter
<1>2. t + x - t + Modulus = x + Modulus
  BY <1>1
<1>3. ((x % Modulus) + Modulus) % Modulus = (x + Modulus) % Modulus
  BY <1>1, Added
<1>4. x % Modulus \in 0..(Modulus - 1)
  BY <1>1
<1>5. ((Modulus * 1) + (x % Modulus)) % Modulus = x % Modulus
  BY <1>1, <1>4, Wrapped
<1> QED
  BY <1>1, <1>2, <1>3, <1>4, <1>5 DEF Less

-----------------------------------------------------------------------------
(* The track.                                                               *)
LEMMA TrackFacts ==
  ASSUME track \in Tracks
  PROVE  /\ indexcount \in Nat \ {0}
         /\ DOMAIN payloads = 0..(indexcount - 1)
         /\ track.upto[0] = 0
         /\ \A i \in DOMAIN payloads :
              /\ i \in Nat /\ i < indexcount
              /\ payloads[i] \in Payload
              /\ payloads[i].samples \in Counter /\ payloads[i].total \in Counter
              /\ payloads[i].stamp \in Nat /\ payloads[i].base \in Nat
              /\ track.upto[i + 1] = track.upto[i] + payloads[i].samples
         /\ \A i \in 0..indexcount : track.upto[i] \in Nat
         /\ \A i \in Counter : i \in Nat
<1> DEFINE n == Cardinality(DOMAIN track.payloads)
<1>1. /\ n \in Nat \ {0}
      /\ track.payloads \in [0..(n - 1) -> Payload]
      /\ track.upto \in [0..n -> Nat] /\ track.upto[0] = 0
      /\ \A i \in 0..(n - 1) : track.upto[i + 1] = track.upto[i] + track.payloads[i].samples
  BY TracksAssumption
<1>2. n = indexcount /\ payloads = track.payloads
  BY DEF indexcount, payloads
<1> HIDE DEF n
<1>3. DOMAIN payloads = 0..(n - 1)
  BY <1>1, <1>2
<1>4. \A i \in DOMAIN payloads : payloads[i] \in Payload
  BY <1>1, <1>2
<1>5. \A i \in DOMAIN payloads :
        /\ payloads[i].samples \in Counter /\ payloads[i].total \in Counter
        /\ payloads[i].stamp \in Nat /\ payloads[i].base \in Nat
  BY <1>4 DEF Payload
<1>6. \A i \in Counter : i \in Nat
  BY DEF Counter
<1>7. \A i \in DOMAIN payloads : i \in Nat /\ i < n
  BY <1>1, <1>3
<1>8. \A i \in 0..n : track.upto[i] \in Nat
  BY <1>1
<1>9. \A i \in DOMAIN payloads : track.upto[i + 1] = track.upto[i] + payloads[i].samples
  BY <1>1, <1>2, <1>3
<1> QED
  BY <1>1, <1>2, <1>3, <1>4, <1>5, <1>6, <1>7, <1>8, <1>9

LEMMA SameTrack ==
  ASSUME track' = track
  PROVE  /\ payloads' = payloads /\ indexcount' = indexcount
         /\ Intact' <=> Intact
         /\ WithKey' = WithKey /\ From' = From /\ To' = To
         /\ Totalled' <=> Totalled
         /\ Untotalled' <=> Untotalled
         /\ \A i : Opens(i)' <=> Opens(i)
         /\ \A i : Holds(i)' <=> Holds(i)
         /\ \A i : NoneBefore(i)' <=> NoneBefore(i)
         /\ \A i : NoneFrom(i)' <=> NoneFrom(i)
         /\ \A i : ClosedUpTo(i)' <=> ClosedUpTo(i)
<1>1. payloads' = payloads
  BY DEF payloads
<1>2. indexcount' = indexcount /\ WithKey' = WithKey
  BY <1>1 DEF indexcount, WithKey
<1>3. /\ \A i : Opens(i)' <=> Opens(i)
      /\ \A i : Holds(i)' <=> Holds(i)
  BY <1>1 DEF Opens, Holds
<1>4. From' = From /\ To' = To
  BY <1>2 DEF From, To
<1>5. /\ Intact' <=> Intact
      /\ Totalled' <=> Totalled
      /\ Untotalled' <=> Untotalled
  BY <1>1, <1>2, <1>3, <1>4 DEF Intact, Totalled, Untotalled
<1>6. /\ \A i : NoneBefore(i)' <=> NoneBefore(i)
      /\ \A i : NoneFrom(i)' <=> NoneFrom(i)
      /\ \A i : ClosedUpTo(i)' <=> ClosedUpTo(i)
  BY <1>1, <1>3 DEF NoneBefore, NoneFrom, ClosedUpTo
<1> QED
  BY <1>1, <1>2, <1>3, <1>4, <1>5, <1>6

(* What a payload that is read does to the stream.                          *)
OnPayload(s) == s = Nowhere \/ s \in [on: DOMAIN payloads, key: BOOLEAN]

LEMMA ReadFacts ==
  ASSUME track \in Tracks, OnPayload(ms), NEW i
  PROVE  /\ OnPayload(Opened(i)) /\ OnPayload(Searched(i)) /\ OnPayload(Looked(i))
         /\ Opens(i) => /\ Opened(i) = [on |-> i, key |-> FALSE]
                        /\ i \in DOMAIN payloads
                        /\ Opened(i) # Nowhere /\ Searched(i) # Nowhere /\ Looked(i) # Nowhere
         /\ Holds(i) => Searched(i) = [on |-> i, key |-> TRUE]
         /\ ~Holds(i) => Searched(i) = Opened(i)
         /\ Opened(i) = Nowhere \/ Searched(i) = Nowhere \/ Looked(i) = Nowhere =>
              ~Opens(i) /\ (ms = Nowhere \/ (i \in DOMAIN payloads /\ payloads[i].state = "bad"))
<1> DEFINE o == Opened(i)
<1>1. \A k \in DOMAIN payloads : k # 0 - 1
  BY TrackFacts
<1>2. OnPayload(o)
  BY DEF OnPayload, Opened, Opens, Nowhere
<1>3. Opens(i) => o = [on |-> i, key |-> FALSE] /\ i \in DOMAIN payloads
  BY DEF Opened, Opens
<1>4. Opens(i) => o # Nowhere
  BY <1>1, <1>3 DEF Nowhere
<1>5. o = Nowhere => ms = Nowhere \/ (i \in DOMAIN payloads /\ payloads[i].state = "bad")
  BY <1>4 DEF Opened
<1> HIDE DEF o
<1>6. Searched(i) = [o EXCEPT !.key = IF Holds(i) THEN TRUE ELSE o.key]
  BY DEF Searched, o
<1>7. o = [on |-> o.on, key |-> o.key]
  BY <1>2 DEF OnPayload, Nowhere
<1>8. ~Holds(i) => Searched(i) = o
  <2> HAVE ~Holds(i)
  <2>1. Searched(i) = [o EXCEPT !.key = o.key]
    BY <1>6
  <2> QED
    BY <1>7, <2>1
<1>9. Holds(i) => Opens(i) /\ Searched(i) = [on |-> i, key |-> TRUE]
  <2> HAVE Holds(i)
  <2>1. Opens(i)
    BY DEF Holds
  <2>2. Searched(i) = [[on |-> i, key |-> FALSE] EXCEPT !.key = TRUE]
    BY <1>3, <1>6, <2>1
  <2>3. \A j, a, b : [[on |-> j, key |-> a] EXCEPT !.key = b] = [on |-> j, key |-> b]
    OBVIOUS
  <2> QED
    BY <2>1, <2>2, <2>3
<1>10. \A k \in DOMAIN payloads : [on |-> k, key |-> TRUE] \in [on: DOMAIN payloads, key: BOOLEAN]
  OBVIOUS
<1>11. OnPayload(Searched(i))
  BY <1>2, <1>3, <1>8, <1>9, <1>10 DEF OnPayload
<1>12. Holds(i) => Searched(i) # Nowhere
  BY <1>1, <1>3, <1>9 DEF Nowhere
<1>13. Looked(i) = Searched(i) \/ Looked(i) = o
  BY DEF Looked, o
<1>14. Opens(i) => Searched(i) # Nowhere
  BY <1>4, <1>8, <1>12
<1>15. Searched(i) = Nowhere => o = Nowhere
  BY <1>8, <1>12
<1> QED
  BY <1>2, <1>3, <1>4, <1>5, <1>8, <1>9, <1>11, <1>13, <1>14, <1>15 DEF o

-----------------------------------------------------------------------------
LEMMA InitKept == ASSUME Init PROVE IInv
<1>1. /\ track \in Tracks /\ flags \in {"fast", "precise"} /\ phase = "open"
      /\ teststart = 0 /\ testend = indexcount /\ at = 0
      /\ ms = Nowhere /\ found = Nothing
      /\ repeatarray = [i \in DOMAIN payloads |-> 0]
      /\ rate = Zero /\ times = Unset
  BY DEF Init
<1>2. /\ indexcount \in Nat \ {0} /\ DOMAIN payloads = 0..(indexcount - 1) /\ track.upto[0] = 0
  BY <1>1, TrackFacts
<1>3. Nothing \in Tally
  BY ModulusAssumption DEF Nothing, Tally, Counter
<1>4. TypeOK
  BY <1>1, <1>2, <1>3 DEF TypeOK
<1>5. NoneBefore(0)
  BY <1>2 DEF NoneBefore
<1>6. Placed
  BY <1>1, <1>5 DEF Placed, Bounded
<1>7. Closed /\ Counted /\ SamplesComplete
  BY <1>1, <1>2 DEF Closed, Counted, Bounded, SamplesComplete, Judged
<1> QED
  BY <1>1, <1>4, <1>6, <1>7 DEF IInv

(* What every step may use.                                                 *)
LEMMA Steps ==
  ASSUME IInv, track' = track
  PROVE  /\ track \in Tracks /\ OnPayload(ms) /\ indexcount \in Nat \ {0}
         /\ teststart \in 0..indexcount /\ testend \in 0..indexcount /\ at \in 0..indexcount
         /\ found \in Tally /\ repeatarray \in [DOMAIN payloads -> Nat]
         /\ \A i \in DOMAIN payloads : i \in 0..(indexcount - 1)
         /\ payloads' = payloads /\ indexcount' = indexcount
BY TrackFacts, SameTrack DEF IInv, TypeOK, OnPayload

LEMMA OpenKept == ASSUME IInv, Open PROVE IInv'
<1>1. /\ phase = "open" /\ ms' = Opened(0) /\ phase' = IF Opens(0) THEN "first" ELSE "done"
      /\ UNCHANGED <<track, flags, teststart, testend, at, found, repeatarray, rate, first, times>>
  BY DEF Open, Now
<1>2. track \in Tracks /\ OnPayload(ms) /\ payloads' = payloads /\ indexcount' = indexcount
  BY <1>1, Steps
<1>3. teststart = 0 /\ phase' \in {"first", "done"}
  BY <1>1 DEF IInv, Placed
<1>4. OnPayload(Opened(0)) /\ (Opens(0) => Opened(0) # Nowhere)
  BY <1>2, ReadFacts
<1>5. TypeOK'
  BY <1>1, <1>2, <1>4 DEF IInv, TypeOK, OnPayload
<1>6. Placed'
  BY <1>1, <1>3, <1>4, SameTrack DEF IInv, Placed, Bounded
<1>7. Closed' /\ SamplesComplete'
  BY <1>3 DEF Closed, SamplesComplete, Judged
<1>8. (Intact => Counted)'
  BY <1>1, <1>3, SameTrack DEF IInv, Counted, Bounded
<1> QED
  BY <1>1, <1>2, <1>5, <1>6, <1>7, <1>8 DEF IInv

LEMMA SkipFirstKept == ASSUME IInv, SkipFirst PROVE IInv'
<1> DEFINE next == teststart + 1
<1>1. /\ phase = "first" /\ ~Holds(teststart) /\ teststart' = next
      /\ ms' = Opened(next) /\ phase' = IF Opens(next) THEN "first" ELSE "done"
      /\ UNCHANGED <<track, flags, testend, at, found, repeatarray, rate, first, times>>
  BY DEF SkipFirst, Now
<1>2. track \in Tracks /\ OnPayload(ms) /\ payloads' = payloads /\ indexcount' = indexcount
      /\ indexcount \in Nat
  BY <1>1, Steps
<1>3. /\ Opens(teststart) /\ NoneBefore(teststart) /\ rate = Zero /\ times = Unset
  BY <1>1 DEF IInv, Placed
<1>4. /\ teststart \in DOMAIN payloads /\ teststart \in Nat /\ teststart < indexcount
      /\ \A j \in DOMAIN payloads : j \in Nat
      /\ payloads[teststart].samples \in Nat
      /\ track.upto[next] = track.upto[teststart] + payloads[teststart].samples
  BY <1>2, <1>3, TrackFacts DEF Opens
<1>5. next \in 0..indexcount /\ phase' \in {"first", "done"}
  BY <1>1, <1>2, <1>4
<1>6. OnPayload(Opened(next)) /\ (Opens(next) => Opened(next) # Nowhere)
  BY <1>2, ReadFacts
<1>7. NoneBefore(next)
  BY <1>1, <1>3, <1>4 DEF NoneBefore
<1> HIDE DEF next
<1>8. TypeOK'
  BY <1>1, <1>2, <1>5, <1>6 DEF IInv, TypeOK, OnPayload
<1>9. Placed'
  BY <1>1, <1>3, <1>5, <1>6, <1>7, SameTrack DEF Placed, Bounded
<1>10. Closed' /\ SamplesComplete'
  BY <1>5 DEF Closed, SamplesComplete, Judged
<1>11. (Intact => Counted)'
  <2>1. track.upto[teststart] = 0 => track.upto[next] = 0
    BY <1>1, <1>3, <1>4 DEF Holds
  <2>2. Intact => track.upto[next] = 0
    BY <1>1, <2>1 DEF IInv, Counted
  <2> QED
    BY <1>1, <1>5, <2>2, SameTrack DEF Counted, Bounded
<1> QED
  BY <1>1, <1>2, <1>8, <1>9, <1>10, <1>11 DEF IInv

LEMMA NoteFirstKept == ASSUME IInv, NoteFirst PROVE IInv'
<1> DEFINE p == payloads[teststart]
           base == IF p.stamp # 0 /\ p.base # 0 THEN p.base ELSE p.stamp
           noted == [Nothing EXCEPT !.samples = p.samples, !.startsamples = Before(p),
                       !.starttimestamp = p.stamp, !.basetimestamp = base]
<1>1. /\ phase = "first" /\ Holds(teststart) /\ found' = noted
      /\ testend' = indexcount /\ phase' = "last" /\ ms' = Searched(teststart)
      /\ UNCHANGED <<track, flags, teststart, at, repeatarray, rate, first, times>>
  BY DEF NoteFirst, Now
<1>2. track \in Tracks /\ OnPayload(ms) /\ payloads' = payloads /\ indexcount' = indexcount
      /\ indexcount \in Nat
  BY <1>1, Steps
<1>3. Opens(teststart) /\ NoneBefore(teststart)
  BY <1>1 DEF IInv, Placed
<1>4. /\ teststart \in DOMAIN payloads /\ teststart \in Nat /\ teststart < indexcount
      /\ \A j \in DOMAIN payloads : j \in Nat /\ j < indexcount
      /\ p.samples \in Nat /\ p.samples \in Counter /\ p.total \in Counter
      /\ p.stamp \in Nat /\ p.base \in Nat
  BY <1>2, <1>3, TrackFacts DEF Opens
<1>5. OnPayload(Searched(teststart)) /\ Searched(teststart) # Nowhere
  BY <1>2, <1>3, ReadFacts
<1>6. noted \in Tally /\ noted.startsamples = Before(p) /\ noted.endsamples = 0
  <2>1. Modulus \in Nat \ {0}
    BY ModulusAssumption
  <2>2. p.total - p.samples + Modulus \in Nat
    BY <1>4, <2>1 DEF Counter
  <2>3. Before(p) \in Counter
    BY <2>1, <2>2 DEF Before, Less, Counter
  <2>4. Nothing \in Tally /\ base \in Nat
    BY <1>4, <2>1 DEF Nothing, Tally, Counter
  <2> HIDE DEF p, base
  <2>5. noted \in Tally
    BY <1>4, <2>3, <2>4, Zenon DEF Tally
  <2>6. noted.startsamples = Before(p) /\ noted.endsamples = 0
    BY DEF Nothing
  <2> QED
    BY <2>5, <2>6
<1> HIDE DEF noted, p, base
<1>7. TypeOK'
  BY <1>1, <1>2, <1>5, <1>6 DEF IInv, TypeOK, OnPayload
<1>8. Placed'
  <2>1. NoneFrom(indexcount)
    BY <1>2, <1>4 DEF NoneFrom
  <2> QED
    BY <1>1, <1>2, <1>3, <1>4, <1>5, <2>1, SameTrack DEF Placed, Bounded
<1>9. Closed' /\ SamplesComplete'
  BY <1>1 DEF Closed, SamplesComplete, Judged
<1>10. (Intact => Counted)'
  BY <1>1, <1>2, <1>6, SameTrack DEF IInv, Counted, Bounded, Before, Less, p
<1> QED
  BY <1>1, <1>2, <1>7, <1>8, <1>9, <1>10 DEF IInv

LEMMA FindLastKept == ASSUME IInv, FindLast PROVE IInv'
<1> DEFINE i == testend - 1
<1>1. /\ phase = "last" /\ testend' = i /\ ms' = Looked(i)
      /\ phase' = IF i > 0 /\ Opens(i) /\ ~Holds(i) THEN "last" ELSE "total"
      /\ UNCHANGED <<track, flags, teststart, at, found, repeatarray, rate, first, times>>
  BY DEF FindLast, Now
<1>2. track \in Tracks /\ OnPayload(ms) /\ payloads' = payloads /\ indexcount' = indexcount
      /\ indexcount \in Nat \ {0} /\ teststart \in Nat /\ testend \in 0..indexcount
  BY <1>1, Steps
<1>3. /\ ms # Nowhere /\ teststart < testend /\ Holds(teststart)
      /\ NoneBefore(teststart) /\ NoneFrom(testend)
  BY <1>1 DEF IInv, Placed
<1>4. /\ i \in DOMAIN payloads /\ i \in Nat /\ i + 1 = testend /\ i < indexcount /\ teststart <= i
      /\ \A j \in DOMAIN payloads : j \in Nat /\ j < indexcount
      /\ payloads[i].samples \in Nat
      /\ track.upto[i + 1] = track.upto[i] + payloads[i].samples
      /\ track.upto[i] \in Nat
  <2>1. i \in DOMAIN payloads /\ i \in 0..indexcount /\ i + 1 = testend /\ teststart <= i
    BY <1>2, <1>3, TrackFacts
  <2> QED
    BY <1>2, <2>1, TrackFacts
<1> HIDE DEF i
<1>5. /\ OnPayload(Looked(i)) /\ (Opens(i) => Looked(i) # Nowhere)
      /\ Looked(i) = Nowhere => payloads[i].state = "bad"
  BY <1>2, <1>3, ReadFacts
<1>6. phase' \in {"last", "total"}
  BY <1>1
<1>7. TypeOK'
  BY <1>1, <1>2, <1>4, <1>5, <1>6 DEF IInv, TypeOK, OnPayload
<1>8. Placed'
  <2>1. phase' = "last" => teststart < i /\ NoneFrom(i) /\ Looked(i) # Nowhere
    <3>1. phase' = "last" => Opens(i) /\ ~Holds(i)
      BY <1>1
    <3>2. teststart # i => teststart < i
      BY <1>2, <1>4
    <3>3. ~Holds(i) => NoneFrom(i)
      <4> SUFFICES ASSUME ~Holds(i), NEW j \in DOMAIN payloads, j >= i PROVE ~Holds(j)
        BY DEF NoneFrom
      <4>1. j = i \/ j >= testend
        BY <1>4
      <4> QED
        BY <1>3, <4>1 DEF NoneFrom
    <3> QED
      BY <1>3, <1>5, <3>1, <3>2, <3>3
  <2> QED
    BY <1>1, <1>2, <1>3, <1>4, <1>6, <2>1, SameTrack DEF IInv, Placed, Bounded
<1>9. Closed'
  <2>1. Looked(i) = Nowhere => ClosedUpTo(indexcount)
    <3> HAVE Looked(i) = Nowhere
    <3>1. \A j \in DOMAIN payloads : i < j => ~Holds(j)
      BY <1>3, <1>4 DEF NoneFrom
    <3> QED
      BY <1>4, <1>5, <3>1 DEF ClosedUpTo
  <2> QED
    BY <1>1, <1>6, <2>1, SameTrack DEF Closed
<1>10. SamplesComplete'
  BY <1>6 DEF SamplesComplete, Judged
<1>11. (Intact => Counted)'
  <2>1. SUFFICES ASSUME Intact PROVE Counted'
    BY <1>1, SameTrack
  <2>2. /\ track.upto[teststart] = 0 /\ track.upto[testend] = track.upto[indexcount]
        /\ found.startsamples = Before(payloads[teststart]) /\ found.endsamples = 0
    BY <1>1, <2>1 DEF IInv, Counted
  <2>3. Opens(i)
    BY <1>4, <2>1 DEF Intact
  <2>4. phase' = "last" => track.upto[i] = track.upto[indexcount]
    <3> HAVE phase' = "last"
    <3>1. ~Holds(i)
      BY <1>1
    <3>2. payloads[i].samples = 0
      BY <1>4, <2>3, <3>1 DEF Holds
    <3> QED
      BY <1>4, <2>2, <3>2
  <2>5. track.upto[i + 1] = track.upto[indexcount]
    BY <1>4, <2>2
  <2>6. phase' = "total" => i = 0 \/ Holds(i)
    BY <1>1, <1>4, <2>3
  <2>7. phase' = "total" => Looked(i) = IF i = 0 THEN [on |-> 0, key |-> FALSE]
                                         ELSE [on |-> i, key |-> TRUE]
    <3>1. CASE i = 0
      BY <1>2, <2>3, <3>1, ReadFacts DEF Looked
    <3>2. CASE i # 0
      BY <1>2, <2>6, <3>2, ReadFacts DEF Looked
    <3> QED
      BY <3>1, <3>2
  <2>8. (Before(payloads[teststart]))' = Before(payloads[teststart])
    BY <1>1, <1>2 DEF Before, Less
  <2> QED
    BY <1>1, <1>2, <1>6, <2>2, <2>4, <2>5, <2>6, <2>7, <2>8, SameTrack DEF Counted, Bounded
<1> QED
  BY <1>1, <1>2, <1>7, <1>8, <1>9, <1>10, <1>11 DEF IInv

(* In a track whose payloads all open, the payloads with the key are those  *)
(* with samples, and the loops have found the first and the last of them.   *)
LEMMA FirstAndLast ==
  ASSUME track \in Tracks, Intact, teststart \in Nat, testend \in Nat, teststart <= testend,
         Holds(teststart), NoneBefore(teststart), NoneFrom(testend + 1),
         testend = 0 \/ Holds(testend)
  PROVE  From = teststart /\ To = testend /\ Holds(testend)
<1>1. \A j \in DOMAIN payloads : j \in Nat
  BY TrackFacts
<1>2. \A j : j \in WithKey <=> Holds(j)
  BY DEF WithKey, Holds, Opens, Intact
<1>3. Holds(testend)
  BY <1>1
<1>4. \A j \in WithKey : j \in DOMAIN payloads /\ j \in Nat
  BY <1>1 DEF WithKey
<1>5. \A j \in WithKey : teststart <= j
  BY <1>1, <1>2, <1>4 DEF NoneBefore
<1>6. \A j \in WithKey : j <= testend
  BY <1>1, <1>2, <1>4 DEF NoneFrom
<1>7. From = teststart
  BY <1>2, <1>4, <1>5, MinIs DEF From
<1>8. To = testend
  BY <1>2, <1>3, <1>4, <1>6, MaxIs DEF To
<1> QED
  BY <1>3, <1>7, <1>8

(* What TSMP counts of such a track is all of it.                           *)
LEMMA TotalledComplete ==
  ASSUME track \in Tracks, Intact, Totalled, From \in DOMAIN payloads, To \in DOMAIN payloads,
         From \in WithKey, To \in WithKey, track.upto[From] = 0,
         track.upto[To + 1] = track.upto[indexcount]
  PROVE  /\ payloads[To].total # 0
         /\ Less(payloads[To].total, Before(payloads[From])) = track.upto[indexcount] % Modulus
<1> DEFINE first_ == payloads[From]
           last == payloads[To]
           t == first_.total - first_.samples
           all == track.upto[indexcount]
<1>1. /\ t >= 0 /\ first_.total = t + track.upto[From + 1] /\ last.total = t + all
  BY DEF Totalled
<1>2. /\ first_.total \in Counter /\ first_.samples \in Counter /\ first_.samples \in Nat
      /\ last.total \in Counter /\ last.samples \in Nat
      /\ all = track.upto[To] + last.samples
      /\ track.upto[To] \in Nat /\ all \in Nat
  <2>1. To \in 0..indexcount /\ To \in Nat /\ indexcount \in 0..indexcount
    BY TrackFacts
  <2> QED
    BY <2>1, TrackFacts
<1>3. last.samples > 0 /\ first_.samples > 0
  BY DEF WithKey
<1>4. Modulus \in Nat \ {0}
  BY ModulusAssumption
<1> HIDE DEF first_, last, all
<1>5. t \in Counter /\ last.total # 0 /\ first_.total # 0 /\ first_.total \in Nat
  <2>1. first_.total \in Nat /\ first_.total < Modulus
    BY <1>2, <1>4 DEF Counter
  <2>2. t \in Nat /\ t <= first_.total /\ first_.total # 0
    BY <1>1, <1>2, <1>3, <2>1
  <2>3. t \in Counter
    BY <1>4, <2>1, <2>2 DEF Counter
  <2>4. all > 0
    BY <1>2, <1>3
  <2> HIDE DEF t
  <2>5. last.total # 0
    BY <1>1, <1>2, <2>2, <2>4
  <2> QED
    BY <2>1, <2>2, <2>3, <2>5
<1>6. Before(first_) = t
  <2>1. Less(first_.total, first_.samples) = (t + Modulus) % Modulus
    BY DEF Less
  <2>2. (t + Modulus) % Modulus = t
    <3>1. ((Modulus * 1) + t) % Modulus = t
      BY <1>4, <1>5, Wrapped DEF Counter
    <3> QED
      BY <1>2, <1>4, <3>1 DEF Counter
  <2> QED
    BY <1>5, <2>1, <2>2 DEF Before
<1> HIDE DEF t
<1>7. Less(last.total, t) = all % Modulus
  BY <1>1, <1>2, <1>5, LessOf
<1> QED
  BY <1>5, <1>6, <1>7 DEF first_, last, all

LEMMA TotalKept == ASSUME IInv, Total PROVE IInv'
<1> DEFINE total == payloads[ms.on].total
           noted == [found EXCEPT !.endsamples = total]
           known == ms.key /\ total # 0
<1>1. /\ phase = "total" /\ at' = teststart
      /\ UNCHANGED <<track, flags, teststart, testend, ms, repeatarray, rate, first, times>>
  BY DEF Total, Now
<1>2. track \in Tracks /\ OnPayload(ms) /\ payloads' = payloads /\ indexcount' = indexcount
      /\ indexcount \in Nat \ {0} /\ teststart \in 0..indexcount /\ testend \in 0..indexcount
      /\ teststart \in Nat /\ testend \in Nat
      /\ found \in Tally
  BY <1>1, Steps
<1>3. /\ teststart <= testend /\ testend < indexcount /\ Holds(teststart)
      /\ NoneBefore(teststart) /\ NoneFrom(testend + 1)
      /\ ms = Nowhere => ClosedUpTo(indexcount)
  BY <1>1 DEF IInv, Placed, Closed, Bounded
<1>4. known => phase' = "stamps" /\ found' = noted
  BY DEF Total
<1>5. ~known => phase' = "count" /\ found' = found
  BY <1>3 DEF Total
<1>6. known => noted \in Tally /\ noted.endsamples = total /\ noted.startsamples = found.startsamples
  <2> HAVE known
  <2>1. ms.on \in DOMAIN payloads
    BY <1>2 DEF OnPayload, Nowhere
  <2>2. total \in Counter
    BY <1>2, <2>1, TrackFacts
  <2> HIDE DEF total
  <2> QED
    BY <1>2, <2>2 DEF Tally
<1>7. Intact =>
        /\ track.upto[teststart] = 0 /\ track.upto[testend + 1] = track.upto[indexcount]
        /\ found.startsamples = Before(payloads[teststart]) /\ found.endsamples = 0
        /\ ms = IF testend = 0 THEN [on |-> 0, key |-> FALSE] ELSE [on |-> testend, key |-> TRUE]
        /\ testend = 0 \/ Holds(testend)
        /\ From = teststart /\ To = testend /\ Holds(testend)
        /\ (ms.key <=> testend # 0) /\ (testend # 0 => ms.on = testend)
        /\ teststart \in DOMAIN payloads /\ testend \in DOMAIN payloads
        /\ teststart \in WithKey /\ testend \in WithKey
  <2> HAVE Intact
  <2>1. /\ track.upto[teststart] = 0 /\ track.upto[testend + 1] = track.upto[indexcount]
        /\ found.startsamples = Before(payloads[teststart]) /\ found.endsamples = 0
        /\ ms = IF testend = 0 THEN [on |-> 0, key |-> FALSE] ELSE [on |-> testend, key |-> TRUE]
        /\ testend = 0 \/ Holds(testend)
    BY <1>1 DEF IInv, Counted, Bounded
  <2>2. From = teststart /\ To = testend /\ Holds(testend)
    BY <1>2, <1>3, <2>1, FirstAndLast
  <2>3. (ms.key <=> testend # 0) /\ (testend # 0 => ms.on = testend)
    BY <2>1
  <2>4. /\ teststart \in DOMAIN payloads /\ testend \in DOMAIN payloads
        /\ teststart \in WithKey /\ testend \in WithKey
    BY <1>3, <2>2 DEF Holds, Opens, WithKey
  <2> QED
    BY <2>1, <2>2, <2>3, <2>4
<1>8. Intact /\ Totalled /\ To > 0 =>
        known /\ Less(total, found.startsamples) = track.upto[indexcount] % Modulus
  <2> HAVE Intact /\ Totalled /\ To > 0
  <2>1. /\ payloads[To].total # 0
        /\ Less(payloads[To].total, Before(payloads[From])) = track.upto[indexcount] % Modulus
    BY <1>2, <1>7, TotalledComplete
  <2>2. testend # 0
    BY <1>7
  <2> QED
    BY <1>7, <2>1, <2>2
<1>9. Intact /\ Untotalled => ~known
  BY <1>7 DEF Untotalled
<1> HIDE DEF total, noted, known
<1>10. TypeOK'
  BY <1>1, <1>2, <1>4, <1>5, <1>6 DEF IInv, TypeOK
<1>11. Placed'
  BY <1>1, <1>2, <1>3, <1>4, <1>5, SameTrack DEF Placed, Bounded
<1>12. Closed'
  BY <1>1, <1>2, <1>3, <1>4, <1>5, SameTrack DEF Closed
<1>13. (Intact => Counted)'
  <2>1. SUFFICES ASSUME Intact PROVE Counted'
    BY <1>1, SameTrack
  <2>2. (Before(payloads[teststart]))' = Before(payloads[teststart])
    BY <1>1, <1>2 DEF Before, Less
  <2>3. 0 % Modulus = 0
    BY ModulusAssumption
  <2>4. ~known => ~(Totalled /\ To > 0)
    BY <1>8, <2>1
  <2> QED
    BY <1>1, <1>2, <1>4, <1>5, <1>7, <2>1, <2>2, <2>3, <2>4, SameTrack DEF Counted, Bounded
<1>14. SamplesComplete'
  <2>1. ~known => SamplesComplete'
    BY <1>5 DEF SamplesComplete, Judged
  <2>2. ASSUME known, Intact, Untotalled \/ (Totalled /\ To > 0)
        PROVE  Less(noted.endsamples, noted.startsamples) = track.upto[indexcount] % Modulus
    BY <1>6, <1>8, <1>9, <2>2
  <2>3. known => SamplesComplete'
    <3> SUFFICES ASSUME known, Intact, Untotalled \/ (Totalled /\ To > 0) PROVE Complete'
      BY <1>1, SameTrack DEF SamplesComplete
    <3> QED
      BY <1>1, <1>2, <1>4, <2>2 DEF Complete, Less
  <2> QED
    BY <2>1, <2>3
<1> QED
  BY <1>1, <1>2, <1>10, <1>11, <1>12, <1>13, <1>14 DEF IInv

LEMMA CountSamplesKept == ASSUME IInv, CountSamples PROVE IInv'
<1> DEFINE counted == IF Holds(at) THEN (found.endsamples + payloads[at].samples) % Modulus
                      ELSE found.endsamples
           noted == [found EXCEPT !.endsamples = counted]
<1>1. /\ phase = "count" /\ ms' = Searched(at) /\ at' = at + 1
      /\ phase' = IF at < testend THEN "count" ELSE "stamps"
      /\ UNCHANGED <<track, flags, teststart, testend, repeatarray, rate, first, times>>
  BY DEF CountSamples, Now, More
<1>2. track \in Tracks /\ OnPayload(ms) /\ payloads' = payloads /\ indexcount' = indexcount
      /\ indexcount \in Nat \ {0} /\ teststart \in 0..indexcount /\ testend \in 0..indexcount
      /\ teststart \in Nat /\ testend \in Nat /\ at \in Nat
      /\ found \in Tally
  BY <1>1, Steps
<1>3. /\ teststart <= testend /\ testend < indexcount /\ Holds(teststart)
      /\ NoneBefore(teststart) /\ NoneFrom(testend + 1)
      /\ teststart <= at /\ at <= testend
      /\ teststart < at /\ ms = Nowhere => ClosedUpTo(at - 1)
  BY <1>1 DEF IInv, Placed, Closed, Bounded
<1>4. /\ at \in DOMAIN payloads /\ at + 1 \in 0..indexcount
      /\ payloads[at].samples \in Nat /\ found.endsamples \in Nat
      /\ track.upto[at] \in Nat
      /\ track.upto[at + 1] = track.upto[at] + payloads[at].samples
      /\ \A j \in DOMAIN payloads : j \in Nat
  <2>1. at \in DOMAIN payloads /\ at \in 0..indexcount /\ at + 1 \in 0..indexcount
    BY <1>2, <1>3, TrackFacts
  <2>2. found.endsamples \in Counter
    BY <1>2 DEF Tally
  <2> QED
    BY <1>2, <2>1, <2>2, TrackFacts
<1>5. /\ OnPayload(Searched(at)) /\ (Holds(at) => Searched(at) # Nowhere)
      /\ Searched(at) = Nowhere => ~Opens(at) /\ (ms = Nowhere \/ payloads[at].state = "bad")
  BY <1>2, ReadFacts DEF Holds
<1>6. found' = noted
  BY DEF CountSamples
<1>7. noted \in Tally /\ noted.endsamples = counted /\ noted.startsamples = found.startsamples
  <2>1. counted \in Counter
    <3>1. (found.endsamples + payloads[at].samples) % Modulus \in Counter
      BY <1>4, Remainder
    <3> QED
      BY <1>2, <3>1 DEF Tally
  <2> HIDE DEF counted
  <2> QED
    BY <1>2, <2>1 DEF Tally
<1>8. phase' \in {"count", "stamps"} /\ (phase' = "count" => at + 1 <= testend)
      /\ (phase' = "stamps" => at = testend)
  BY <1>1, <1>2, <1>3
<1> HIDE DEF noted, counted
<1>9. TypeOK'
  BY <1>1, <1>2, <1>4, <1>5, <1>6, <1>7, <1>8 DEF IInv, TypeOK, OnPayload
<1>10. Placed'
  <2>1. teststart <= at + 1
    BY <1>2, <1>3
  <2> QED
    BY <1>1, <1>2, <1>3, <1>8, <2>1, SameTrack DEF Placed, Bounded
<1>11. Closed'
  <2>1. Searched(at) = Nowhere => ClosedUpTo(at)
    <3> HAVE Searched(at) = Nowhere
    <3>1. ~Holds(at) /\ (ms = Nowhere \/ payloads[at].state = "bad")
      BY <1>5
    <3>2. CASE payloads[at].state = "bad"
      <4>1. \A j \in DOMAIN payloads : ~(at < j /\ j <= at)
        BY <1>2, <1>4
      <4> QED
        BY <1>4, <3>2, <4>1 DEF ClosedUpTo
    <3>3. CASE ms = Nowhere
      <4>1. at # teststart
        BY <1>3, <3>1
      <4>2. teststart < at
        BY <1>2, <1>3, <4>1
      <4>3. PICK k \in DOMAIN payloads :
              /\ payloads[k].state = "bad"
              /\ \A j \in DOMAIN payloads : k < j /\ j <= at - 1 => ~Holds(j)
        BY <1>3, <3>3, <4>2 DEF ClosedUpTo
      <4>4. \A j \in DOMAIN payloads : k < j /\ j <= at => ~Holds(j)
        <5> SUFFICES ASSUME NEW j \in DOMAIN payloads, k < j, j <= at PROVE ~Holds(j)
          OBVIOUS
        <5>1. j = at \/ j <= at - 1
          BY <1>2, <1>4
        <5> QED
          BY <3>1, <4>3, <5>1
      <4> QED
        BY <4>3, <4>4 DEF ClosedUpTo
    <3> QED
      BY <3>1, <3>2, <3>3
  <2>2. at = testend /\ ClosedUpTo(at) => ClosedUpTo(indexcount)
    <3> HAVE at = testend /\ ClosedUpTo(at)
    <3>1. PICK k \in DOMAIN payloads :
            /\ payloads[k].state = "bad"
            /\ \A j \in DOMAIN payloads : k < j /\ j <= testend => ~Holds(j)
      BY DEF ClosedUpTo
    <3>2. \A j \in DOMAIN payloads : j <= testend \/ ~Holds(j)
      BY <1>2, <1>3, <1>4 DEF NoneFrom
    <3> QED
      BY <3>1, <3>2 DEF ClosedUpTo
  <2>3. at' - 1 = at
    BY <1>1, <1>2
  <2>4. \A i : ClosedUpTo(i)' <=> ClosedUpTo(i)
    BY <1>1, SameTrack
  <2>5. ms' = Nowhere => ClosedUpTo(at - 1)'
    BY <1>1, <2>1, <2>3, <2>4
  <2>6. ms' = Nowhere /\ phase' = "stamps" => ClosedUpTo(indexcount)'
    BY <1>1, <1>2, <1>8, <2>1, <2>2, <2>4
  <2> QED
    BY <1>8, <2>5, <2>6 DEF Closed
<1>12. Intact =>
         /\ track.upto[teststart] = 0 /\ track.upto[testend + 1] = track.upto[indexcount]
         /\ testend = 0 \/ Holds(testend)
         /\ found.startsamples = Before(payloads[teststart])
         /\ ~(Totalled /\ To > 0)
         /\ counted = track.upto[at + 1] % Modulus
  <2> HAVE Intact
  <2>1. /\ track.upto[teststart] = 0 /\ track.upto[testend + 1] = track.upto[indexcount]
        /\ testend = 0 \/ Holds(testend)
        /\ found.startsamples = Before(payloads[teststart])
        /\ ~(Totalled /\ To > 0)
        /\ found.endsamples = track.upto[at] % Modulus
    BY <1>1 DEF IInv, Counted, Bounded
  <2>2. CASE Holds(at)
    <3>1. ((track.upto[at] % Modulus) + payloads[at].samples) % Modulus
            = (track.upto[at] + payloads[at].samples) % Modulus
      BY <1>4, Added
    <3> QED
      BY <1>4, <2>1, <2>2, <3>1 DEF counted
  <2>3. CASE ~Holds(at)
    <3>1. payloads[at].samples = 0
      BY <1>4, <2>3 DEF Holds, Intact
    <3>2. track.upto[at + 1] = track.upto[at]
      BY <1>4, <3>1
    <3> QED
      BY <2>1, <2>3, <3>2 DEF counted
  <2> QED
    BY <2>1, <2>2, <2>3
<1>13. (Intact => Counted)'
  <2>1. SUFFICES ASSUME Intact PROVE Counted'
    BY <1>1, SameTrack
  <2>2. (Before(payloads[teststart]))' = Before(payloads[teststart])
    BY <1>1, <1>2 DEF Before, Less
  <2> QED
    BY <1>1, <1>2, <1>6, <1>7, <1>8, <1>12, <2>1, <2>2, SameTrack DEF Counted, Bounded
<1>14. SamplesComplete'
  <2> SUFFICES ASSUME Intact, Untotalled \/ (Totalled /\ To > 0), phase' = "stamps"
               PROVE  Complete'
    BY <1>1, <1>8, SameTrack DEF SamplesComplete, Judged
  <2>1. Untotalled /\ at = testend
    BY <1>8, <1>12
  <2>2. found.startsamples = 0
    BY <1>3, <1>12, <2>1 DEF Untotalled, WithKey, Holds, Opens, Before
  <2>3. counted = track.upto[indexcount] % Modulus
    BY <1>12, <2>1
  <2>4. track.upto[indexcount] \in Nat
    BY <1>2, TrackFacts
  <2>5. counted \in Counter /\ counted \in Nat /\ counted % Modulus = counted
    <3>1. counted \in Counter
      BY <2>3, <2>4, Remainder
    <3>2. counted \in Nat /\ counted < Modulus
      BY <3>1, ModulusAssumption DEF Counter
    <3> QED
      BY <3>1, <3>2, Remainder
  <2>6. 0 \in Counter
    BY ModulusAssumption DEF Counter
  <2>7. Less(0 + counted, 0) = counted
    BY <2>5, <2>6, LessOf
  <2>8. Less(counted, 0) = counted
    BY <2>5, <2>7
  <2>9. found'.endsamples = counted /\ found'.startsamples = 0
    BY <1>6, <1>7, <2>2
  <2> QED
    BY <1>1, <1>2, <2>3, <2>8, <2>9 DEF Complete, Less
<1> QED
  BY <1>1, <1>2, <1>9, <1>10, <1>11, <1>13, <1>14 DEF IInv

(* Once the samples are known, what they were found from stays.             *)
LEMMA JudgedKept ==
  ASSUME IInv, Judged, UNCHANGED <<track, teststart, testend>>,
         found'.endsamples = found.endsamples, found'.startsamples = found.startsamples,
         phase' \in {"stamps", "fast", "fit", "times", "done", "crashed"}
  PROVE  /\ Placed'
         /\ (Intact => Counted)'
         /\ SamplesComplete'
<1>1. /\ Bounded /\ phase \notin {"open", "first", "last", "count", "done", "crashed"}
      /\ phase # "total"
  BY DEF Judged, Bounded
<1>2. track \in Tracks /\ payloads' = payloads /\ indexcount' = indexcount
  BY Steps
<1>3. /\ NoneBefore(teststart) /\ Holds(teststart)
      /\ teststart <= testend /\ testend < indexcount /\ NoneFrom(testend + 1)
  BY <1>1 DEF IInv, Placed
<1>4. Placed'
  BY <1>2, <1>3, SameTrack DEF Placed
<1>5. Intact =>
        /\ track.upto[teststart] = 0 /\ track.upto[testend + 1] = track.upto[indexcount]
        /\ testend = 0 \/ Holds(testend)
  BY <1>1 DEF IInv, Counted
<1>6. (Intact => Counted)'
  BY <1>2, <1>5, SameTrack DEF Counted
<1>7. SamplesComplete'
  BY <1>2, SameTrack DEF IInv, SamplesComplete, Complete, Less
<1> QED
  BY <1>4, <1>6, <1>7

LEMMA UseStampsKept == ASSUME IInv, UseStamps PROVE IInv'
<1>1. /\ phase = "stamps" /\ at' = teststart
      /\ UNCHANGED <<track, flags, teststart, testend, ms, repeatarray, times>>
  BY DEF UseStamps, Now
<1>2. PICK b \in BOOLEAN : found' = [found EXCEPT !.usedTimeStamps = b]
  BY DEF UseStamps
<1>3. phase' \in {"fast", "fit", "times"}
  BY DEF UseStamps, WithoutStamps
<1>4. found \in Tally /\ payloads' = payloads /\ indexcount' = indexcount /\ track \in Tracks
  BY <1>1, Steps
<1>5. found' \in Tally
  BY <1>2, <1>4, Zenon DEF Tally
<1>6. found'.endsamples = found.endsamples /\ found'.startsamples = found.startsamples
  BY <1>2, <1>4 DEF Tally
<1>7. TypeOK'
  BY <1>1, <1>3, <1>4, <1>5 DEF IInv, TypeOK
<1>8. Closed'
  BY <1>3 DEF Closed
<1>9. Placed' /\ (Intact => Counted)' /\ SamplesComplete'
  BY <1>1, <1>3, <1>6, JudgedKept DEF Judged
<1> QED
  BY <1>1, <1>4, <1>7, <1>8, <1>9 DEF IInv

(* No step but these reads the stream's buffer or changes what was counted. *)
LEMMA RateKept ==
  ASSUME IInv, NoStamps \/ Crash \/ Fast \/ FitLine
  PROVE  IInv'
<1>1. /\ Judged /\ UNCHANGED <<track, flags, teststart, testend, ms, found, repeatarray, times>>
      /\ at' \in {at, teststart} /\ phase' \in {"fast", "fit", "times", "crashed"}
      /\ phase' = "crashed" => phase = "stamps" /\ ms = Nowhere
  BY DEF NoStamps, Crash, Fast, FitLine, Now, Judged, WithoutStamps
<1>2. payloads' = payloads /\ indexcount' = indexcount /\ track \in Tracks
      /\ at \in 0..indexcount /\ teststart \in 0..indexcount
  BY <1>1, Steps
<1>3. TypeOK'
  BY <1>1, <1>2 DEF IInv, TypeOK
<1>4. Closed'
  BY <1>1, <1>2, SameTrack DEF IInv, Closed
<1>5. Placed' /\ (Intact => Counted)' /\ SamplesComplete'
  BY <1>1, JudgedKept
<1> QED
  BY <1>1, <1>2, <1>3, <1>4, <1>5 DEF IInv

LEMMA FitPayloadKept == ASSUME IInv, FitPayload PROVE IInv'
<1> DEFINE n == SoFar + payloads[at].samples
           value == IF Holds(at) THEN n ELSE 0
<1>1. /\ phase = "fit" /\ at <= testend /\ ms' = Searched(at)
      /\ UNCHANGED <<track, flags, teststart, testend, rate, first, times>>
      /\ \/ phase' = "done" /\ UNCHANGED <<found, repeatarray, at>>
         \/ /\ Opens(at)
            /\ found' = [found EXCEPT !.samples = n]
            /\ repeatarray' = [repeatarray EXCEPT ![at] = value]
            /\ at' = at + 1 /\ phase' = phase
  BY DEF FitPayload, Now
<1>2. track \in Tracks /\ OnPayload(ms) /\ payloads' = payloads /\ indexcount' = indexcount
      /\ indexcount \in Nat \ {0} /\ at \in 0..indexcount /\ testend \in 0..indexcount
      /\ found \in Tally /\ repeatarray \in [DOMAIN payloads -> Nat]
  BY <1>1, Steps
<1>3. testend < indexcount
  BY <1>1 DEF IInv, Placed, Bounded
<1>4. OnPayload(Searched(at)) /\ (Opens(at) => at \in DOMAIN payloads)
  BY <1>2, ReadFacts
<1>5. Opens(at) => n \in Nat
  <2> HAVE Opens(at)
  <2>1. payloads[at].samples \in Nat
    BY <1>2, <1>4, TrackFacts
  <2>2. SoFar \in Nat
    BY <1>2 DEF SoFar, Tally
  <2> QED
    BY <2>1, <2>2
<1> HIDE DEF n
<1>6. found' \in Tally /\ found'.endsamples = found.endsamples
      /\ found'.startsamples = found.startsamples
  BY <1>1, <1>2, <1>5 DEF Tally
<1>7. Opens(at) => value \in Nat
  BY <1>5
<1> HIDE DEF value
<1>8. repeatarray' \in [DOMAIN payloads -> Nat]
  BY <1>1, <1>2, <1>4, <1>7
<1>9. at' \in 0..indexcount /\ phase' \in {"fit", "done"}
  BY <1>1, <1>2, <1>3
<1>10. TypeOK'
  BY <1>1, <1>2, <1>4, <1>6, <1>8, <1>9 DEF IInv, TypeOK, OnPayload
<1>11. Closed'
  BY <1>9 DEF Closed
<1>12. Placed' /\ (Intact => Counted)' /\ SamplesComplete'
  BY <1>1, <1>6, <1>9, JudgedKept DEF Judged
<1> QED
  BY <1>1, <1>2, <1>10, <1>11, <1>12 DEF IInv

LEMMA SetTimesKept == ASSUME IInv, SetTimes PROVE IInv'
<1>1. /\ phase = "times" /\ phase' = "done" /\ \E i : ms' = Looked(i)
      /\ UNCHANGED <<track, flags, teststart, testend, at, found, repeatarray, rate, first>>
  BY DEF SetTimes, Now
<1>2. track \in Tracks /\ OnPayload(ms) /\ payloads' = payloads /\ indexcount' = indexcount
  BY <1>1, Steps
<1>3. OnPayload(ms')
  BY <1>1, <1>2, ReadFacts
<1>4. TypeOK'
  BY <1>1, <1>2, <1>3 DEF IInv, TypeOK, OnPayload
<1>5. Closed'
  BY <1>1 DEF Closed
<1>6. Placed' /\ (Intact => Counted)' /\ SamplesComplete'
  BY <1>1, JudgedKept DEF Judged
<1> QED
  BY <1>1, <1>2, <1>4, <1>5, <1>6 DEF IInv

LEMMA StepKept == ASSUME IInv, [Next]_vars PROVE IInv'
<1>1. CASE UNCHANGED vars
  <2>1. track' = track
    BY <1>1 DEF vars
  <2> QED
    BY <1>1, <2>1, Steps, SameTrack
    DEF vars, IInv, TypeOK, Placed, Closed, Counted, SamplesComplete, Judged, Complete, Bounded, Less, Before
<1> QED
  BY <1>1, OpenKept, SkipFirstKept, NoteFirstKept, FindLastKept, TotalKept, CountSamplesKept,
     UseStampsKept, RateKept, FitPayloadKept, SetTimesKept DEF Next

THEOREM SpecKept == Spec => []IInv
<1>1. Init => IInv
  BY InitKept
<1>2. IInv /\ [Next]_vars => IInv'
  BY StepKept
<1> QED
  BY <1>1, <1>2, PTL DEF Spec

(* Every variable holds what it should: no loop over the payloads leaves    *)
(* the index.                                                               *)
THEOREM RateTyped == Spec => []TypeOK
<1>1. IInv => TypeOK
  BY DEF IInv
<1> QED
  BY <1>1, SpecKept, PTL

(* Whatever track it is and wherever in it the key begins and ends, the     *)
(* samples it totals or counts are all of those of the track.               *)
THEOREM RateCountsAll == Spec => []SamplesComplete
<1>1. IInv => SamplesComplete
  BY DEF IInv
<1> QED
  BY <1>1, SpecKept, PTL

(* A key that the track has not gets no rate and no times.                  *)
THEOREM RateOfAbsent == Spec => []AbsentNoRate
<1>1. IInv => AbsentNoRate
  <2> SUFFICES ASSUME IInv, WithKey = {} PROVE rate = Zero /\ times = Unset
    BY DEF AbsentNoRate
  <2>1. ~Holds(teststart)
    BY DEF Holds, Opens, WithKey
  <2> QED
    BY <2>1 DEF IInv, Placed
<1> QED
  BY <1>1, SpecKept, PTL

(* The stream is read while it is open on nothing only after a bad payload  *)
(* that no payload with the key follows.                                    *)
THEOREM RateReadsOpen == Spec => []StreamOpen
<1>1. IInv => StreamOpen
  <2> SUFFICES ASSUME IInv, phase = "crashed"
               PROVE  \E i \in DOMAIN payloads :
                        /\ payloads[i].state = "bad"
                        /\ \A j \in DOMAIN payloads : j > i => ~Holds(j)
    BY DEF StreamOpen
  <2>1. ClosedUpTo(indexcount) /\ track \in Tracks
    BY DEF IInv, Closed
  <2>2. \A j \in DOMAIN payloads : j \in Nat /\ j < indexcount /\ indexcount \in Nat
    BY <2>1, TrackFacts
  <2> QED
    BY <2>1, <2>2 DEF ClosedUpTo
<1> QED
  BY <1>1, SpecKept, PTL
=============================================================================
