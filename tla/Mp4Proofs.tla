------------------------------ MODULE Mp4Proofs ------------------------------
(***************************************************************************)
(* What holds of the reader on every file: its arrays are never left, and  *)
(* on a whole file, of any depth and any number of atoms, the books of the *)
(* nesting are those of the containers around the next atom.  The argument *)
(* is one lemma, NextStacked: the levels that a turn leaves open are those *)
(* of the atoms that hold the place where the reader goes.                 *)
(***************************************************************************)
EXTENDS Mp4Udta, TLAPS, FiniteSetTheorems, WellFoundedInduction

-----------------------------------------------------------------------------
(* A set of naturals has a least member.                                    *)
LEMMA LeastOf ==
  ASSUME NEW S \in SUBSET Nat, S # {}
  PROVE  \E x \in S : \A y \in S : x <= y
<1> DEFINE T == {0..n : n \in S}
<1>1. T \subseteq FiniteSubsetsOf(Nat) /\ T # {}
  <2>1. ASSUME NEW n \in S PROVE 0..n \in FiniteSubsetsOf(Nat)
    BY FS_Interval DEF FiniteSubsetsOf
  <2> QED
    BY <2>1
<1>2. PICK t \in T : \A u \in T : ~ (<<u, t>> \in StrictSubsetOrdering(Nat))
  <2> HIDE DEF T
  <2> QED
    BY <1>1, FS_StrictSubsetOrderingWellFounded, WFMin
<1>3. PICK x \in S : t = 0..x
  BY DEF T
<1>4. ASSUME NEW y \in S, y < x PROVE FALSE
  <2>1. 0..y \in T
    OBVIOUS
  <2>2. 0..y \in SUBSET Nat /\ 0..x \in SUBSET Nat /\ 0..y \subseteq 0..x /\ x \notin 0..y /\ x \in 0..x
    BY <1>4
  <2>3. <<0..y, 0..x>> \in StrictSubsetOrdering(Nat)
    BY <2>2, Zenon DEF StrictSubsetOrdering
  <2> QED
    BY <1>2, <1>3, <2>1, <2>3
<1> QED
  BY <1>4

(* Sizes that are used up from some level inwards: as many levels stay open *)
(* as are before it, and each of them keeps what is left.                   *)
LEMMA AccountedIs ==
  ASSUME NEW max \in Nat, NEW n \in 1..max, NEW sizes \in [1..max -> Nat], NEW x \in Nat,
         \A i \in 1..n : sizes[i] > 0,
         \A i, j \in 1..n : i < j /\ sizes[i] - x <= 8 => sizes[j] - x <= 8
  PROVE  LET k == StillOpen(sizes, n, x)
         IN /\ k \in 0..n
            /\ \A i \in 1..n : i <= k <=> sizes[i] - x > 8
            /\ \A i \in 1..k : Accounted(sizes, n, x)[i] = sizes[i] - x
<1> DEFINE S == {i \in Open(sizes, n) : sizes[i] - x <= 8}
<1>1. Open(sizes, n) = 1..n
  BY DEF Open
<1>2. PICK k \in 0..n : \A i \in 1..n : i <= k <=> sizes[i] - x > 8
  <2>1. CASE S = {}
    <3>1. ASSUME NEW i \in 1..n PROVE sizes[i] - x > 8
      <4>1. i \notin S /\ i \in Open(sizes, n)
        BY <1>1, <2>1
      <4>2. sizes[i] \in Nat
        OBVIOUS
      <4> QED
        BY <4>1, <4>2
    <3>2. n \in 0..n /\ \A i \in 1..n : i <= n
      OBVIOUS
    <3> QED
      BY <3>1, <3>2
  <2>2. CASE S # {}
    <3>1. S \in SUBSET Nat
      BY <1>1
    <3>2. PICK m \in S : \A y \in S : m <= y
      <4> HIDE DEF S
      <4> QED
        BY <2>2, <3>1, LeastOf
    <3>3. m \in 1..n /\ sizes[m] - x <= 8
      BY <1>1
    <3>4. \A i \in 1..n : i <= m - 1 <=> sizes[i] - x > 8
      BY <1>1, <3>2, <3>3, SMTT(30)
    <3>5. m - 1 \in 0..n
      BY <3>3
    <3> HIDE DEF S
    <3> QED
      BY <3>4, <3>5
  <2> QED
    BY <2>1, <2>2
<1>3. S = (k + 1)..n
  BY <1>1, <1>2
<1>4. Cardinality(S) = n - k
  <2>1. Cardinality((k + 1)..n) = IF k + 1 > n THEN 0 ELSE n - (k + 1) + 1
    BY FS_Interval
  <2> HIDE DEF S
  <2> QED
    BY <1>3, <2>1
<1>5. StillOpen(sizes, n, x) = k
  BY <1>4 DEF StillOpen
<1>6. ASSUME NEW i \in 1..k PROVE Accounted(sizes, n, x)[i] = sizes[i] - x
  <2>1. i \in 1..max /\ i \in Open(sizes, n) /\ sizes[i] - x > 8
    BY <1>1, <1>2
  <2> QED
    BY <2>1 DEF Accounted
<1> QED
  BY <1>2, <1>5, <1>6

(* Whatever the sizes are, they stay numbers, and levels are only left.     *)
LEMMA AccountedTyped ==
  ASSUME NEW max \in Nat, NEW n \in 0..max, NEW sizes \in [1..max -> Nat], NEW x \in Int
  PROVE  StillOpen(sizes, n, x) \in 0..n /\ Accounted(sizes, n, x) \in [1..max -> Nat]
<1> DEFINE S == {i \in Open(sizes, n) : sizes[i] - x <= 8}
<1>1. S \in SUBSET (1..n)
  BY DEF Open
<1>2. IsFiniteSet(1..n) /\ Cardinality(1..n) = n
  BY FS_Interval
<1>3. IsFiniteSet(S) /\ Cardinality(S) <= n
  <2> HIDE DEF S
  <2> QED
    BY <1>1, <1>2, FS_Subset, ZenonT(30)
<1>4. Cardinality(S) \in Nat
  BY <1>3, FS_CardinalityType
<1>5. StillOpen(sizes, n, x) \in 0..n
  BY <1>3, <1>4 DEF StillOpen
<1>6. \A i \in 1..max : Accounted(sizes, n, x)[i] \in Nat
  BY DEF Accounted
<1> QED
  BY <1>5, <1>6 DEF Accounted

(* The next atom the reader stands on.                                      *)
Placed(seq) ==
  /\ Len(seq) \in Nat /\ DOMAIN seq = 1..Len(seq)
  /\ \A i \in DOMAIN seq : seq[i].off \in Nat /\ seq[i].size \in Nat /\ seq[i].wide \in BOOLEAN

LEMMA AtomAtIs ==
  ASSUME Placed(atoms), at \in DOMAIN atoms, NEW place \in Int
  PROVE  LET n == AtomAt(place)
         IN /\ n \in (at + 1)..(Len(atoms) + 1)
            /\ n <= Len(atoms) => atoms[n].off >= place
            /\ n > at + 1 => atoms[n - 1].off < place
<1> DEFINE S == {j \in (at + 1)..(Len(atoms) + 1) : j > Len(atoms) \/ atoms[j].off >= place}
<1>1. Len(atoms) \in Nat /\ at \in 1..Len(atoms)
  BY DEF Placed
<1>2. S \in SUBSET Nat /\ Len(atoms) + 1 \in S
  BY <1>1
<1>3. PICK n \in S : \A y \in S : n <= y
  <2> HIDE DEF S
  <2> QED
    BY <1>2, LeastOf
<1>4. n > at + 1 => atoms[n - 1].off < place
  <2> SUFFICES ASSUME n > at + 1 PROVE atoms[n - 1].off < place
    OBVIOUS
  <2>1. n - 1 \in (at + 1)..Len(atoms) /\ n - 1 \notin S
    BY <1>1, <1>3
  <2>2. atoms[n - 1].off \in Nat
    BY <2>1 DEF Placed
  <2> QED
    BY <2>1, <2>2
<1>5. \E j \in (at + 1)..(Len(atoms) + 1) :
        /\ j > Len(atoms) \/ atoms[j].off >= place
        /\ j > at + 1 => atoms[j - 1].off < place
  BY <1>3, <1>4
<1> QED
  BY <1>1, <1>5, SMTT(30) DEF AtomAt

-----------------------------------------------------------------------------
(***************************************************************************)
(* The books of the nesting: the open levels are the containers around the *)
(* atom that comes next, the outermost first, each with what is left of it *)
(* from there.                                                             *)
(***************************************************************************)
Boxes(seq, c) ==
  {j \in 1..(c - 1) : seq[j].tag \in Containers /\ AtomEnd(seq[j]) - seq[c].off > 8}

Stacked(seq, c, n, sizes) ==
  \E b \in [1..n -> 1..(c - 1)] :
    /\ \A i, k \in 1..n : i < k => b[i] < b[k]
    /\ Boxes(seq, c) = {b[i] : i \in 1..n}
    /\ \A i \in 1..n : sizes[i] = AtomEnd(seq[b[i]]) - seq[c].off

(* What Nested says of two atoms, and of a container.                       *)
LEMMA NestedFacts ==
  ASSUME NEW seq, Placed(seq), Nested(seq), NEW i \in DOMAIN seq, NEW j \in DOMAIN seq
  PROVE  /\ AtomEnd(seq[i]) \in Nat /\ HeaderEnd(seq[i]) \in Nat
         /\ HeaderEnd(seq[i]) = seq[i].off + 8 \/ (seq[i].wide /\ HeaderEnd(seq[i]) = seq[i].off + 16)
         /\ i < j => HeaderEnd(seq[i]) <= seq[j].off /\ seq[i].off < seq[j].off
         /\ i < j /\ seq[j].off < AtomEnd(seq[i]) => AtomEnd(seq[j]) <= AtomEnd(seq[i])
         /\ i < j /\ seq[j].off < AtomEnd(seq[i]) /\ seq[i].tag \in Containers =>
              /\ ~seq[j].wide
              /\ AtomEnd(seq[j]) = AtomEnd(seq[i]) \/ \E m \in DOMAIN seq : seq[m].off = AtomEnd(seq[j])
         /\ seq[i].tag \in Containers =>
              \/ HeaderEnd(seq[i]) = AtomEnd(seq[i])
              \/ \E m \in DOMAIN seq : seq[m].off = HeaderEnd(seq[i])
<1> DEFINE starts == {seq[m].off : m \in DOMAIN seq}
           len == Len(seq)
<1>1. DOMAIN seq = 1..len /\ len \in Nat
  BY DEF Placed
<1>2. i \in 1..len /\ j \in 1..len
  BY <1>1
<1>3. \A y \in starts : \E m \in DOMAIN seq : seq[m].off = y
  OBVIOUS
<1>4. /\ seq[i].tag \in Containers =>
           HeaderEnd(seq[i]) = AtomEnd(seq[i]) \/ HeaderEnd(seq[i]) \in starts
      /\ j \in (i + 1)..len =>
           /\ HeaderEnd(seq[i]) <= seq[j].off
           /\ seq[j].off < AtomEnd(seq[i]) =>
                /\ AtomEnd(seq[j]) <= AtomEnd(seq[i])
                /\ seq[i].tag \in Containers =>
                     ~seq[j].wide /\ (AtomEnd(seq[j]) = AtomEnd(seq[i]) \/ AtomEnd(seq[j]) \in starts)
  BY Zenon DEF Nested
<1>5. /\ seq[i].off \in Nat /\ seq[i].size \in Nat
      /\ seq[j].off \in Nat /\ seq[j].size \in Nat
  BY <1>1, <1>2 DEF Placed
<1> HIDE DEF starts, len
<1>6. /\ AtomEnd(seq[i]) \in Nat /\ HeaderEnd(seq[i]) \in Nat
      /\ HeaderEnd(seq[i]) = seq[i].off + 8 \/ (seq[i].wide /\ HeaderEnd(seq[i]) = seq[i].off + 16)
  <2>1. CASE seq[i].wide
    BY <1>5, <2>1 DEF AtomEnd, HeaderEnd
  <2>2. CASE ~seq[i].wide
    BY <1>5, <2>2 DEF AtomEnd, HeaderEnd
  <2> QED
    BY <2>1, <2>2
<1>7. i < j => j \in (i + 1)..len
  BY <1>1, <1>2
<1>8. i < j => HeaderEnd(seq[i]) <= seq[j].off /\ seq[i].off < seq[j].off
  <2> SUFFICES ASSUME i < j PROVE HeaderEnd(seq[i]) <= seq[j].off /\ seq[i].off < seq[j].off
    OBVIOUS
  <2>1. HeaderEnd(seq[i]) <= seq[j].off
    BY <1>4, <1>7
  <2> QED
    BY <1>5, <1>6, <2>1
<1>9. /\ i < j /\ seq[j].off < AtomEnd(seq[i]) => AtomEnd(seq[j]) <= AtomEnd(seq[i])
      /\ i < j /\ seq[j].off < AtomEnd(seq[i]) /\ seq[i].tag \in Containers =>
           /\ ~seq[j].wide
           /\ AtomEnd(seq[j]) = AtomEnd(seq[i]) \/ \E m \in DOMAIN seq : seq[m].off = AtomEnd(seq[j])
      /\ seq[i].tag \in Containers =>
           \/ HeaderEnd(seq[i]) = AtomEnd(seq[i])
           \/ \E m \in DOMAIN seq : seq[m].off = HeaderEnd(seq[i])
  BY <1>3, <1>4, <1>7
<1> QED
  BY <1>6, <1>8, <1>9, Zenon

LEMMA NestedNarrow ==
  ASSUME NEW seq, Placed(seq), Nested(seq), NEW i \in DOMAIN seq, NEW j \in DOMAIN seq,
         i < j, seq[j].off < AtomEnd(seq[i]), seq[i].tag \in Containers
  PROVE  ~seq[j].wide
<1>1. j \in (i + 1)..Len(seq)
  BY DEF Placed
<1> QED
  BY <1>1, Zenon DEF Nested

(* What is left of an atom, by its size and by its end.                     *)
LEMMA ToldOff ==
  ASSUME NEW off \in Int, NEW size \in Int, NEW wider \in Int, NEW x \in Int,
         NEW left, left = size - wider, NEW body, body = off + (8 + wider),
         NEW end, end = off + size
  PROVE  left - x = end - (body + x - 8)
OBVIOUS

LEMMA ToldInside ==
  ASSUME NEW end \in Int, NEW off \in Int, NEW x \in Int, end - off > 8,
         NEW left, left = end - off, NEW place, place = off + x
  PROVE  left > 0 /\ left - x = end - place
OBVIOUS

(* Where the reader goes: behind the header of a container, or behind the   *)
(* atom; and what is told off an atom leaves what follows that place.       *)
LEMMA WhereNext ==
  ASSUME Placed(atoms), at \in DOMAIN atoms, qtsize >= 8,
         NEW x, x = IF atom.tag \in Containers THEN 8 ELSE qtsize
  PROVE  LET place == behind + x - 8
         IN /\ x \in Nat /\ place \in Nat /\ HeaderEnd(atom) <= place
            /\ atom.tag \in Containers => place = HeaderEnd(atom)
            /\ atom.tag \notin Containers => place = AtomEnd(atom)
            /\ ~atom.wide => place = atom.off + x
            /\ qtsize - x = AtomEnd(atom) - place
<1>1. atom.off \in Nat /\ atom.size \in Nat
  BY DEF Placed, atom
<1>2. behind = HeaderEnd(atom)
  BY <1>1 DEF behind, filepos, HeaderEnd
<1>3. /\ qtsize = IF atom.wide THEN atom.size - 8 ELSE atom.size
      /\ behind = IF atom.wide THEN atom.off + 8 + 8 ELSE atom.off + 8
  BY DEF qtsize, behind, filepos
<1>4. AtomEnd(atom) = atom.off + atom.size
  BY DEF AtomEnd
<1>5. /\ x \in Nat /\ behind + x - 8 \in Nat /\ behind <= behind + x - 8
      /\ atom.tag \in Containers => behind + x - 8 = behind
      /\ atom.tag \notin Containers => behind + x - 8 = atom.off + atom.size
      /\ ~atom.wide => behind + x - 8 = atom.off + x
  <2>1. CASE atom.wide
    BY <1>1, <1>3, <2>1
  <2>2. CASE ~atom.wide
    BY <1>1, <1>3, <2>2
  <2> QED
    BY <2>1, <2>2
<1>6. HeaderEnd(atom) <= behind + x - 8
  <2>1. behind <= behind + x - 8
    BY <1>5
  <2> QED
    BY <1>2, <2>1
<1>7. atom.tag \in Containers => behind + x - 8 = HeaderEnd(atom)
  BY <1>2, <1>5
<1>8. atom.tag \notin Containers => behind + x - 8 = AtomEnd(atom)
  BY <1>4, <1>5
<1>9. qtsize - x = AtomEnd(atom) - (behind + x - 8)
  <2>1. CASE atom.wide
    <3>1. qtsize = atom.size - 8 /\ behind = atom.off + (8 + 8)
      BY <1>1, <1>3, <2>1
    <3> QED
      BY <1>1, <1>4, <1>5, <3>1, ToldOff
  <2>2. CASE ~atom.wide
    <3>1. qtsize = atom.size - 0 /\ behind = atom.off + (8 + 0)
      BY <1>1, <1>3, <2>2
    <3> QED
      BY <1>1, <1>4, <1>5, <3>1, ToldOff
  <2> QED
    BY <2>1, <2>2
<1> QED
  BY <1>5, <1>6, <1>7, <1>8, <1>9

(* The turn of the reader at an atom it takes: the atom is told off all the *)
(* levels, its own included, and those with no room left are closed.  What  *)
(* stays open has its next atom just where the reader goes.                 *)
Turning(x) ==
  /\ Placed(atoms) /\ Nested(atoms) /\ at \in DOMAIN atoms
  /\ MaxNest \in Nat /\ nest \in Nat /\ nest + 1 <= MaxNest /\ nestsize \in [1..MaxNest -> Nat]
  /\ Stacked(atoms, at, nest, nestsize)
  /\ qtsize >= 8 /\ x = IF atom.tag \in Containers THEN 8 ELSE qtsize
  /\ AtomAt(behind + x - 8) <= Len(atoms)

LEMMA NextStacked ==
  ASSUME NEW x, Turning(x)
  PROVE  LET inside == [nestsize EXCEPT ![nest + 1] = qtsize]
         IN Stacked(atoms, AtomAt(behind + x - 8),
                    StillOpen(inside, nest + 1, x), Accounted(inside, nest + 1, x))
<1> DEFINE inside == [nestsize EXCEPT ![nest + 1] = qtsize]
           place == behind + x - 8
           n == AtomAt(place)
           k == StillOpen(inside, nest + 1, x)
           left == Accounted(inside, nest + 1, x)
           fin(j) == AtomEnd(atoms[j])
           boxed(j) == atoms[j].tag \in Containers
<1>0. /\ Placed(atoms) /\ Nested(atoms) /\ at \in DOMAIN atoms
      /\ MaxNest \in Nat /\ nest \in Nat /\ nest + 1 <= MaxNest /\ nestsize \in [1..MaxNest -> Nat]
  BY DEF Turning
<1>1. PICK b \in [1..nest -> 1..(at - 1)] :
        /\ \A i, j \in 1..nest : i < j => b[i] < b[j]
        /\ Boxes(atoms, at) = {b[i] : i \in 1..nest}
        /\ \A i \in 1..nest : nestsize[i] = AtomEnd(atoms[b[i]]) - atom.off
  BY DEF Turning, Stacked, atom
<1> DEFINE c(i) == IF i <= nest THEN b[i] ELSE at
<1>2. /\ Len(atoms) \in Nat /\ at \in 1..Len(atoms) /\ DOMAIN atoms = 1..Len(atoms)
      /\ atom = atoms[at]
      /\ atom.off \in Nat /\ atom.size \in Nat /\ atom.wide \in BOOLEAN
  BY <1>0 DEF Placed, atom
<1>3. ASSUME NEW i \in DOMAIN atoms PROVE atoms[i].off \in Nat /\ fin(i) \in Nat
  BY <1>0, <1>3, NestedFacts DEF Placed
<1>4. /\ x \in Nat /\ place \in Nat
      /\ HeaderEnd(atom) <= place
      /\ IF boxed(at) THEN place = HeaderEnd(atom) ELSE place = fin(at)
      /\ ~atom.wide => place = atom.off + x
      /\ qtsize - x = fin(at) - place
  BY <1>0, <1>2, WhereNext DEF Turning
<1>5. ASSUME NEW i \in 1..nest
      PROVE  /\ b[i] \in 1..(at - 1) /\ b[i] \in DOMAIN atoms /\ boxed(b[i])
             /\ fin(b[i]) - atom.off > 8 /\ ~atom.wide
             /\ fin(at) <= fin(b[i])
             /\ fin(at) = fin(b[i]) \/ \E m \in DOMAIN atoms : atoms[m].off = fin(at)
  <2>1. b[i] \in Boxes(atoms, at) /\ b[i] \in DOMAIN atoms /\ b[i] < at
    BY <1>1, <1>2
  <2>2. boxed(b[i]) /\ fin(b[i]) - atom.off > 8
    BY <1>2, <2>1 DEF Boxes
  <2>3. fin(b[i]) \in Nat /\ atom.off < fin(b[i])
    BY <1>2, <1>3, <2>1, <2>2
  <2>4. /\ ~atom.wide /\ fin(at) <= fin(b[i])
        /\ fin(at) = fin(b[i]) \/ \E m \in DOMAIN atoms : atoms[m].off = fin(at)
    <3>1. atoms[at].off < fin(b[i]) /\ b[i] < at
      BY <1>2, <2>1, <2>3
    <3>2. b[i] \in DOMAIN atoms /\ atoms[b[i]].tag \in Containers
      BY <2>1, <2>2
    <3> HIDE DEF boxed
    <3>3. AtomEnd(atoms[at]) <= AtomEnd(atoms[b[i]])
      BY <1>0, <3>1, <3>2, NestedFacts
    <3>4. ~atoms[at].wide
      BY <1>0, <3>1, <3>2, NestedNarrow
    <3>5. \/ AtomEnd(atoms[at]) = AtomEnd(atoms[b[i]])
          \/ \E m \in DOMAIN atoms : atoms[m].off = AtomEnd(atoms[at])
      BY <1>0, <3>1, <3>2, NestedFacts
    <3> QED
      BY <3>3, <3>4, <3>5 DEF atom
  <2> QED
    BY <2>1, <2>2, <2>4
<1>6. ASSUME NEW i \in 1..(nest + 1)
      PROVE  /\ c(i) \in 1..at /\ c(i) \in DOMAIN atoms /\ fin(c(i)) \in Nat
             /\ i <= nest => boxed(c(i)) /\ c(i) \in 1..(at - 1)
  <2>1. CASE i <= nest
    <3>1. i \in 1..nest /\ c(i) = b[i]
      BY <1>0, <2>1
    <3> HIDE DEF c, fin, boxed
    <3> QED
      BY <1>2, <1>3, <1>5, <3>1
  <2>2. CASE ~(i <= nest)
    <3>1. c(i) = at
      BY <2>2
    <3> HIDE DEF c, fin, boxed
    <3> QED
      BY <1>2, <1>3, <2>2, <3>1
  <2> QED
    BY <2>1, <2>2
<1>7. ASSUME NEW i \in 1..(nest + 1), NEW j \in 1..(nest + 1), i < j
      PROVE  c(i) < c(j) /\ fin(c(j)) <= fin(c(i))
  <2>1. i \in 1..nest /\ c(i) = b[i]
    BY <1>0, <1>7
  <2>2. CASE j <= nest
    <3>1. j \in 1..nest /\ c(j) = b[j] /\ b[i] < b[j]
      BY <1>1, <1>7, <2>1, <2>2
    <3>2. /\ b[i] \in DOMAIN atoms /\ b[j] \in DOMAIN atoms /\ b[j] < at
          /\ fin(b[i]) - atom.off > 8 /\ fin(b[i]) \in Nat
      BY <1>2, <1>3, <1>5, <2>1, <3>1
    <3>3. atoms[b[j]].off < atoms[at].off
      BY <3>2, NestedFacts, <1>0
    <3>4. atoms[b[j]].off < fin(b[i])
      <4>1. atoms[b[j]].off \in Nat /\ atoms[at].off \in Nat
        BY <1>2, <1>3, <3>2
      <4> HIDE DEF fin
      <4>2. atoms[at].off < fin(b[i])
        BY <1>2, <3>2, <4>1
      <4> QED
        BY <3>2, <3>3, <4>1, <4>2
    <3>5. AtomEnd(atoms[b[j]]) <= AtomEnd(atoms[b[i]])
      BY <3>1, <3>2, <3>4, NestedFacts, <1>0
    <3> QED
      BY <2>1, <3>1, <3>5
  <2>3. CASE ~(j <= nest)
    <3>1. c(j) = at
      BY <2>3
    <3> HIDE DEF c, fin, boxed
    <3> QED
      BY <1>5, <1>2, <2>1, <3>1
  <2> QED
    BY <2>2, <2>3
<1>8. inside \in [1..MaxNest -> Nat] /\ nest + 1 \in 1..MaxNest
  <2>1. qtsize \in Nat
    BY <1>2 DEF qtsize, Turning
  <2> QED
    BY <1>0, <2>1
<1>9. ASSUME NEW i \in 1..(nest + 1)
      PROVE  inside[i] > 0 /\ inside[i] - x = fin(c(i)) - place
  <2>1. CASE i <= nest
    <3>1. i \in 1..nest /\ c(i) = b[i] /\ inside[i] = nestsize[i] /\ i \in 1..MaxNest
      BY <1>0, <2>1
    <3>2. nestsize[i] = fin(b[i]) - atom.off /\ fin(b[i]) \in Nat /\ fin(b[i]) - atom.off > 8
      BY <1>1, <1>3, <1>5, <3>1
    <3>3. place = atom.off + x
      BY <1>4, <1>5, <3>1, Zenon
    <3> HIDE DEF c, fin, inside, place
    <3>4. inside[i] = fin(b[i]) - atom.off /\ fin(c(i)) = fin(b[i])
      BY <3>1, <3>2, Zenon
    <3>5. fin(b[i]) \in Int /\ atom.off \in Int /\ x \in Int
      BY <1>2, <1>4, <3>2
    <3>6. inside[i] > 0 /\ inside[i] - x = fin(b[i]) - place
      BY <3>2, <3>3, <3>4, <3>5, ToldInside
    <3> QED
      BY <3>4, <3>6
  <2>2. CASE ~(i <= nest)
    <3>1. i = nest + 1 /\ c(i) = at
      BY <1>0, <2>2
    <3>2. inside[i] = qtsize
      BY <1>0, <1>8, <3>1
    <3>3. qtsize > 0
      BY <1>8, <3>2 DEF Turning
    <3> HIDE DEF c, fin, inside, place
    <3> QED
      BY <1>4, <3>1, <3>2, <3>3
  <2> QED
    BY <2>1, <2>2
<1>10. /\ k \in 0..(nest + 1)
       /\ \A i \in 1..(nest + 1) : i <= k <=> fin(c(i)) - place > 8
       /\ \A i \in 1..k : left[i] = fin(c(i)) - place
  <2> HIDE DEF c, fin, place, inside
  <2>1. ASSUME NEW i \in 1..(nest + 1), NEW j \in 1..(nest + 1), i < j, inside[i] - x <= 8
        PROVE  inside[j] - x <= 8
    BY <1>4, <1>6, <1>7, <1>9, <2>1
  <2>2. /\ k \in 0..(nest + 1)
        /\ \A i \in 1..(nest + 1) : i <= k <=> inside[i] - x > 8
        /\ \A i \in 1..k : left[i] = inside[i] - x
    BY <1>0, <1>4, <1>8, <1>9, <2>1, AccountedIs
  <2> HIDE DEF k, left
  <2>3. \A i \in 1..(nest + 1) : i <= k <=> fin(c(i)) - place > 8
    BY <1>9, <2>2
  <2>4. \A i \in 1..k : i \in 1..(nest + 1)
    BY <1>0, <2>2
  <2>5. \A i \in 1..k : left[i] = fin(c(i)) - place
    BY <1>9, <2>2, <2>4
  <2> QED
    BY <2>2, <2>3, <2>5
<1>11. /\ n \in (at + 1)..Len(atoms) /\ n \in DOMAIN atoms /\ atoms[n].off >= place
       /\ n > at + 1 => atoms[n - 1].off < place
  <2>1. n <= Len(atoms)
    BY DEF Turning
  <2> HIDE DEF place
  <2>2. /\ n \in (at + 1)..(Len(atoms) + 1)
        /\ n <= Len(atoms) => atoms[n].off >= place
        /\ n > at + 1 => atoms[n - 1].off < place
    <3>1. place \in Int
      BY <1>4
    <3> QED
      BY <1>0, <3>1, AtomAtIs
  <2> HIDE DEF n
  <2> QED
    BY <1>2, <2>1, <2>2
<1>12. ASSUME NEW m \in (at + 1)..(n - 1)
       PROVE  /\ m \in DOMAIN atoms /\ atoms[m].off < place
              /\ place = fin(at) /\ fin(m) <= place
  <2> HIDE DEF n, place, boxed
  <2>1. m \in DOMAIN atoms /\ n - 1 \in DOMAIN atoms /\ n > at + 1 /\ at < m
    BY <1>2, <1>11
  <2>2. atoms[m].off \in Nat /\ atoms[n - 1].off \in Nat /\ atoms[n - 1].off < place
    BY <1>3, <1>11, <2>1
  <2>3. m < n - 1 => atoms[m].off < atoms[n - 1].off
    BY <1>0, <2>1, NestedFacts
  <2>4. m < n - 1 \/ m = n - 1
    BY <1>2, <1>11
  <2>5. atoms[m].off < place
    BY <1>4, <2>2, <2>3, <2>4
  <2>6. HeaderEnd(atoms[at]) <= atoms[m].off /\ HeaderEnd(atoms[at]) \in Nat
    BY <1>0, <2>1, NestedFacts
  <2>7. ~boxed(at)
    BY <1>2, <1>4, <2>2, <2>5, <2>6
  <2>8. place = fin(at)
    BY <1>4, <2>7
  <2>9. AtomEnd(atoms[m]) <= AtomEnd(atoms[at])
    <3>1. atoms[m].off < AtomEnd(atoms[at])
      BY <2>5, <2>8
    <3> QED
      BY <1>0, <2>1, <3>1, NestedFacts
  <2> QED
    BY <2>1, <2>5, <2>8, <2>9
<1>13. ASSUME k >= 1 PROVE atoms[n].off = place
  <2> HIDE DEF n, place, k
  <2>1. fin(c(1)) - place > 8
    <3> HIDE DEF c, fin
    <3>1. 1 \in 1..(nest + 1) /\ 1 <= k
      BY <1>0, <1>10, <1>13
    <3> QED
      BY <1>10, <3>1
  <2>2. \E m \in DOMAIN atoms : atoms[m].off = place
    <3>1. CASE place = HeaderEnd(atom) /\ boxed(at) /\ HeaderEnd(atom) # fin(at)
      BY <1>0, <1>2, <3>1, NestedFacts
    <3>2. CASE place = fin(at)
      <4>1. fin(c(1)) # fin(at)
        <5> HIDE DEF c, fin
        <5> QED
          BY <1>4, <2>1, <3>2
      <4>2. 1 <= nest /\ c(1) = b[1]
        BY <1>0, <4>1
      <4>3. 1 \in 1..nest
        BY <1>0, <4>2
      <4> HIDE DEF c, fin
      <4> QED
        BY <1>5, <3>2, <4>1, <4>2, <4>3
    <3> QED
      BY <1>2, <1>4, <3>1, <3>2
  <2>3. PICK m \in DOMAIN atoms : atoms[m].off = place
    BY <2>2
  <2>4. at < m
    <3> SUFFICES ASSUME m <= at PROVE FALSE
      BY <1>2
    <3>1. m < at => atoms[m].off < atoms[at].off
      BY <1>0, NestedFacts
    <3>2. atoms[at].off < HeaderEnd(atoms[at]) /\ HeaderEnd(atoms[at]) \in Nat
      <4>1. /\ HeaderEnd(atoms[at]) \in Nat
            /\ HeaderEnd(atoms[at]) = atoms[at].off + 8 \/ HeaderEnd(atoms[at]) = atoms[at].off + 16
        BY <1>0, NestedFacts
      <4> QED
        BY <1>2, <4>1
    <3>3. m < at \/ m = at
      BY <1>2
    <3>4. atoms[m].off \in Nat /\ atoms[at].off \in Nat
      BY <1>2, <1>3
    <3> QED
      BY <1>2, <1>4, <2>3, <3>1, <3>2, <3>3, <3>4
  <2>5. n <= m
    <3> SUFFICES ASSUME m < n PROVE FALSE
      BY <1>2, <1>11
    <3>1. m \in (at + 1)..(n - 1)
      BY <1>2, <1>11, <2>4
    <3> QED
      BY <1>4, <1>12, <2>3, <3>1
  <2>6. n < m => atoms[n].off < atoms[m].off
    BY <1>0, <1>11, NestedFacts
  <2>7. n < m \/ n = m
    BY <1>2, <1>11, <2>5
  <2>8. atoms[n].off \in Nat /\ atoms[n].off >= place
    BY <1>3, <1>11
  <2> QED
    BY <1>4, <2>3, <2>6, <2>7, <2>8
<1>14. ASSUME NEW i \in 1..k
       PROVE  /\ i \in 1..(nest + 1) /\ c(i) \in 1..(n - 1) /\ boxed(c(i))
              /\ fin(c(i)) - atoms[n].off > 8 /\ left[i] = fin(c(i)) - atoms[n].off
  <2> HIDE DEF n, place, k, left, c, fin, boxed
  <2>1. i \in 1..(nest + 1) /\ i <= k /\ k >= 1
    BY <1>0, <1>10
  <2>2. fin(c(i)) - place > 8 /\ left[i] = fin(c(i)) - place
    BY <1>10, <2>1
  <2>3. c(i) \in 1..(n - 1)
    BY <1>2, <1>6, <1>11, <2>1
  <2>4. atoms[n].off = place
    BY <1>13, <2>1
  <2>5. boxed(c(i))
    <3>1. CASE i <= nest
      BY <1>6, <2>1, <3>1
    <3>2. CASE ~(i <= nest)
      <4>1. c(i) = at
        BY <3>2 DEF c
      <4>2. fin(at) # place
        BY <1>4, <2>2, <4>1
      <4> QED
        BY <1>4, <4>1, <4>2
    <3> QED
      BY <3>1, <3>2
  <2> QED
    BY <2>1, <2>2, <2>3, <2>4, <2>5
<1>15. ASSUME NEW j \in Boxes(atoms, n) PROVE \E i \in 1..k : c(i) = j
  <2> HIDE DEF n, place, k, left
  <2>1. j \in 1..(n - 1) /\ boxed(j) /\ fin(j) - atoms[n].off > 8
    BY <1>15 DEF Boxes
  <2> HIDE DEF c, fin, boxed
  <2>2. j \in DOMAIN atoms /\ fin(j) \in Nat /\ atoms[n].off \in Nat
    BY <1>2, <1>3, <1>11, <2>1
  <2>3. fin(j) - place > 8
    BY <1>4, <1>11, <2>1, <2>2
  <2>4. \E i \in 1..(nest + 1) : c(i) = j
    <3>1. CASE j > at
      <4>1. j \in (at + 1)..(n - 1)
        BY <1>2, <1>11, <2>1, <3>1
      <4>2. fin(j) <= place
        BY <1>12, <4>1
      <4> QED
        BY <1>4, <2>2, <2>3, <4>2
    <3>2. CASE j = at
      <4>1. nest + 1 \in 1..(nest + 1) /\ c(nest + 1) = at
        BY <1>0 DEF c
      <4> QED
        BY <3>2, <4>1
    <3>3. CASE j < at
      <4>1. HeaderEnd(atoms[at]) \in Nat /\ atoms[at].off <= HeaderEnd(atoms[at])
        <5>1. /\ HeaderEnd(atoms[at]) \in Nat
              /\ HeaderEnd(atoms[at]) = atoms[at].off + 8 \/ HeaderEnd(atoms[at]) = atoms[at].off + 16
          BY <1>0, NestedFacts
        <5> QED
          BY <1>2, <5>1
      <4>2. fin(j) - atom.off > 8
        BY <1>2, <1>4, <2>2, <2>3, <4>1
      <4>3. j \in Boxes(atoms, at)
        <5>1. j \in 1..(at - 1)
          BY <1>2, <2>1, <3>3
        <5> QED
          BY <1>2, <2>1, <4>2, <5>1 DEF Boxes, fin, boxed
      <4>4. PICK i \in 1..nest : j = b[i]
        BY <1>1, <4>3
      <4>5. i \in 1..(nest + 1) /\ i <= nest
        BY <1>0
      <4>6. c(i) = j
        BY <4>4, <4>5 DEF c
      <4> QED
        BY <4>5, <4>6
    <3> QED
      BY <1>2, <2>1, <3>1, <3>2, <3>3
  <2>5. PICK i \in 1..(nest + 1) : c(i) = j
    BY <2>4
  <2>6. i <= k
    BY <1>10, <2>3, <2>5
  <2>7. i \in 1..k
    BY <1>0, <1>10, <2>6
  <2> QED
    BY <2>5, <2>7
<1>16. Stacked(atoms, n, k, left)
  <2> DEFINE d == [i \in 1..k |-> c(i)]
  <2> HIDE DEF n, k, left, c, fin, boxed
  <2>1. d \in [1..k -> 1..(n - 1)]
    BY <1>14
  <2>2. \A i, j \in 1..k : i < j => d[i] < d[j]
    BY <1>7, <1>14
  <2>3. Boxes(atoms, n) = {d[i] : i \in 1..k}
    <3>1. ASSUME NEW i \in 1..k PROVE d[i] \in Boxes(atoms, n)
      <4>1. d[i] = c(i)
        OBVIOUS
      <4> HIDE DEF d
      <4> QED
        BY <1>14, <4>1 DEF Boxes, fin, boxed
    <3> QED
      BY <1>15, <3>1
  <2>4. \A i \in 1..k : left[i] = AtomEnd(atoms[d[i]]) - atoms[n].off
    BY <1>14 DEF fin
  <2> HIDE DEF d
  <2> QED
    BY <2>1, <2>2, <2>3, <2>4 DEF Stacked
<1> QED
  BY <1>16

(* The places in an increasing list: so many of its members are below each. *)
LEMMA CountIs ==
  ASSUME NEW n \in Nat, NEW b \in [1..n -> Nat], \A i, j \in 1..n : i < j => b[i] < b[j]
  PROVE  Cardinality({b[i] : i \in 1..n}) = n
<1> DEFINE S == {b[i] : i \in 1..n}
<1>1. b \in Bijection(1..n, S)
  <2>1. b \in [1..n -> S]
    OBVIOUS
  <2>2. \A i, j \in 1..n : b[i] = b[j] => i = j
    <3> SUFFICES ASSUME NEW i \in 1..n, NEW j \in 1..n, b[i] = b[j] PROVE i = j
      OBVIOUS
    <3>1. b[i] \in Nat /\ b[j] \in Nat /\ ~(i < j) /\ ~(j < i)
      OBVIOUS
    <3> QED
      BY <3>1
  <2>3. \A y \in S : \E i \in 1..n : b[i] = y
    OBVIOUS
  <2> QED
    BY <2>1, <2>2, <2>3 DEF Bijection, Injection, IsInjective, Surjection
<1> QED
  BY <1>1, FS_CountingElements DEF ExistsBijection

LEMMA RankIs ==
  ASSUME NEW n \in Nat, NEW b \in [1..n -> Nat], \A i, j \in 1..n : i < j => b[i] < b[j],
         NEW m \in 1..n
  PROVE  Cardinality({y \in {b[i] : i \in 1..n} : y < b[m]}) = m - 1
<1> DEFINE d == [i \in 1..(m - 1) |-> b[i]]
<1>1. d \in [1..(m - 1) -> Nat] /\ m - 1 \in Nat
  OBVIOUS
<1>2. \A i, j \in 1..(m - 1) : i < j => d[i] < d[j]
  OBVIOUS
<1>3. ASSUME NEW i \in 1..n, b[i] < b[m] PROVE i \in 1..(m - 1)
  <2>1. b[i] \in Nat /\ b[m] \in Nat /\ ~(m < i) /\ i # m
    BY <1>3
  <2> QED
    BY <2>1
<1>4. {y \in {b[i] : i \in 1..n} : y < b[m]} = {d[i] : i \in 1..(m - 1)}
  BY <1>3
<1> HIDE DEF d
<1> QED
  BY <1>1, <1>2, <1>4, CountIs

(* Books that are right are those NestKept speaks of.                       *)
LEMMA BooksAround ==
  ASSUME Placed(atoms), at \in DOMAIN atoms, MaxNest \in Nat, nest \in Nat, nest <= MaxNest,
         nestsize \in [1..MaxNest -> Nat], Stacked(atoms, at, nest, nestsize)
  PROVE  SubSeq(nestsize, 1, nest) = Around
<1> DEFINE left(j)  == atoms[j].off + atoms[j].size - atom.off
           boxes    == {j \in 1..(at - 1) : atoms[j].tag \in Containers /\ left(j) > 8}
           nth(i)   == CHOOSE j \in boxes : Cardinality({k \in boxes : k < j}) = i - 1
<1>1. PICK b \in [1..nest -> 1..(at - 1)] :
        /\ \A i, j \in 1..nest : i < j => b[i] < b[j]
        /\ Boxes(atoms, at) = {b[i] : i \in 1..nest}
        /\ \A i \in 1..nest : nestsize[i] = AtomEnd(atoms[b[i]]) - atom.off
  BY DEF Stacked, atom
<1>2. at \in 1..Len(atoms) /\ Len(atoms) \in Nat /\ atom = atoms[at] /\ atom.off \in Nat
  BY DEF Placed, atom
<1>3. ASSUME NEW j \in 1..(at - 1) PROVE left(j) = AtomEnd(atoms[j]) - atom.off
  <2>1. j \in DOMAIN atoms
    BY <1>2 DEF Placed
  <2>2. atoms[j].off \in Nat /\ atoms[j].size \in Nat
    BY <2>1 DEF Placed
  <2> QED
    BY <1>2, <2>2 DEF AtomEnd
<1>4. boxes = Boxes(atoms, at)
  <2> HIDE DEF left
  <2> QED
    BY <1>2, <1>3 DEF Boxes
<1>5. boxes = {b[i] : i \in 1..nest} /\ b \in [1..nest -> Nat]
  <2> HIDE DEF boxes
  <2>1. b \in [1..nest -> Nat]
    BY <1>2
  <2> QED
    BY <1>1, <1>4, <2>1
<1> HIDE DEF boxes, left
<1>6. Cardinality(boxes) = nest
  BY <1>1, <1>5, CountIs
<1>7. ASSUME NEW i \in 1..nest PROVE nth(i) = b[i]
  <2>1. \A m \in 1..nest : Cardinality({k \in boxes : k < b[m]}) = m - 1
    BY <1>1, <1>5, RankIs
  <2>2. b[i] \in boxes /\ Cardinality({k \in boxes : k < b[i]}) = i - 1
    BY <1>5, <2>1
  <2>3. ASSUME NEW j \in boxes, Cardinality({k \in boxes : k < j}) = i - 1 PROVE j = b[i]
    <3>1. PICK m \in 1..nest : j = b[m]
      BY <1>5
    <3>2. m - 1 = i - 1
      BY <2>1, <2>3, <3>1
    <3> QED
      BY <3>1, <3>2
  <2> QED
    BY <2>2, <2>3
<1> HIDE DEF nth
<1>8. ASSUME NEW i \in 1..nest PROVE nestsize[i] = left(nth(i))
  BY <1>1, <1>3, <1>7
<1>9. Around = [i \in 1..nest |-> left(nth(i))]
  BY <1>6 DEF Around, boxes, left, nth
<1>10. SubSeq(nestsize, 1, nest) = [i \in 1..nest |-> nestsize[i]]
  OBVIOUS
<1> QED
  BY <1>8, <1>9, <1>10

-----------------------------------------------------------------------------
(***************************************************************************)
(* The inductive invariant.                                                *)
(***************************************************************************)
Read == {Files[f] : f \in DOMAIN Files}

(* What is told off an atom at its turn.                                    *)
Turn == IF atom.tag \in Containers THEN 8 ELSE qtsize

NestTyped ==
  /\ file \in Read
  /\ at \in 1..(Len(atoms) + 1)
  /\ nest \in 0..(MaxNest - 1)
  /\ nestsize \in [1..MaxNest -> Nat]
  /\ ahead \in Nat /\ lastsize \in Nat

NestInv ==
  /\ NestTyped
  /\ status = "reading" /\ whole /\ at <= Len(atoms) => Stacked(atoms, at, nest, nestsize)

LEMMA Limits == MaxNest \in Nat /\ MaxNest >= 1 /\ MaxTracks \in Nat /\ MaxTracks >= 1
BY LimitAssumption

LEMMA ReadPlaced ==
  ASSUME file \in Read
  PROVE  Placed(atoms) /\ (whole => Nested(atoms)) /\ FileShape(file)
<1>1. FileShape(file) /\ (file.whole => Nested(file.atoms))
  BY FilesAssumption DEF Read
<1> QED
  BY <1>1 DEF FileShape, Placed, atoms, whole

(* A turn of the first pass ends it or leaves one atom behind.              *)
LEMMA Turns ==
  ASSUME Next
  PROVE  \/ UNCHANGED <<file, at, nest, nestsize>> /\ status' \in {"open", "closed"}
         \/ Entered /\ Past(Turn)
<1> DEFINE Stays == UNCHANGED <<file, at, nest, nestsize>> /\ status' \in {"open", "closed"}
           Goes == Entered /\ Past(Turn)
<1>1. Close => Stays
  BY DEF Close
<1>2. Finish => Stays
  BY <1>1 DEF Finish
<1>3. ASSUME NEW tag \in Tables, Is(tag), Past(qtsize) PROVE Goes
  <2>1. atom.tag \notin Containers
    BY <1>3 DEF Is, Tables, Containers
  <2> QED
    BY <1>3, <2>1 DEF Is, Turn
<1>4. ASSUME NEW tag \in Tables, NEW m, Is(tag), Learn(m) PROVE Goes
  BY <1>3, <1>4 DEF Learn
<1>5. ASSUME NEW tag \in Tables, NEW m, Is(tag), Trusting(m) PROVE Goes
  BY <1>4, <1>5 DEF Trusting
<1>6. ASSUME NEW tag \in Tables, SkipTable(tag) PROVE Goes
  BY <1>4, <1>6 DEF SkipTable
<1> SUFFICES Stays \/ Goes
  OBVIOUS
<1> HIDE DEF Stays, Goes
<1>7. CASE EndPass
  BY <1>2, <1>7 DEF EndPass
<1>8. CASE RejectFile
  BY <1>1, <1>8 DEF RejectFile
<1>9. CASE SkipAtom
  BY <1>9 DEF SkipAtom, Turn, Goes
<1>10. CASE EnterContainer
  BY <1>10 DEF EnterContainer, Turn, Goes
<1>11. CASE ReadMvhd
  BY <1>4, <1>11 DEF ReadMvhd, Tables
<1>12. CASE ReadMdhd
  BY <1>1, <1>4, <1>12 DEF ReadMdhd, Tables
<1>13. CASE ReadHdlr
  BY <1>4, <1>13 DEF ReadHdlr, Tables
<1>14. CASE ReadStsd
  BY <1>4, <1>14 DEF ReadStsd, Tables
<1>15. CASE ReadEdts
  BY <1>4, <1>15 DEF ReadEdts, Tables
<1>16. CASE ReadStsc
  BY <1>1, <1>5, <1>6, <1>16 DEF ReadStsc, Tables
<1>17. CASE ReadStsz
  BY <1>1, <1>5, <1>6, <1>17 DEF ReadStsz, Tables
<1>18. CASE ReadStco
  BY <1>1, <1>5, <1>6, <1>18 DEF ReadStco, Tables
<1>19. CASE ReadCo64
  BY <1>1, <1>5, <1>6, <1>19 DEF ReadCo64, Tables
<1>20. CASE ReadStts
  BY <1>1, <1>5, <1>20 DEF ReadStts, MetaTimes, VideoTimes, Tables
<1> QED
  BY <1>7, <1>8, <1>9, <1>10, <1>11, <1>12, <1>13, <1>14, <1>15, <1>16, <1>17, <1>18, <1>19, <1>20
     DEF Next

(* Of an atom that is not refused, there is a size to tell the levels.      *)
LEMMA TurnTyped ==
  ASSUME NestTyped, at <= Len(atoms), qtsize >= 8
  PROVE  /\ Placed(atoms) /\ at \in DOMAIN atoms
         /\ qtsize \in Nat /\ behind \in Nat /\ Turn \in Nat /\ Turn >= 8
<1>1. Placed(atoms) /\ at \in DOMAIN atoms
  BY ReadPlaced DEF NestTyped, Placed
<1>2. atom.off \in Nat /\ atom.size \in Nat /\ atom.wide \in BOOLEAN
  BY <1>1 DEF Placed, atom
<1>3. qtsize \in Nat /\ behind \in Nat
  BY <1>2 DEF qtsize, behind, filepos
<1> QED
  BY <1>1, <1>3 DEF Turn

(* The books stay books, at every turn that tells them.                     *)
LEMMA TellTyped ==
  ASSUME NestTyped, at <= Len(atoms), qtsize >= 8, nest + 1 < MaxNest, NEW x \in Int
  PROVE  LET inside == [nestsize EXCEPT ![nest + 1] = qtsize]
         IN /\ StillOpen(inside, nest + 1, x) \in 0..(MaxNest - 1)
            /\ Accounted(inside, nest + 1, x) \in [1..MaxNest -> Nat]
<1> DEFINE inside == [nestsize EXCEPT ![nest + 1] = qtsize]
<1>1. qtsize \in Nat
  BY TurnTyped
<1>2. inside \in [1..MaxNest -> Nat] /\ nest + 1 \in 0..MaxNest
  BY <1>1, Limits DEF NestTyped
<1> HIDE DEF inside
<1>3. /\ StillOpen(inside, nest + 1, x) \in 0..(nest + 1)
      /\ Accounted(inside, nest + 1, x) \in [1..MaxNest -> Nat]
  BY <1>2, Limits, AccountedTyped
<1>4. StillOpen(inside, nest + 1, x) \in 0..(MaxNest - 1)
  BY <1>3, Limits DEF NestTyped
<1> QED
  BY <1>3, <1>4 DEF inside

LEMMA AtTyped ==
  ASSUME NestTyped, at <= Len(atoms), NEW place \in Int
  PROVE  AtomAt(place) \in 1..(Len(atoms) + 1)
<1>1. Placed(atoms) /\ at \in DOMAIN atoms /\ Len(atoms) \in Nat
  BY ReadPlaced DEF NestTyped, Placed
<1>2. AtomAt(place) \in (at + 1)..(Len(atoms) + 1)
  BY <1>1, AtomAtIs
<1> QED
  BY <1>1, <1>2 DEF NestTyped

LEMMA Fits ==
  ASSUME NestTyped, Entered
  PROVE  Reading /\ at <= Len(atoms) /\ qtsize >= 8 /\ nest + 1 < MaxNest
<1>1. at <= Len(atoms) /\ Reading /\ ~(qtsize < 8) /\ ~(nest + 1 >= MaxNest)
  BY DEF Entered, Ended, Foreign, Misnested
<1>2. at \in DOMAIN atoms /\ Placed(atoms)
  BY <1>1, ReadPlaced DEF NestTyped, Placed
<1>3. qtsize \in Int
  <2>1. atom.size \in Nat
    BY <1>2 DEF Placed, atom
  <2> QED
    BY <2>1 DEF qtsize
<1> QED
  BY <1>1, <1>3, Limits DEF NestTyped

LEMMA NestStep ==
  ASSUME NestInv, Next, UNCHANGED <<ahead, lastsize>>
  PROVE  NestInv'
<1>1. NestTyped
  BY DEF NestInv
<1>2. CASE UNCHANGED <<file, at, nest, nestsize>> /\ status' \in {"open", "closed"}
  BY <1>1, <1>2 DEF NestInv, NestTyped, atoms
<1>3. CASE Entered /\ Past(Turn)
  <2> DEFINE inside == [nestsize EXCEPT ![nest + 1] = qtsize]
  <2>1. Reading /\ at <= Len(atoms) /\ qtsize >= 8 /\ nest + 1 < MaxNest
    BY <1>1, <1>3, Fits
  <2>2. /\ at' = AtomAt(behind + Turn - 8) /\ nestsize' = Accounted(inside, nest + 1, Turn)
        /\ nest' = StillOpen(inside, nest + 1, Turn) /\ file' = file /\ status' = status
    BY <1>3 DEF Past
  <2>3. atoms' = atoms /\ whole' = whole
    BY <2>2 DEF atoms, whole
  <2>4. /\ Placed(atoms) /\ at \in DOMAIN atoms
        /\ qtsize \in Nat /\ behind \in Nat /\ Turn \in Nat /\ Turn >= 8
    BY <1>1, <2>1, TurnTyped
  <2>5. nest' \in 0..(MaxNest - 1) /\ nestsize' \in [1..MaxNest -> Nat]
    <3>1. Turn \in Int
      BY <2>4
    <3>2. /\ StillOpen(inside, nest + 1, Turn) \in 0..(MaxNest - 1)
          /\ Accounted(inside, nest + 1, Turn) \in [1..MaxNest -> Nat]
      BY <1>1, <2>1, <3>1, TellTyped
    <3> HIDE DEF inside
    <3> QED
      BY <2>2, <3>2
  <2>6. at' \in 1..(Len(atoms) + 1)
    BY <1>1, <2>1, <2>2, <2>4, AtTyped
  <2>7. NestTyped'
    BY <1>1, <2>2, <2>3, <2>5, <2>6 DEF NestTyped
  <2>8. ASSUME whole, at' <= Len(atoms) PROVE Stacked(atoms, at', nest', nestsize')
    <3>1. Stacked(atoms, at, nest, nestsize)
      BY <2>1, <2>8 DEF NestInv, Reading
    <3>2. Turning(Turn)
      <4>1. Nested(atoms)
        BY <1>1, <2>8, ReadPlaced DEF NestTyped
      <4>2. MaxNest \in Nat /\ nest \in Nat /\ nest + 1 <= MaxNest /\ nestsize \in [1..MaxNest -> Nat]
        BY <1>1, <2>1, Limits DEF NestTyped
      <4>3. AtomAt(behind + Turn - 8) <= Len(atoms)
        BY <2>2, <2>8
      <4> QED
        BY <2>1, <2>4, <3>1, <4>1, <4>2, <4>3 DEF Turning, Turn
    <3> QED
      BY <2>2, <3>2, NextStacked
  <2> QED
    BY <2>2, <2>3, <2>7, <2>8 DEF NestInv
<1> QED
  BY <1>2, <1>3, Turns

(* The search for user data keeps its place in the file and its levels.     *)
LEMMA Searches ==
  ASSUME NestTyped, Searching, OpenNext
  PROVE  NestTyped' /\ status' # "reading"
<1>1. ~Next
  BY Fits DEF Next, Searching, Entered, EndPass, RejectFile, SkipAtom, EnterContainer, ReadMvhd,
     ReadMdhd, ReadHdlr, ReadStsd, ReadEdts, ReadStsc, ReadStsz, ReadStco, ReadCo64, ReadStts,
     SkipTable, Is, Reading
<1>2. ASSUME UNCHANGED <<file, at, nest, nestsize, ahead, lastsize>>, status' # "reading"
      PROVE  NestTyped' /\ status' # "reading"
  BY <1>2 DEF NestTyped, atoms
<1>3. ASSUME NEW place \in Int, NEW offset \in Int, NEW by, NEW stop, at <= Len(atoms),
             Seek(place, by, offset, stop), file' = file,
             nest' \in 0..(MaxNest - 1), nestsize' \in [1..MaxNest -> Nat],
             by \in Nat, lastsize' \in Nat
      PROVE  NestTyped' /\ status' # "reading"
  <2>1. at' \in 1..(Len(atoms) + 1) /\ status' # "reading" /\ ahead' \in Nat
    <3>1. place + offset \in Int
      BY <1>3
    <3>2. AtomAt(place + offset) \in 1..(Len(atoms) + 1)
      BY <1>3, <3>1, AtTyped
    <3> QED
      BY <1>3, <3>2 DEF Seek, Searching, NestTyped
  <2> QED
    BY <1>3, <2>1 DEF NestTyped, atoms
<1>4. CASE EndSearch
  BY <1>2, <1>4 DEF EndSearch
<1>5. CASE TakeGlobal
  BY <1>2, <1>5 DEF TakeGlobal
<1>6. CASE LeaveForeign
  <2>1. at <= Len(atoms)
    BY <1>6 DEF LeaveForeign, Spent
  <2>2. filepos \in Int /\ lastsize - 16 \in Int /\ lastsize - 8 \in Int /\ ahead + 8 \in Nat
    <3>1. Placed(atoms) /\ at \in DOMAIN atoms
      BY <2>1, ReadPlaced DEF NestTyped, Placed
    <3>2. atom.off \in Nat
      BY <3>1 DEF Placed, atom
    <3> QED
      BY <3>2 DEF filepos, NestTyped
  <2>3. nest' \in 0..(MaxNest - 1) /\ nestsize' \in [1..MaxNest -> Nat]
    <3>1. nest \in 0..MaxNest
      BY Limits DEF NestTyped
    <3>2. /\ StillOpen(nestsize, nest, lastsize - 8) \in 0..nest
          /\ Accounted(nestsize, nest, lastsize - 8) \in [1..MaxNest -> Nat]
      BY <2>2, <3>1, Limits, AccountedTyped DEF NestTyped
    <3> QED
      BY <1>6, <3>2, Limits DEF LeaveForeign, NestTyped
  <2>4. /\ Seek(filepos, ahead + 8, lastsize - 16, maxfilesize)
        /\ file' = file /\ lastsize' = lastsize
    BY <1>6 DEF LeaveForeign
  <2> QED
    BY <1>3, <2>1, <2>2, <2>3, <2>4 DEF NestTyped
<1>7. ASSUME NEW tags \in SUBSET FourCC, NEW x \in Int, Met(tags), PassAtom(x)
      PROVE  NestTyped' /\ status' # "reading"
  <2>1. at <= Len(atoms) /\ ~(qtsize < 8) /\ ~(nest + 1 >= MaxNest)
    BY <1>7 DEF Met, Spent, Unfit, Misnested
  <2>2. Placed(atoms) /\ at \in DOMAIN atoms
    BY <2>1, ReadPlaced DEF NestTyped, Placed
  <2>3. atom.off \in Nat /\ atom.size \in Nat /\ atom.wide \in BOOLEAN
    BY <2>2 DEF Placed, atom
  <2>4. qtsize \in Int
    BY <2>3 DEF qtsize
  <2>5. qtsize >= 8 /\ nest + 1 < MaxNest
    BY <2>1, <2>4, Limits DEF NestTyped
  <2>6. behind \in Int /\ qtsize \in Nat
    BY <2>1, <2>5, TurnTyped
  <2>7. Counted \in Nat
    BY <2>3 DEF Counted, NestTyped
  <2>8. nest' \in 0..(MaxNest - 1) /\ nestsize' \in [1..MaxNest -> Nat]
    <3> DEFINE inside == [nestsize EXCEPT ![nest + 1] = qtsize]
    <3>1. /\ StillOpen(inside, nest + 1, x) \in 0..(MaxNest - 1)
          /\ Accounted(inside, nest + 1, x) \in [1..MaxNest -> Nat]
      BY <2>1, <2>5, TellTyped
    <3>2. nestsize' = Accounted(inside, nest + 1, x) /\ nest' = StillOpen(inside, nest + 1, x)
      BY <1>7 DEF PassAtom
    <3> HIDE DEF inside
    <3> QED
      BY <3>1, <3>2
  <2>9. \E stop : Seek(behind, Counted, x - 8, stop)
    BY <1>7, Zenon DEF PassAtom
  <2>10. file' = file /\ lastsize' = qtsize
    BY <1>7 DEF PassAtom
  <2>11. x - 8 \in Int /\ lastsize' \in Nat
    BY <2>6, <2>10
  <2> QED
    BY <1>3, <2>1, <2>6, <2>7, <2>8, <2>9, <2>10, <2>11
<1>8. CASE EnterGlobal
  <2>1. GlobalContainers \in SUBSET FourCC
    BY DEF GlobalContainers, FourCC, Tags, Containers
  <2> QED
    BY <1>7, <1>8, <2>1 DEF EnterGlobal
<1>9. CASE SkipGlobal
  <2>1. at <= Len(atoms)
    BY <1>9 DEF SkipGlobal, Met, Spent
  <2>2. Placed(atoms) /\ at \in DOMAIN atoms
    BY <2>1, ReadPlaced DEF NestTyped, Placed
  <2>3. qtsize \in Int
    BY <2>2 DEF Placed, atom, qtsize
  <2> QED
    BY <1>7, <1>9, <2>3 DEF SkipGlobal
<1> QED
  BY <1>1, <1>4, <1>5, <1>6, <1>8, <1>9 DEF OpenNext

LEMMA NestInit ==
  ASSUME OpenInit
  PROVE  NestInv
<1>1. file \in Read /\ at = 1 /\ nest = 0 /\ nestsize = [i \in 1..MaxNest |-> 0]
  BY DEF OpenInit, Begin, Read
<1>2. NestTyped
  <2>1. Len(atoms) \in Nat
    BY <1>1, ReadPlaced DEF Placed
  <2> QED
    BY <1>1, <2>1, Limits DEF NestTyped, OpenInit
<1>3. Stacked(atoms, at, nest, nestsize)
  <2> DEFINE b == [i \in 1..0 |-> 1]
  <2>1. b \in [1..0 -> 1..0] /\ Boxes(atoms, 1) = {b[i] : i \in 1..0}
    BY DEF Boxes
  <2>2. 1..0 = {}
    OBVIOUS
  <2> HIDE DEF b
  <2> QED
    BY <1>1, <2>1, <2>2 DEF Stacked
<1> QED
  BY <1>2, <1>3 DEF NestInv

(* In every state on the way of either function, the levels are typed and   *)
(* on a whole file right.                                                   *)
LEMMA NestAlways == OpenSpec => []NestInv
<1>1. ASSUME NestInv, [OpenNext]_openVars PROVE NestInv'
  <2>1. CASE UNCHANGED openVars
    BY <1>1, <2>1 DEF openVars, vars, NestInv, NestTyped, atoms, whole
  <2>2. CASE Next /\ UNCHANGED <<ahead, lastsize>>
    BY <1>1, <2>2, NestStep
  <2>3. CASE OpenNext /\ Searching
    BY <1>1, <2>3, Searches DEF NestInv
  <2>4. OpenNext => (Next /\ UNCHANGED <<ahead, lastsize>>) \/ Searching
    BY DEF OpenNext, EndSearch, LeaveForeign, TakeGlobal, EnterGlobal, SkipGlobal, Met
  <2> QED
    BY <1>1, <2>1, <2>2, <2>3, <2>4
<1> QED
  BY <1>1, NestInit, PTL DEF OpenSpec

(* The first pass knows at every atom of a whole file which containers it   *)
(* is in and how much of each is still to come: the books that nest and     *)
(* nestsize keep, told by every atom, are those of the file.                *)
THEOREM NestsKept == OpenSpec => []NestKept
<1>1. ASSUME NestInv PROVE NestKept
  <2> SUFFICES ASSUME status = "reading", whole, at <= Len(atoms)
               PROVE  SubSeq(nestsize, 1, nest) = Around
    BY DEF NestKept
  <2>1. Stacked(atoms, at, nest, nestsize)
    BY <1>1 DEF NestInv
  <2>2. Placed(atoms) /\ at \in DOMAIN atoms
    BY <1>1, ReadPlaced DEF NestInv, NestTyped, Placed
  <2>3. MaxNest \in Nat /\ nest \in Nat /\ nest <= MaxNest /\ nestsize \in [1..MaxNest -> Nat]
    BY <1>1, Limits DEF NestInv, NestTyped
  <2> QED
    BY <2>1, <2>2, <2>3, BooksAround
<1> QED
  BY <1>1, NestAlways, PTL

-----------------------------------------------------------------------------
(***************************************************************************)
(* The types of the rest.                                                  *)
(***************************************************************************)
(* The offsets of the samples, one by one, are offsets or none: the table   *)
(* that is filled from its first entry on exists, and has such entries.     *)
LEMMA ChunkedTyped ==
  ASSUME NEW chunks \in Seq(Nat), NEW sizes \in Seq(Nat), NEW samples
  PROVE  Chunked(chunks, sizes, samples) \in Seq(Nat \union {NoOffset})
<1> DEFINE V == Nat \union {NoOffset}
           pos(k) == 1 + Cardinality({j \in 1..k : NewChunk(j, samples)})
           body(g, k) ==
             IF k = 0 \/ NewChunk(k, samples)
             THEN IF pos(k) <= Len(chunks) THEN chunks[pos(k)] ELSE NoOffset
             ELSE IF g[k - 1] = NoOffset THEN NoOffset ELSE g[k - 1] + sizes[k]
           last == Len(sizes) - 1
           f == CHOOSE g : g = [k \in 0..last |-> body(g, k)]
           Filled(m) == \E g \in [0..m -> V] : \A k \in 0..m : g[k] = body(g, k)
<1>1. Chunked(chunks, sizes, samples) = [k \in 1..Len(sizes) |-> f[k - 1]]
  BY Zenon DEF Chunked
<1>2. last \in Int /\ last >= -1
  OBVIOUS
<1>3. ASSUME NEW k \in Nat PROVE pos(k) \in Nat /\ pos(k) >= 1
  <2> DEFINE S == {j \in 1..k : NewChunk(j, samples)}
  <2>1. IsFiniteSet(1..k)
    BY FS_Interval
  <2>2. S \subseteq 1..k
    OBVIOUS
  <2> HIDE DEF S
  <2>3. Cardinality(S) \in Nat
    BY <2>1, <2>2, FS_Subset, FS_CardinalityType
  <2> QED
    BY <2>3 DEF S
<1>4. ASSUME NEW k \in 0..last, NEW g, k > 0 => g[k - 1] \in V
      PROVE  body(g, k) \in V
  <2> HIDE DEF pos
  <2>1. CASE k = 0 \/ NewChunk(k, samples)
    <3>1. pos(k) \in Nat /\ pos(k) >= 1
      <4>1. k \in Nat
        BY <1>2
      <4> QED
        BY <1>3, <4>1
    <3>2. pos(k) <= Len(chunks) => chunks[pos(k)] \in Nat
      BY <3>1
    <3> QED
      BY <2>1, <3>2
  <2>2. CASE ~(k = 0 \/ NewChunk(k, samples))
    <3>1. k \in 1..Len(sizes) /\ sizes[k] \in Nat /\ g[k - 1] \in V
      BY <1>4, <2>2
    <3> QED
      BY <2>2, <3>1
  <2> QED
    BY <2>1, <2>2
<1>5. ASSUME NEW g, NEW h, NEW k \in Nat, g[k - 1] = h[k - 1] PROVE body(g, k) = body(h, k)
  BY <1>5
<1> HIDE DEF body, V, last
<1>6. ASSUME NEW m \in 0..last, m > 0 => Filled(m - 1) PROVE Filled(m)
  <2>1. CASE m = 0
    <3> DEFINE g == [k \in 0..0 |-> body(<< >>, 0)]
    <3>1. body(<< >>, 0) \in V
      BY <1>4, <2>1
    <3>2. g \in [0..0 -> V]
      BY <3>1
    <3>3. \A k \in 0..0 : g[k] = body(g, k)
      <4>1. body(g, 0) = body(<< >>, 0)
        BY DEF body
      <4> QED
        BY <4>1
    <3> HIDE DEF g
    <3> QED
      BY <2>1, <3>2, <3>3
  <2>2. CASE m > 0
    <3>1. PICK g \in [0..(m - 1) -> V] : \A k \in 0..(m - 1) : g[k] = body(g, k)
      BY <1>6, <2>2
    <3> DEFINE h == [k \in 0..m |-> IF k = m THEN body(g, m) ELSE g[k]]
    <3>2. body(g, m) \in V
      <4>1. g[m - 1] \in V
        BY <1>2, <2>2
      <4> QED
        BY <1>4, <4>1
    <3>3. h \in [0..m -> V]
      BY <1>2, <3>2
    <3>4. ASSUME NEW k \in 0..m PROVE h[k] = body(h, k)
      <4>1. k > 0 => g[k - 1] = h[k - 1]
        BY <1>2
      <4>2. k > 0 => body(g, k) = body(h, k)
        <5>1. k \in Nat
          BY <1>2
        <5> HIDE DEF h
        <5> QED
          BY <1>5, <4>1, <5>1
      <4>3. k = 0 => body(g, k) = body(h, k)
        BY DEF body
      <4>4. body(g, k) = body(h, k)
        BY <1>2, <4>2, <4>3
      <4>5. h[k] = body(g, k)
        BY <1>2, <3>1
      <4> QED
        BY <4>4, <4>5
    <3> HIDE DEF h
    <3> QED
      BY <3>3, <3>4
  <2> QED
    BY <1>2, <2>1, <2>2
<1>7. ASSUME last >= 0 PROVE Filled(last)
  <2> DEFINE Bad == {m \in 0..last : ~Filled(m)}
  <2>1. ASSUME Bad # {} PROVE FALSE
    <3>1. Bad \in SUBSET Nat
      BY <1>2
    <3>2. PICK m \in Bad : \A y \in Bad : m <= y
      <4> HIDE DEF Bad
      <4> QED
        BY <2>1, <3>1, LeastOf
    <3>3. m \in 0..last /\ ~Filled(m)
      OBVIOUS
    <3>4. m > 0 => m - 1 \in 0..last /\ ~(m <= m - 1)
      BY <1>2, <3>3
    <3>5. m > 0 => Filled(m - 1)
      BY <3>2, <3>4
    <3> HIDE DEF Filled
    <3> QED
      BY <1>6, <3>3, <3>5
  <2>2. last \in 0..last
    BY <1>2, <1>7
  <2> HIDE DEF Filled
  <2> QED
    BY <2>1, <2>2
<1>8. \E g : g = [k \in 0..last |-> body(g, k)]
  <2>1. CASE last >= 0
    <3>1. PICK g \in [0..last -> V] : \A k \in 0..last : g[k] = body(g, k)
      BY <1>7, <2>1
    <3>2. g = [k \in 0..last |-> body(g, k)]
      BY <3>1
    <3> QED
      BY <3>2
  <2>2. CASE last < 0
    <3> DEFINE g == [k \in 0..last |-> 0]
    <3>1. 0..last = {}
      BY <1>2, <2>2
    <3>2. g = [k \in 0..last |-> body(g, k)]
      BY <3>1
    <3> QED
      BY <3>2
  <2> QED
    BY <1>2, <2>1, <2>2
<1>9. f = [k \in 0..last |-> body(f, k)]
  BY <1>8
<1> HIDE DEF f
<1>10. ASSUME NEW k \in 0..last PROVE f[k] \in V
  <2> DEFINE Bad == {m \in 0..last : f[m] \notin V}
  <2>1. ASSUME Bad # {} PROVE FALSE
    <3>1. Bad \in SUBSET Nat
      BY <1>2
    <3>2. PICK m \in Bad : \A y \in Bad : m <= y
      <4> HIDE DEF Bad
      <4> QED
        BY <2>1, <3>1, LeastOf
    <3>3. m \in 0..last /\ f[m] \notin V
      OBVIOUS
    <3>4. m > 0 => m - 1 \in 0..last /\ ~(m <= m - 1)
      BY <1>2, <3>3
    <3>5. m > 0 => f[m - 1] \in V
      BY <3>2, <3>4
    <3>6. body(f, m) \in V
      BY <1>4, <3>3, <3>5
    <3>7. f[m] = body(f, m)
      BY <1>9, <3>3
    <3> QED
      BY <3>3, <3>6, <3>7
  <2> QED
    BY <2>1
<1>11. ASSUME NEW k \in 1..Len(sizes) PROVE f[k - 1] \in V
  <2>1. k - 1 \in 0..last
    BY DEF last
  <2> QED
    BY <1>10, <2>1
<1>12. [k \in 1..Len(sizes) |-> f[k - 1]] \in Seq(V)
  <2>1. Len(sizes) \in Nat
    OBVIOUS
  <2> QED
    BY <1>11, <2>1
<1> QED
  BY <1>1, <1>12 DEF V

Offsets == Nat \union {NoOffset}

IndexTyped(m) ==
  /\ {"trak_num", "metasizes", "metaoffsets"} \subseteq DOMAIN m
  /\ m.trak_num \in 0..(MaxTracks - 1)
  /\ m.metasizes \in Seq(Nat) /\ m.metaoffsets \in Seq(Offsets)

FieldsTyped ==
  /\ required_tags \in Nat /\ maxfilesize \in Nat
  /\ type \in {"none", "meta", "vide", "soun"}
  /\ status \in {"reading", "open", "closed"} \union {"searching", "global", "empty", "astray"}
  /\ IndexTyped(mp4)

LEMMA UnreadTyped == IndexTyped(Unread)
BY Limits DEF IndexTyped, Unread

LEMMA AtomTyped ==
  ASSUME NestTyped, at <= Len(atoms)
  PROVE  /\ atom.off \in Nat /\ atom.size \in Nat /\ atom.num \in Nat /\ atom.wide \in BOOLEAN
         /\ BodyShape(atom)
<1>1. FileShape(file) /\ at \in DOMAIN file.atoms
  BY ReadPlaced DEF NestTyped, Placed, atoms
<1> QED
  BY <1>1 DEF FileShape, atom, atoms

(* A turn that learns an index of the right type keeps the rest typed.      *)
LEMMA LearnTyped ==
  ASSUME FieldsTyped, NEW m, IndexTyped(m), Learn(m), type' \in {"none", "meta", "vide", "soun"}
  PROVE  FieldsTyped'
BY DEF FieldsTyped, IndexTyped, Learn, Past

LEMMA TrustTyped ==
  ASSUME FieldsTyped, NEW m, IndexTyped(m), Trusting(m)
  PROVE  FieldsTyped'
BY LearnTyped DEF FieldsTyped, Trusting

LEMMA CloseTyped ==
  ASSUME FieldsTyped, Close
  PROVE  FieldsTyped'
BY UnreadTyped DEF FieldsTyped, IndexTyped, Close

LEMMA FieldsStep ==
  ASSUME NestTyped, FieldsTyped, Next
  PROVE  FieldsTyped'
<1>1. IndexTyped(mp4) /\ type \in {"none", "meta", "vide", "soun"}
  BY DEF FieldsTyped
<1>2. ASSUME Entered
      PROVE  /\ at <= Len(atoms) /\ qtsize \in Nat /\ behind \in Nat
             /\ atom.num \in Nat /\ BodyShape(atom)
  BY <1>2, Fits, AtomTyped, TurnTyped
<1>3. ASSUME Finish PROVE FieldsTyped'
  <2>1. CASE ~Indexed
    BY <1>3, <2>1, CloseTyped DEF Finish
  <2>2. CASE Indexed
    <3>1. mp4' = [mp4 EXCEPT !.indexcount = Len(mp4.metasizes)] /\ status' = "open"
          /\ UNCHANGED <<required_tags, maxfilesize, type>>
      BY <1>3, <2>2 DEF Finish
    <3>2. IndexTyped(mp4')
      BY <1>1, <3>1 DEF IndexTyped
    <3> QED
      BY <3>1, <3>2 DEF FieldsTyped, IndexTyped
  <2> QED
    BY <2>1, <2>2
<1>4. ASSUME Entered, Past(Turn), Required, IndexTyped(mp4'), type' = type PROVE FieldsTyped'
  <2>1. required_tags' \in Nat /\ maxfilesize' \in Nat
    BY <1>2, <1>4 DEF Required, FieldsTyped
  <2> QED
    BY <1>4, <2>1 DEF Past, FieldsTyped, IndexTyped
<1>5. ASSUME Entered, Past(Turn), UNCHANGED <<required_tags, maxfilesize>>, IndexTyped(mp4'), type' = type
      PROVE  FieldsTyped'
  BY <1>5 DEF Past, FieldsTyped, IndexTyped
<1>6. CASE EndPass
  BY <1>3, <1>6 DEF EndPass
<1>8. CASE RejectFile
  BY <1>8, CloseTyped DEF RejectFile
<1>9. CASE SkipAtom
  BY <1>1, <1>4, <1>5, <1>9 DEF SkipAtom, Turn
<1>10. CASE EnterContainer
  <2>1. IndexTyped(mp4')
    BY <1>1, <1>10, Limits DEF EnterContainer, IndexTyped, NextTrack
  <2> QED
    BY <1>4, <1>5, <1>10, <2>1 DEF EnterContainer, Turn
<1>11. CASE ReadMvhd
  <2>1. IndexTyped([mp4 EXCEPT !.clockdemon = atom.body.demon])
    BY <1>1 DEF IndexTyped
  <2> QED
    BY <1>1, <1>11, <2>1, LearnTyped DEF ReadMvhd
<1>12. CASE ReadMdhd
  <2>1. IndexTyped([mp4 EXCEPT !.trak_clockdemon = atom.body.demon, !.trak_clockcount = atom.body.count])
    BY <1>1 DEF IndexTyped
  <2> QED
    BY <1>1, <1>12, <2>1, LearnTyped, CloseTyped DEF ReadMdhd
<1>13. CASE ReadHdlr
  <2>1. atom.body \in {"meta", "vide", "soun", "alis", "url"}
    BY <1>2, <1>13 DEF ReadHdlr, Is, BodyShape
  <2> QED
    BY <1>1, <1>13, <2>1, LearnTyped DEF ReadHdlr
<1>14. CASE ReadStsd
  BY <1>1, <1>14, LearnTyped DEF ReadStsd
<1>15. CASE ReadEdts
  <2>1. ASSUME NEW t, NEW sum, NEW offset
        PROVE  IndexTyped([mp4 EXCEPT !.trak_edit_list_offsets[t] = sum, !.metadataoffset_clockcount = offset])
    BY <1>1 DEF IndexTyped
  <2> QED
    BY <1>1, <1>15, <2>1, LearnTyped DEF ReadEdts
<1>16. ASSUME NEW tag, SkipTable(tag) PROVE FieldsTyped'
  BY <1>1, <1>16, LearnTyped DEF SkipTable
<1>17. CASE ReadStsc
  <2>1. IndexTyped([mp4 EXCEPT !.metastsc = atom.body])
    BY <1>1 DEF IndexTyped
  <2> QED
    BY <1>1, <1>16, <1>17, <2>1, TrustTyped, CloseTyped DEF ReadStsc
<1>18. CASE ReadStsz
  <2>1. CASE SkipTable("stsz")
    BY <1>16, <2>1
  <2>2. CASE Is("stsz")
    <3>1. atom.body.equal \in Nat /\ atom.body.sizes \in Seq(Nat) /\ atom.num \in Nat
      BY <1>2, <2>2 DEF Is, BodyShape
    <3>2. [k \in 1..atom.num |-> atom.body.equal] \in Seq(Nat)
      BY <3>1
    <3>3. \A sizes \in Seq(Nat) : IndexTyped([mp4 EXCEPT !.metasizes = sizes])
      BY <1>1 DEF IndexTyped
    <3> QED
      BY <1>1, <1>16, <1>18, <3>1, <3>2, <3>3, TrustTyped, CloseTyped DEF ReadStsz
  <2> QED
    BY <1>18, <2>1, <2>2 DEF ReadStsz
<1>19. ASSUME Entered, atom.tag \in {"stco", "co64"}
       PROVE  /\ IndexTyped(Joined) /\ IndexTyped([mp4 EXCEPT !.metaoffsets = atom.body])
              /\ IndexTyped([mp4 EXCEPT !.metaoffsets = << >>])
  <2>1. atom.body \in Seq(Nat)
    BY <1>2, <1>19 DEF BodyShape
  <2>2. Chunked(atom.body, mp4.metasizes, mp4.metastsc[1].samples) \in Seq(Offsets)
    BY <1>1, <2>1, ChunkedTyped DEF IndexTyped, Offsets
  <2>3. atom.body \in Seq(Offsets) /\ << >> \in Seq(Offsets)
    BY <2>1 DEF Offsets
  <2>4. \A offsets \in Seq(Offsets) : IndexTyped([mp4 EXCEPT !.metaoffsets = offsets])
    BY <1>1 DEF IndexTyped
  <2>5. \A offsets \in Seq(Offsets) : IndexTyped([mp4 EXCEPT !.metaoffsets = offsets, !.metastsc = << >>])
    BY <1>1 DEF IndexTyped
  <2> QED
    BY <2>2, <2>3, <2>4, <2>5 DEF Joined
<1>20. CASE ReadStco
  BY <1>1, <1>16, <1>19, <1>20, TrustTyped, CloseTyped DEF ReadStco, Is
<1>21. CASE ReadCo64
  BY <1>1, <1>16, <1>19, <1>21, TrustTyped, CloseTyped DEF ReadCo64, Is
<1>22. CASE ReadStts
  <2>1. ASSUME NEW video PROVE IndexTyped([mp4 EXCEPT !.video = video])
    BY <1>1 DEF IndexTyped
  <2>2. ASSUME NEW demon, NEW length, NEW base
        PROVE  IndexTyped([mp4 EXCEPT !.meta_clockdemon = demon, !.metadatalength = length,
                                      !.basemetadataduration = base])
    BY <1>1 DEF IndexTyped
  <2>3. ASSUME VideoTimes PROVE FieldsTyped'
    BY <1>1, <2>1, <2>3, TrustTyped DEF VideoTimes
  <2>4. ASSUME MetaTimes PROVE FieldsTyped'
    BY <1>1, <2>2, <2>4, TrustTyped, CloseTyped DEF MetaTimes
  <2> QED
    BY <1>1, <1>22, <2>3, <2>4, TrustTyped DEF ReadStts
<1> QED
  BY <1>6, <1>8, <1>9, <1>10, <1>11, <1>12, <1>13, <1>14, <1>15, <1>17, <1>18, <1>20, <1>21, <1>22
     DEF Next

LEMMA FieldsSearch ==
  ASSUME NestTyped, FieldsTyped, OpenNext, ~Next
  PROVE  FieldsTyped'
<1>1. ASSUME NEW place, NEW by, NEW offset, NEW stop, Seek(place, by, offset, stop)
      PROVE  status' \in {status, "empty", "astray"}
  BY <1>1 DEF Seek
<1>2. CASE EndSearch
  BY <1>2 DEF EndSearch, FieldsTyped, IndexTyped
<1>3. CASE LeaveForeign
  <2>1. status' \in {status, "empty", "astray"}
    BY <1>1, <1>3 DEF LeaveForeign
  <2> QED
    BY <1>3, <2>1 DEF LeaveForeign, FieldsTyped, IndexTyped
<1>4. ASSUME NEW tags \in SUBSET FourCC, Met(tags)
      PROVE  at <= Len(atoms) /\ qtsize \in Nat /\ qtsize >= 8 /\ behind \in Nat /\ Counted \in Nat
  <2>1. at <= Len(atoms) /\ ~(qtsize < 8)
    BY <1>4 DEF Met, Spent, Unfit
  <2>2. atom.size \in Nat /\ atom.wide \in BOOLEAN
    BY <2>1, AtomTyped
  <2>3. qtsize >= 8
    BY <2>1, <2>2 DEF qtsize
  <2> QED
    BY <2>1, <2>2, <2>3, TurnTyped DEF Counted, NestTyped
<1>5. CASE TakeGlobal
  <2>1. Met({"GPMF"}) /\ {"GPMF"} \in SUBSET FourCC
    BY <1>5 DEF TakeGlobal, FourCC
  <2>2. <<qtsize - 8>> \in Seq(Nat) /\ <<behind>> \in Seq(Offsets)
    BY <1>4, <2>1 DEF Offsets
  <2>3. /\ mp4' = [mp4 EXCEPT !.metasizes = <<qtsize - 8>>, !.metaoffsets = <<behind>>,
                              !.indexcount = 1, !.metadatalength = 1,
                              !.basemetadataduration = <<1, 1>>, !.meta_clockdemon = 1]
        /\ status' = "global" /\ UNCHANGED <<required_tags, maxfilesize, type>>
    BY <1>5 DEF TakeGlobal
  <2>4. IndexTyped(mp4')
    BY <2>2, <2>3 DEF FieldsTyped, IndexTyped
  <2> QED
    BY <2>3, <2>4 DEF FieldsTyped, IndexTyped
<1>6. ASSUME NEW tags \in SUBSET FourCC, NEW x, Met(tags), PassAtom(x) PROVE FieldsTyped'
  <2>1. status' \in {status, "empty", "astray"} /\ type' = type /\ mp4' = mp4
    BY <1>1, <1>6 DEF PassAtom
  <2>2. required_tags' \in Nat /\ maxfilesize' \in Nat
    BY <1>4, <1>6 DEF PassAtom, FieldsTyped
  <2> QED
    BY <2>1, <2>2 DEF FieldsTyped, IndexTyped
<1>7. CASE EnterGlobal
  <2>1. GlobalContainers \in SUBSET FourCC
    BY DEF GlobalContainers, FourCC, Tags, Containers
  <2> QED
    BY <1>6, <1>7, <2>1 DEF EnterGlobal
<1>8. CASE SkipGlobal
  BY <1>6, <1>8 DEF SkipGlobal
<1> QED
  BY <1>2, <1>3, <1>5, <1>7, <1>8 DEF OpenNext

(* Whichever function opens the file, and whatever the file holds, the      *)
(* levels stay within the 20 of the array, the tracks within the 4 of       *)
(* theirs, and every size and offset of the index is a number or known to   *)
(* be missing.                                                              *)
THEOREM OpenTyped == OpenSpec => []OpenTypeOK
<1>1. OpenInit => FieldsTyped
  BY UnreadTyped DEF OpenInit, Begin, FieldsTyped
<1>2. ASSUME NestInv, FieldsTyped, [OpenNext]_openVars PROVE FieldsTyped'
  <2>1. CASE UNCHANGED openVars
    BY <1>2, <2>1 DEF openVars, vars, FieldsTyped, IndexTyped
  <2>2. CASE Next
    BY <1>2, <2>2, FieldsStep DEF NestInv
  <2>3. CASE OpenNext /\ ~Next
    BY <1>2, <2>3, FieldsSearch DEF NestInv
  <2>4. OpenNext \/ UNCHANGED openVars
    BY <1>2
  <2> QED
    BY <2>1, <2>2, <2>3, <2>4
<1>3. ASSUME NestInv, FieldsTyped PROVE OpenTypeOK
  BY <1>3 DEF NestInv, NestTyped, FieldsTyped, IndexTyped, Offsets, OpenTypeOK, TypeOK
<1> QED
  BY <1>1, <1>2, <1>3, NestAlways, PTL DEF OpenSpec
=============================================================================
