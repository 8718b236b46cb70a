-------------------------- MODULE GpmfModifyProofs --------------------------
(***************************************************************************)
(* Whatever is written over whatever entry, the payload stays a sound one  *)
(* of the outline it had, every stream that stood on it stands where it    *)
(* did by its books, and what was written reads back as it was given.      *)
(***************************************************************************)
EXTENDS GpmfModify, GpmfKlvProofs

-----------------------------------------------------------------------------
(* The words that GPMF_Modify stores.                                       *)

LEMMA EndianSizes ==
  ASSUME NEW type
  PROVE  EndianSize(type) \in {0, 1, 2, 4, 8}
<1>1. ASSUME NEW e, e = EndianSize(type) PROVE e \in {0, 1, 2, 4, 8}
  BY <1>1 DEF EndianSize
<1> QED
  BY <1>1

(* More words than any entry has, fewer than the digits of a word tell.     *)
MostLongs == 4194304

LEMMA LongsBound ==
  ASSUME NEW w \in Word
  PROVE  DataLongs(w) \in Nat /\ DataLongs(w) < MostLongs
<1>1. w.ssize \in 0..255 /\ w.rpt \in Nat /\ w.rpt <= MaxRepeat
  BY DEF Word
<1>2. ASSUME NEW a \in 0..255, NEW b \in Nat PROVE a * b \in Nat /\ a * b <= 255 * b
  <2>1. (255 - a) * b \in Nat /\ a * b \in Nat
    OBVIOUS
  <2>2. 255 * b = a * b + (255 - a) * b
    OBVIOUS
  <2> QED
    BY <2>1, <2>2
<1>3. ASSUME NEW n \in Nat, NEW b \in Nat, b <= MaxRepeat, n <= 255 * b
      PROVE  (n + 3) \div 4 \in Nat /\ (n + 3) \div 4 < MostLongs
  BY <1>3, SMT DEF MaxRepeat, MostLongs
<1>4. w.ssize * w.rpt \in Nat /\ w.ssize * w.rpt <= 255 * w.rpt
  BY <1>1, <1>2
<1> QED
  BY <1>1, <1>3, <1>4, Zenon DEF DataLongs

LEMMA StoredWord ==
  ASSUME NEW k \in Nat, k <= MostLongs, NEW bytes \in {1, 2, 4}
  PROVE  Stored(k, bytes) \in Word
<1>1. /\ k \div (MaxRepeat + 1) \in Nat /\ k \div (MaxRepeat + 1) <= 255
      /\ k % (MaxRepeat + 1) \in Nat /\ k % (MaxRepeat + 1) <= MaxRepeat
      /\ MaxRepeat \in Nat
  BY SMT DEF MaxRepeat, MostLongs
<1>2. k \div (MaxRepeat + 1) \in 0..255 /\ k % (MaxRepeat + 1) \in 0..MaxRepeat
  BY <1>1
<1>3. UnitType(bytes) \in DocumentedTypes
  BY DEF UnitType, DocumentedTypes
<1>4. JUNK \in FourCC \union {END, JUNK}
  OBVIOUS
<1> QED
  BY <1>2, <1>3, <1>4, Zenon DEF Stored, Word

LEMMA SwappedWord ==
  ASSUME NEW n \in Nat, n < MostLongs, NEW k \in 0..(n - 1), NEW type, EndianSize(type) # 0
  PROVE  Swapped(k, EndianSize(type)) \in Word
<1> DEFINE e == EndianSize(type)
           m == IF k % 2 = 0 THEN k + 1 ELSE k - 1
<1>1. e \in {1, 2, 4, 8}
  BY EndianSizes
<1> HIDE DEF e
<1>2. k \in Nat /\ k + 1 <= n /\ MostLongs \in Nat
  BY DEF MostLongs
<1>3. k <= MostLongs /\ m \in Nat /\ m <= MostLongs
  BY <1>2
<1> HIDE DEF m
<1>4. CASE e = 8
  BY <1>3, <1>4, StoredWord DEF Swapped, e, m
<1>5. CASE e # 8
  <2>1. e \in {1, 2, 4}
    BY <1>1, <1>5
  <2>2. Stored(k, e) \in Word
    BY <1>2, <1>3, <2>1, StoredWord
  <2> QED
    BY <1>5, <2>2 DEF Swapped, e
<1> QED
  BY <1>4, <1>5

(* The payload as it is after the change: only its words differ.            *)
LEMMA OverwrittenFrame ==
  ASSUME NEW p, Outlined(p), NEW i, NEW new
  PROVE  LET q == Overwritten(p, i, new)
         IN /\ DOMAIN q = DOMAIN p
            /\ q.longs = p.longs /\ q.items = p.items /\ q.up = p.up /\ q.lev = p.lev
<1>1. DOMAIN p = {"longs", "words", "items", "up", "lev"}
  BY DEF Outlined, PayloadShape
<1>2. ASSUME NEW ws PROVE LET q == [p EXCEPT !.words = ws]
                          IN /\ DOMAIN q = DOMAIN p
                             /\ q.longs = p.longs /\ q.items = p.items
                             /\ q.up = p.up /\ q.lev = p.lev
  BY <1>1
<1> QED
  BY <1>2 DEF Overwritten

(* Word by word.                                                            *)
LEMMA OverwrittenWords ==
  ASSUME NEW p, Outlined(p), NEW i \in p.items, NEW new \in Word,
         DataLongs(new) = SizeAt(p.words, i)
  PROVE  LET q == Overwritten(p, i, new)
             e == EndianSize(new.type)
         IN /\ q.words = [j \in 0..(p.longs - 1) |-> q.words[j]]
            /\ q.words[i] = [p.words[i] EXCEPT !.key = new.key]
            /\ q.words[i + 1] = [new EXCEPT !.key = p.words[i + 1].key]
            /\ \A j \in 0..(p.longs - 1) : j # i /\ j # i + 1 =>
                 q.words[j] = IF j \in Body(p, i) /\ e # 0 THEN Swapped(j - i - 2, e)
                              ELSE p.words[j]
<1> DEFINE e    == EndianSize(new.type)
           n    == DataLongs(new)
           old  == [k \in 0..(n - 1) |-> p.words[i + 2 + k]]
           data == ByteSwap2Buffer(old, new)
           q    == Overwritten(p, i, new)
           ws   == [j \in DOMAIN p.words |->
                      IF j = i THEN [p.words[j] EXCEPT !.key = new.key]
                      ELSE IF j = i + 1 THEN [new EXCEPT !.key = p.words[j].key]
                      ELSE IF j - i - 2 \in DOMAIN data THEN data[j - i - 2] ELSE p.words[j]]
<1>1. q = [p EXCEPT !.words = ws]
  BY DEF Overwritten
<1>2. /\ p.words \in [0..(p.longs - 1) -> Word] /\ p.longs \in Nat
      /\ i \in Nat /\ i + 1 < p.longs /\ n \in Nat
      /\ EndOf(p, i) = i + 2 + n /\ EndOf(p, i) <= p.longs
  BY ItemFacts, DataLongsNat
<1>3. q.words = ws
  <2> HIDE DEF ws, q
  <2> QED
    BY <1>1 DEF Outlined, PayloadShape
<1>4. DOMAIN data = 0..(n - 1)
  BY DEF ByteSwap2Buffer
<1>5. ASSUME NEW k \in 0..(n - 1)
      PROVE  data[k] = IF e = 0 THEN p.words[i + 2 + k] ELSE Swapped(k, e)
  <2> HIDE DEF e
  <2> QED
    BY DEF ByteSwap2Buffer, e
<1> HIDE DEF data, e, q
<1>6. ws = [j \in 0..(p.longs - 1) |-> ws[j]]
  BY <1>2
<1>7. ws[i] = [p.words[i] EXCEPT !.key = new.key]
  BY <1>2
<1>8. ws[i + 1] = [new EXCEPT !.key = p.words[i + 1].key]
  <2>1. i + 1 \in DOMAIN p.words /\ i + 1 # i
    BY <1>2
  <2> QED
    BY <2>1
<1>9. ASSUME NEW j \in 0..(p.longs - 1), j # i, j # i + 1
      PROVE  ws[j] = IF j \in Body(p, i) /\ e # 0 THEN Swapped(j - i - 2, e) ELSE p.words[j]
  <2>1. ws[j] = IF j - i - 2 \in 0..(n - 1) THEN data[j - i - 2] ELSE p.words[j]
    BY <1>2, <1>4, <1>9
  <2>2. j \in Body(p, i) <=> j - i - 2 \in 0..(n - 1)
    BY <1>2 DEF Body
  <2>3. i + 2 + (j - i - 2) = j
    BY <1>2
  <2> HIDE DEF ws, n
  <2> QED
    BY <1>5, <2>1, <2>2, <2>3
<1> HIDE DEF ws
<1> QED
  BY <1>3, <1>6, <1>7, <1>8, <1>9 DEF q, e

-----------------------------------------------------------------------------
(* Payloads of one outline: the same entries, of the same sizes and kinds.  *)
SameOutline(p, q) ==
  /\ q.longs = p.longs /\ q.items = p.items /\ q.up = p.up /\ q.lev = p.lev
  /\ \A i \in p.items : SizeAt(q.words, i) = SizeAt(p.words, i) /\ (IsNest(q, i) <=> IsNest(p, i))

LEMMA SameEnds ==
  ASSUME NEW p, NEW q, SameOutline(p, q)
  PROVE  /\ \A i \in p.items : EndOf(q, i) = EndOf(p, i)
         /\ \A i : IsDevice(q, i) <=> IsDevice(p, i)
BY DEF SameOutline, EndOf, IsDevice

(* An entry ends where its data ends, so no header but its own is in it.    *)
LEMMA HeadersApart ==
  ASSUME NEW p, Outlined(p), NEW i \in p.items, NEW j \in p.items, j # i
  PROVE  /\ j # i + 1
         /\ ~IsNest(p, i) => j \notin Body(p, i) /\ j + 1 \notin Body(p, i)
<1>1. /\ i \in Nat /\ j \in Nat
      /\ EndOf(p, i) \in Nat /\ i + 2 <= EndOf(p, i)
      /\ p.up[i] \in Nat /\ p.up[j] \in Nat
  BY ItemFacts
<1>2. i < j /\ j < EndOf(p, i) => IsNest(p, i) /\ p.up[j] \in i..(j - 1)
  BY DEF Outlined, Sound, Laminar
<1>3. ASSUME j = i + 1 PROVE FALSE
  <2>1. p.up[j] = i
    BY <1>1, <1>2, <1>3
  <2>2. ~IsDevice(p, j)
    BY <1>3, <1>1, <2>1 DEF IsDevice
  <2>3. p.up[j] + 2 <= j
    BY <2>2, InnerFacts
  <2> QED
    BY <1>1, <1>3, <2>1, <2>3
<1> QED
  BY <1>1, <1>2, <1>3 DEF Body

(* What may be written over an entry.                                       *)
Fitting(p, i, new) ==
  /\ new \in Word /\ new.key \in FourCC /\ new.key # DEVC /\ new.ssize # 0
  /\ DataLongs(new) = SizeAt(p.words, i)
  /\ IsNest(p, i) <=> new.type = NEST

LEMMA OverwrittenHeaders ==
  ASSUME NEW p, Outlined(p), NEW i \in p.items, NEW new, Fitting(p, i, new),
         NEW j \in p.items
  PROVE  LET q == Overwritten(p, i, new)
         IN IF j = i
            THEN /\ q.words[j].key = new.key /\ q.words[j + 1].type = new.type
                 /\ q.words[j + 1].ssize = new.ssize /\ q.words[j + 1].rpt = new.rpt
            ELSE q.words[j] = p.words[j] /\ q.words[j + 1] = p.words[j + 1]
<1> DEFINE q == Overwritten(p, i, new)
           e == EndianSize(new.type)
<1>1. /\ i \in Nat /\ i + 1 < p.longs /\ j \in Nat /\ j + 1 < p.longs /\ p.longs \in Nat
      /\ p.words \in [0..(p.longs - 1) -> Word]
  BY ItemFacts
<1>2. /\ q.words = [k \in 0..(p.longs - 1) |-> q.words[k]]
      /\ q.words[i] = [p.words[i] EXCEPT !.key = new.key]
      /\ q.words[i + 1] = [new EXCEPT !.key = p.words[i + 1].key]
      /\ \A k \in 0..(p.longs - 1) : k # i /\ k # i + 1 =>
           q.words[k] = IF k \in Body(p, i) /\ e # 0 THEN Swapped(k - i - 2, e)
                        ELSE p.words[k]
  <2>1. new \in Word /\ DataLongs(new) = SizeAt(p.words, i)
    BY DEF Fitting
  <2> QED
    BY <2>1, OverwrittenWords
<1> HIDE DEF q
<1>3. CASE j = i
  <2>1. p.words[i] \in Word /\ new \in Word
    BY <1>1 DEF Fitting
  <2>2. /\ q.words[i].key = new.key /\ q.words[i + 1].type = new.type
        /\ q.words[i + 1].ssize = new.ssize /\ q.words[i + 1].rpt = new.rpt
    BY <1>2, <2>1 DEF Word
  <2> QED
    BY <1>3, <2>2 DEF q
<1>4. CASE j # i
  <2>1. j # i + 1 /\ j + 1 # i /\ j + 1 # i + 1
    <3>1. j # i + 1 /\ i # j + 1
      BY <1>4, HeadersApart
    <3> QED
      BY <1>1, <1>4, <3>1
  <2>2. ~(j \in Body(p, i) /\ e # 0) /\ ~(j + 1 \in Body(p, i) /\ e # 0)
    <3>1. CASE IsNest(p, i)
      <4>1. e = 0
        BY <3>1 DEF EndianSize, NEST, Fitting
      <4> QED
        BY <4>1
    <3>2. CASE ~IsNest(p, i)
      BY <1>4, <3>2, HeadersApart
    <3> QED
      BY <3>1, <3>2
  <2>3. j \in 0..(p.longs - 1) /\ j + 1 \in 0..(p.longs - 1)
    BY <1>1
  <2>4. q.words[j] = p.words[j] /\ q.words[j + 1] = p.words[j + 1]
    <3> HIDE DEF e
    <3> QED
      BY <1>2, <1>4, <2>1, <2>2, <2>3
  <2> QED
    BY <1>4, <2>4 DEF q
<1> QED
  BY <1>3, <1>4

(* The payload keeps its outline.                                           *)
LEMMA OverwrittenOutline ==
  ASSUME NEW p, Outlined(p), NEW i \in p.items, NEW new, Fitting(p, i, new)
  PROVE  SameOutline(p, Overwritten(p, i, new))
<1> DEFINE q == Overwritten(p, i, new)
<1>1. q.longs = p.longs /\ q.items = p.items /\ q.up = p.up /\ q.lev = p.lev
  BY OverwrittenFrame
<1>2. ASSUME NEW j \in p.items
      PROVE  SizeAt(q.words, j) = SizeAt(p.words, j) /\ (IsNest(q, j) <=> IsNest(p, j))
  <2>1. CASE j = i
    <3>1. /\ q.words[i + 1].type = new.type
          /\ q.words[i + 1].ssize = new.ssize /\ q.words[i + 1].rpt = new.rpt
      BY OverwrittenHeaders
    <3> HIDE DEF q
    <3>2. SizeAt(q.words, i) = DataLongs(new)
      BY <3>1 DEF SizeAt, DataLongs
    <3> QED
      BY <2>1, <3>1, <3>2 DEF Fitting, IsNest, TypeOf
  <2>2. CASE j # i
    <3>1. q.words[j + 1] = p.words[j + 1]
      BY <2>2, OverwrittenHeaders
    <3> QED
      BY <3>1 DEF SizeAt, IsNest, TypeOf
  <2> QED
    BY <2>1, <2>2
<1> QED
  BY <1>1, <1>2 DEF SameOutline

(* Nothing but sizes, kinds and DEVC makes a payload sound.                 *)
LEMMA SameSound ==
  ASSUME NEW p, Outlined(p), NEW q, SameOutline(p, q),
         \A j \in p.items : /\ KeyOf(q, j) \in FourCC /\ q.words[j + 1].ssize # 0
                            /\ KeyOf(q, j) = DEVC <=> KeyOf(p, j) = DEVC
  PROVE  Sound(q)
<1>1. /\ q.longs = p.longs /\ q.items = p.items /\ q.up = p.up /\ q.lev = p.lev
      /\ \A j \in p.items : SizeAt(q.words, j) = SizeAt(p.words, j) /\ (IsNest(q, j) <=> IsNest(p, j))
  BY DEF SameOutline
<1>2. \A j \in p.items : EndOf(q, j) = EndOf(p, j) /\ (IsDevice(q, j) <=> IsDevice(p, j))
  BY SameEnds
<1>3. \A j \in p.items : ~IsDevice(p, j) => p.up[j] \in p.items
  BY ItemFacts
<1>4. WholeEntries(q)
  BY <1>1, <1>2 DEF Outlined, Sound, WholeEntries
<1>5. DeviceChain(q)
  <2>1. DeviceChain(p)
    BY DEF Outlined, Sound
  <2>2. 0 \in q.items /\ IsDevice(q, 0)
    BY <1>1, <1>2, <2>1 DEF DeviceChain
  <2>3. \A j \in q.items : IsDevice(q, j) <=> KeyOf(q, j) = DEVC
    BY <1>1, <1>2, <2>1 DEF DeviceChain
  <2>4. ASSUME NEW j \in q.items, IsDevice(q, j)
        PROVE  /\ IsNest(q, j) /\ q.lev[j] = 0
               /\ EndOf(q, j) # q.longs => EndOf(q, j) \in q.items /\ IsDevice(q, EndOf(q, j))
    <3>1. /\ IsNest(p, j) /\ p.lev[j] = 0
          /\ EndOf(p, j) # p.longs => EndOf(p, j) \in p.items /\ IsDevice(p, EndOf(p, j))
      BY <1>1, <1>2, <2>1, <2>4 DEF DeviceChain
    <3> QED
      BY <1>1, <1>2, <3>1
  <2> QED
    BY <2>2, <2>3, <2>4 DEF DeviceChain
<1>6. PackedNests(q)
  <2>1. PackedNests(p)
    BY DEF Outlined, Sound
  <2> QED
    BY <1>1, <1>2, <1>3, <2>1 DEF PackedNests
<1>7. Laminar(q)
  <2>1. Laminar(p)
    BY DEF Outlined, Sound
  <2> QED
    BY <1>1, <1>2, <2>1 DEF Laminar
<1>8. LevelsCount(q)
  <2>1. LevelsCount(p)
    BY DEF Outlined, Sound
  <2> QED
    BY <1>1, <1>2, <1>3, <2>1 DEF LevelsCount
<1>9. q.longs < Modulus
  BY <1>1 DEF Outlined, Sound
<1> QED
  BY <1>4, <1>5, <1>6, <1>7, <1>8, <1>9 DEF Sound

LEMMA OverwrittenOutlined ==
  ASSUME NEW p, Outlined(p), NEW i \in p.items, NEW new, Fitting(p, i, new),
         KeyOf(p, i) # DEVC
  PROVE  LET q == Overwritten(p, i, new)
         IN /\ Outlined(q) /\ KeyOf(q, i) = new.key
            /\ \A j \in p.items \ {i} : KeyOf(q, j) = KeyOf(p, j)
<1> DEFINE q == Overwritten(p, i, new)
           e == EndianSize(new.type)
<1>1. /\ p.longs \in Nat /\ p.words \in [0..(p.longs - 1) -> Word]
      /\ i \in Nat /\ i + 1 < p.longs
      /\ EndOf(p, i) = i + 2 + SizeAt(p.words, i)
  BY ItemFacts
<1>2. /\ new \in Word /\ DataLongs(new) = SizeAt(p.words, i)
      /\ new.key \in FourCC /\ new.key # DEVC /\ new.ssize # 0
  BY DEF Fitting
<1>3. \A j \in p.items :
        IF j = i THEN q.words[j].key = new.key /\ q.words[j + 1].ssize = new.ssize
        ELSE q.words[j] = p.words[j] /\ q.words[j + 1] = p.words[j + 1]
  BY OverwrittenHeaders
<1>4. /\ q.words = [j \in 0..(p.longs - 1) |-> q.words[j]]
      /\ q.words[i] = [p.words[i] EXCEPT !.key = new.key]
      /\ q.words[i + 1] = [new EXCEPT !.key = p.words[i + 1].key]
      /\ \A j \in 0..(p.longs - 1) : j # i /\ j # i + 1 =>
           q.words[j] = IF j \in Body(p, i) /\ e # 0 THEN Swapped(j - i - 2, e) ELSE p.words[j]
  BY <1>2, OverwrittenWords
<1>5. SameOutline(p, q)
  BY OverwrittenOutline
<1>6. /\ DOMAIN q = DOMAIN p
      /\ q.longs = p.longs /\ q.items = p.items /\ q.up = p.up /\ q.lev = p.lev
  BY OverwrittenFrame
<1> HIDE DEF q
<1>7. \A j \in 0..(p.longs - 1) : q.words[j] \in Word
  <2> TAKE j \in 0..(p.longs - 1)
  <2>1. p.words[i] \in Word /\ p.words[i + 1] \in Word /\ p.words[j] \in Word
    BY <1>1
  <2>2. CASE j = i
    <3>1. [p.words[i] EXCEPT !.key = new.key] \in Word
      BY <1>2, <2>1, Zenon DEF Word
    <3> QED
      BY <1>4, <2>2, <3>1
  <2>3. CASE j = i + 1
    <3>1. p.words[i + 1].key \in FourCC \union {END, JUNK}
      BY <2>1 DEF Word
    <3>2. [new EXCEPT !.key = p.words[i + 1].key] \in Word
      BY <1>2, <3>1, Zenon DEF Word
    <3> QED
      BY <1>4, <2>3, <3>2
  <2>4. CASE j # i /\ j # i + 1 /\ j \in Body(p, i) /\ e # 0
    <3>1. DataLongs(new) \in Nat /\ DataLongs(new) < MostLongs
      BY <1>2, LongsBound
    <3>2. j - i - 2 \in 0..(DataLongs(new) - 1)
      BY <1>1, <1>2, <2>4, <3>1 DEF Body
    <3>3. Swapped(j - i - 2, e) \in Word
      BY <2>4, <3>1, <3>2, SwappedWord
    <3> QED
      BY <1>4, <2>4, <3>3
  <2>5. CASE j # i /\ j # i + 1 /\ ~(j \in Body(p, i) /\ e # 0)
    BY <1>4, <2>1, <2>5
  <2> QED
    BY <2>2, <2>3, <2>4, <2>5
<1>8. PayloadShape(q)
  <2>1. q.words \in [0..(p.longs - 1) -> Word]
    BY <1>4, <1>7
  <2> QED
    BY <1>6, <2>1 DEF Outlined, PayloadShape
<1>9. ASSUME NEW j \in p.items
      PROVE  /\ KeyOf(q, j) \in FourCC /\ q.words[j + 1].ssize # 0
             /\ KeyOf(q, j) = DEVC <=> KeyOf(p, j) = DEVC
  <2>1. p.words[j].key \in FourCC /\ p.words[j + 1].ssize # 0
    BY ItemFacts
  <2> QED
    BY <1>2, <1>3, <2>1 DEF KeyOf
<1>10. Sound(q)
  BY <1>5, <1>9, SameSound
<1> QED
  BY <1>3, <1>8, <1>10 DEF Outlined, KeyOf, q

(* Streams see no difference.                                               *)
LEMMA SameOnKlv ==
  ASSUME NEW p, Outlined(p), NEW q, SameOutline(p, q), NEW s, OnKlv(p, s)
  PROVE  OnKlv(q, s)
<1>1. /\ q.longs = p.longs /\ q.items = p.items /\ q.up = p.up /\ q.lev = p.lev
      /\ \A j \in p.items : SizeAt(q.words, j) = SizeAt(p.words, j) /\ (IsNest(q, j) <=> IsNest(p, j))
  BY DEF SameOutline
<1>2. /\ \A j \in p.items : EndOf(q, j) = EndOf(p, j)
      /\ \A j : IsDevice(q, j) <=> IsDevice(p, j)
  BY SameEnds
<1>3. \A j \in p.items : p.up[j] \in p.items
  BY ItemFacts
<1>4. ASSUME NEW l, Outer(p, s, l) PROVE Outer(q, s, l)
  BY <1>1, <1>2, <1>3, <1>4 DEF Outer
<1>5. CASE s.pos \in p.items /\ IsDevice(p, s.pos)
  <2>1. OnDevice(p, s)
    <3>1. s.pos # p.longs
      BY <1>5, ItemFacts
    <3> QED
      BY <1>5, <3>1 DEF OnKlv
  <2>2. OnDevice(q, s)
    BY <1>1, <1>5, <2>1 DEF OnDevice
  <2> QED
    BY <1>1, <1>2, <1>5, <2>2 DEF OnKlv
<1>6. CASE s.pos \in p.items /\ ~IsDevice(p, s.pos) /\ InNest(p, s)
  <2>1. InNest(q, s)
    BY <1>1, <1>2, <1>3, <1>4, <1>6 DEF InNest
  <2> QED
    BY <1>1, <1>2, <1>6, <2>1 DEF OnKlv
<1>7. CASE s.pos = p.longs /\ s.nest_level = 0
  BY <1>1, <1>7 DEF OnKlv
<1> QED
  BY <1>5, <1>6, <1>7 DEF OnKlv

-----------------------------------------------------------------------------
(***************************************************************************)
(* The inductive invariant: the payload has the outline of one that the    *)
(* program was handed, keys that may be replaced are the only ones that    *)
(* differ, and the streams have the books of the entries they are on.  The *)
(* sizes and the kinds are those of the payload handed, so an entry that   *)
(* fits there fits now.                                                    *)
(***************************************************************************)
MadeFrom(b, p) ==
  /\ SameOutline(Payloads[b], p)
  /\ \A i \in p.items : \/ KeyOf(p, i) = KeyOf(Payloads[b], i)
                        \/ KeyOf(Payloads[b], i) \in FindKeys

Kept(p) == Outlined(p) /\ \E b \in DOMAIN Payloads : MadeFrom(b, p)

OnIts(s) == Usable(s) /\ OnKlv(payload, s)

SearchSound ==
  job.phase # "idle" =>
    /\ ~lost /\ edits < MaxEdits
    /\ OnIts(job.fs)
    /\ job.orig \in FindKeys /\ job.new \in News
    /\ job.phase \in {"behind", "tail"} => job.mark <= payload.longs

IInv ==
  /\ TypeOK
  /\ Kept(payload)
  /\ ms.bound = payload.longs
  /\ lost \/ OnIts(ms)
  /\ WalksOn
  /\ SearchSound

LEMMA KeptSame ==
  ASSUME NEW p, Outlined(p), NEW q, Outlined(q), SameOutline(p, q), NEW b, MadeFrom(b, p),
         \A i \in p.items : KeyOf(q, i) = KeyOf(p, i) \/ KeyOf(p, i) \in FindKeys
  PROVE  MadeFrom(b, q)
<1>1. /\ p.longs = Payloads[b].longs /\ p.items = Payloads[b].items
      /\ p.up = Payloads[b].up /\ p.lev = Payloads[b].lev
      /\ \A i \in Payloads[b].items :
           /\ SizeAt(p.words, i) = SizeAt(Payloads[b].words, i)
           /\ IsNest(p, i) <=> IsNest(Payloads[b], i)
  BY DEF MadeFrom, SameOutline
<1>2. /\ q.longs = p.longs /\ q.items = p.items /\ q.up = p.up /\ q.lev = p.lev
      /\ \A i \in p.items : /\ SizeAt(q.words, i) = SizeAt(p.words, i)
                            /\ IsNest(q, i) <=> IsNest(p, i)
  BY DEF SameOutline
<1>3. SameOutline(Payloads[b], q)
  BY <1>1, <1>2 DEF SameOutline
<1>4. \A i \in q.items : \/ KeyOf(q, i) = KeyOf(Payloads[b], i)
                         \/ KeyOf(Payloads[b], i) \in FindKeys
  BY <1>2 DEF MadeFrom
<1> QED
  BY <1>3, <1>4 DEF MadeFrom

(* What a search finds may be overwritten by what has its size.             *)
LEMMA FoundFits ==
  ASSUME Kept(payload), NEW i \in payload.items, KeyOf(payload, i) \in FindKeys,
         NEW new \in News, WillFit(i, new)
  PROVE  Fitting(payload, i, new) /\ KeyOf(payload, i) # DEVC
<1>1. PICK b \in DOMAIN Payloads : MadeFrom(b, payload)
  BY DEF Kept
<1>2. /\ i \in Payloads[b].items
      /\ SizeAt(payload.words, i) = SizeAt(Payloads[b].words, i)
      /\ IsNest(payload, i) <=> IsNest(Payloads[b], i)
      /\ KeyOf(Payloads[b], i) \in FindKeys
  BY <1>1 DEF MadeFrom, SameOutline
<1>3. DataLongs(new) = SizeAt(payload.words, i)
  BY DEF WillFit, words
<1>4. IsNest(payload, i) <=> new.type = NEST
  BY <1>2, <1>3, KindAssumption
<1> QED
  BY <1>3, <1>4, NewsAssumption DEF Fitting

LEMMA IdleJob == Idle \in Job /\ Idle.phase = "idle"
<1>1. Blank \in Stream /\ ZeroWord \in Word
  BY BlankUsable DEF Usable, Blank, Stream
<1>2. DEVC \in FourCC
  BY KeyAssumption
<1> QED
  BY <1>1, <1>2 DEF Idle, Job

(* A modification ends on a payload of the same outline.                    *)
LEMMA EndKept ==
  ASSUME IInv, ~lost, edits < MaxEdits, NEW code \in Codes,
         NEW p, Outlined(p), SameOutline(payload, p),
         \A i \in payload.items : KeyOf(p, i) = KeyOf(payload, i) \/ KeyOf(payload, i) \in FindKeys,
         End(code, p)
  PROVE  IInv'
<1>1. /\ payload' = p /\ answer' = code /\ job' = Idle /\ edits' = edits + 1
      /\ ms' = ms /\ lost' = lost
  BY DEF End
<1>2. Idle \in Job /\ Idle.phase = "idle"
  BY IdleJob
<1>3. TypeOK'
  BY <1>1, <1>2, EditsAssumption DEF IInv, TypeOK, Outlined
<1>4. Kept(payload)'
  <2>1. PICK b \in DOMAIN Payloads : MadeFrom(b, payload)
    BY DEF IInv, Kept
  <2>2. MadeFrom(b, p)
    BY <2>1, KeptSame DEF IInv, Kept
  <2> QED
    BY <1>1, <2>2 DEF Kept
<1>5. /\ (ms.bound = payload.longs)' /\ OnIts(ms)'
  <2>1. OnIts(ms) /\ ms.bound = payload.longs
    BY DEF IInv
  <2>2. OnKlv(p, ms)
    BY <2>1, SameOnKlv DEF IInv, Kept, OnIts
  <2> QED
    BY <1>1, <2>1, <2>2 DEF OnIts, SameOutline
<1> QED
  BY <1>1, <1>2, <1>3, <1>4, <1>5 DEF IInv, WalksOn, SearchSound

LEMMA ReplaceKept ==
  ASSUME IInv, ~lost, edits < MaxEdits, NEW i \in payload.items,
         KeyOf(payload, i) \in FindKeys, NEW new \in News, Replace(i, new)
  PROVE  IInv'
<1>1. Kept(payload) /\ Outlined(payload)
  BY DEF IInv, Kept
<1>2. CASE WillFit(i, new)
  <2> DEFINE p == Overwritten(payload, i, new)
  <2>1. Fitting(payload, i, new) /\ KeyOf(payload, i) # DEVC
    BY <1>1, <1>2, FoundFits
  <2>2. SameOutline(payload, p)
    BY <1>1, <2>1, OverwrittenOutline
  <2>3. /\ Outlined(p)
        /\ \A j \in payload.items \ {i} : KeyOf(p, j) = KeyOf(payload, j)
    BY <1>1, <2>1, OverwrittenOutlined
  <2>4. End(OK, p)
    BY <1>2 DEF Replace
  <2> HIDE DEF p
  <2>5. \A j \in payload.items : KeyOf(p, j) = KeyOf(payload, j) \/ KeyOf(payload, j) \in FindKeys
    BY <2>3
  <2> QED
    BY <2>2, <2>3, <2>4, <2>5, EndKept DEF Codes
<1>3. CASE ~WillFit(i, new)
  <2>1. End(BAD, payload)
    BY <1>3 DEF Replace
  <2>2. SameOutline(payload, payload)
    BY DEF SameOutline
  <2> QED
    BY <1>1, <2>1, <2>2, EndKept DEF Codes
<1> QED
  BY <1>2, <1>3

LEMMA FailKept ==
  ASSUME IInv, ~lost, edits < MaxEdits, NEW code \in Codes, End(code, payload)
  PROVE  IInv'
<1>1. Outlined(payload) /\ SameOutline(payload, payload)
  BY DEF IInv, Kept, SameOutline
<1> QED
  BY <1>1, EndKept

-----------------------------------------------------------------------------
(* A pass, from an entry of the payload by its books.                       *)
LEMMA PassOnIts ==
  ASSUME Kept(payload), NEW s, OnIts(s), NEW flags, NEW r \in GPMF_Next(words, s, flags)
  PROVE  /\ r.ms \in Stream /\ r.ms.bound = payload.longs
         /\ r.ret \in {OK, AGAIN} => OnIts(r.ms)
         /\ r.ret = OK => r.ms.pos \in payload.items
         /\ r.ret # BAD => OnIts(r.ms)
         /\ r.ret = BAD => ~Descending
<1>1. Outlined(payload) /\ Usable(s) /\ OnKlv(payload, s) /\ words = payload.words
  BY DEF Kept, OnIts, words
<1>2. s.bound = payload.longs
  BY <1>1 DEF OnKlv
<1>3. payload.longs \in Nat /\ payload.words \in [0..(payload.longs - 1) -> Word]
  BY <1>1 DEF Outlined, PayloadShape
<1>4. r.ms \in Stream /\ r.ms.bound = payload.longs
  BY <1>1, <1>2, <1>3, NextUsable
<1> DEFINE there == Into(payload, s.pos, flags)
<1>5. \/ s.pos = payload.longs /\ r = Result(BUFFER_END, s)
      \/ /\ s.pos \in payload.items
         /\ LastOfNest(payload, s.pos, flags) /\ r = Result(LAST, s)
      \/ /\ s.pos \in payload.items
         /\ ~LastOfNest(payload, s.pos, flags)
         /\ r.ret = Verdict(payload, there, flags) /\ r.ms.pos = there
         /\ Usable(r.ms) /\ OnKlv(payload, r.ms)
      \/ /\ s.pos \in payload.items
         /\ Refused(payload, s.pos, flags) /\ r.ret = BAD
  BY <1>1, NextOnKlv
<1> HIDE DEF there
<1>6. CASE s.pos = payload.longs /\ r = Result(BUFFER_END, s)
  BY <1>4, <1>6 DEF Result, OnIts, BUFFER_END, OK, BAD, AGAIN
<1>7. CASE LastOfNest(payload, s.pos, flags) /\ r = Result(LAST, s)
  BY <1>4, <1>7 DEF Result, OnIts, LAST, OK, BAD, AGAIN
<1>8. CASE /\ r.ret = Verdict(payload, there, flags) /\ r.ms.pos = there
           /\ Usable(r.ms) /\ OnKlv(payload, r.ms)
  <2>1. r.ret # BAD /\ (r.ret = OK => there # payload.longs)
    BY <1>8 DEF Verdict, BUFFER_END, OK, BAD, AGAIN, UNKNOWN_TYPE
  <2>2. r.ms.pos \in payload.items \/ r.ms.pos = payload.longs
    BY <1>8 DEF OnKlv
  <2> QED
    BY <1>4, <1>8, <2>1, <2>2 DEF OnIts
<1>9. CASE s.pos \in payload.items /\ Refused(payload, s.pos, flags) /\ r.ret = BAD
  <2> DEFINE i    == s.pos
             next == EndOf(payload, s.pos)
  <2>1. /\ IsDevice(payload, i) /\ next \in payload.items /\ IsDevice(payload, next)
        /\ SizeAt(payload.words, i) < SizeAt(payload.words, next) + 2
    BY <1>9 DEF Refused
  <2>2. /\ i \in Nat /\ next \in Nat /\ i + 2 <= next
        /\ SizeAt(payload.words, i) \in Nat /\ SizeAt(payload.words, next) \in Nat
    BY <1>1, <1>9, <2>1, ItemFacts
  <2> HIDE DEF next
  <2>3. i < next /\ ~(SizeAt(words, next) + 2 <= SizeAt(words, i))
    BY <1>1, <2>1, <2>2
  <2>4. ~Descending
    BY <1>9, <2>1, <2>3 DEF Descending
  <2> QED
    BY <1>4, <1>9, <2>4 DEF OK, BAD, AGAIN
<1> QED
  BY <1>5, <1>6, <1>7, <1>8, <1>9

LEMMA RewoundOnIts ==
  ASSUME Kept(payload), NEW s \in Stream, s.bound = payload.longs
  PROVE  OnIts(Rewound(s))
<1>1. Usable(Rewound(s)) /\ Rewound(s).bound = payload.longs
  BY RewoundUsable
<1>2. 0 \in Levels /\ s.nest_size \in [Levels -> Nat]
  BY LimitAssumption DEF Stream, Levels
<1>3. Rewound(s).pos = 0 /\ Rewound(s).nest_level = 0 /\ Rewound(s).nest_size[0] = 0
  BY <1>2 DEF Rewound, Stream
<1>4. 0 \in payload.items /\ IsDevice(payload, 0)
  BY DEF Kept, Outlined, Sound, DeviceChain
<1> QED
  BY <1>1, <1>3, <1>4 DEF OnIts, OnKlv, OnDevice

LEMMA AtFirstOnIts ==
  ASSUME Kept(payload), NEW s, OnIts(s), s.nest_level # 0
  PROVE  OnIts(AtFirst(s)) /\ s.pos <= payload.longs
<1> DEFINE level == s.nest_level
           first == s.last_level_pos[level - 1] + 2
           size  == s.nest_size[level] + s.pos - first
           sizes == [s.nest_size EXCEPT ![level] = size]
<1>1. Outlined(payload) /\ Usable(s) /\ OnKlv(payload, s)
  BY DEF Kept, OnIts
<1>2. /\ level \in Nat /\ level \in Levels /\ level > 0 /\ s \in Stream
      /\ s.nest_size \in [Levels -> Nat] /\ s.last_level_pos \in [Slots -> Nat]
      /\ s.pos \in Nat
  BY <1>1, UsableFields DEF Usable
<1>3. size \in 0..(Modulus - 1)
  BY <1>1, <1>2, SizeFromFirst
<1>4. level - 1 \in Slots
  <2> HIDE DEF level
  <2> QED
    BY <1>2, LimitAssumption DEF Levels, Slots
<1>5. first \in Nat
  BY <1>2, <1>4
<1>6. \A k \in 0..(Modulus - 1) : k % Modulus = k /\ k \in Nat
  BY LimitAssumption
<1>7. size % Modulus = size /\ size \in Nat
  <2> HIDE DEF size
  <2> QED
    BY <1>3, <1>6
<1>8. AtFirst(s) = [s EXCEPT !.pos = first, !.nest_size[level] = (@ + s.pos - first) % Modulus]
  <2>1. AtFirst(s) = [s EXCEPT !.pos = first, !.nest_size = sizes]
    BY <1>2 DEF AtFirst, First, Stream
  <2>2. [s EXCEPT !.pos = first, !.nest_size[level] = (@ + s.pos - first) % Modulus] =
          [s EXCEPT !.pos = first, !.nest_size = [s.nest_size EXCEPT ![level] = size % Modulus]]
    BY <1>2 DEF Stream
  <2> HIDE DEF first, size
  <2> QED
    BY <1>7, <2>1, <2>2
<1>9. OnKlv(payload, AtFirst(s)) /\ AtFirst(s).nest_level = level
  <2> DEFINE back == [s EXCEPT !.pos = first,
                               !.nest_size[level] = (@ + s.pos - first) % Modulus]
  <2>1. OnKlv(payload, back) /\ back.nest_level = level
    BY <1>1, <1>2, RewindOnKlv
  <2>2. AtFirst(s) = back
    BY <1>8
  <2> HIDE DEF back
  <2> QED
    BY <2>1, <2>2
<1>10. AtFirst(s) \in Stream
  <2>1. sizes \in [Levels -> Nat]
    <3> HIDE DEF size
    <3> QED
      BY <1>2, <1>7
  <2>2. AtFirst(s) = [s EXCEPT !.pos = first, !.nest_size = sizes]
    BY <1>2 DEF AtFirst, First, Stream
  <2> HIDE DEF sizes, first
  <2>3. [s EXCEPT !.pos = first, !.nest_size = sizes] \in Stream
    BY <1>2, <1>5, <2>1, Zenon DEF Stream
  <2> QED
    BY <2>2, <2>3
<1>11. s.pos <= payload.longs
  BY <1>1, <1>2, ItemFacts DEF OnKlv
<1> QED
  BY <1>2, <1>9, <1>10, <1>11 DEF OnIts, Usable

-----------------------------------------------------------------------------
(* One step of the program: what a search and what the walk do.             *)
LEMMA InitKept == ASSUME Init PROVE IInv
<1>1. PICK b \in DOMAIN Payloads : payload = Payloads[b]
  BY DEF Init
<1>2. Outlined(payload)
  BY <1>1, PayloadAssumption DEF Outlined
<1>3. ms = Opened(payload.longs) /\ payload.longs \in Nat
  BY <1>2 DEF Init, Outlined, PayloadShape
<1>4. Usable(ms) /\ ms.bound = payload.longs
  BY <1>3, OpenedUsable
<1>5. ms.pos = 0 /\ ms.nest_level = 0 /\ ms.nest_size[0] = 0
  BY <1>3, LimitAssumption DEF Opened, Blank, Levels
<1>6. 0 \in payload.items /\ IsDevice(payload, 0)
  BY <1>2 DEF Outlined, Sound, DeviceChain
<1>7. OnIts(ms)
  BY <1>4, <1>5, <1>6 DEF OnIts, OnKlv, OnDevice
<1>8. job = Idle /\ Idle \in Job /\ Idle.phase = "idle"
  BY IdleJob DEF Init
<1>9. Kept(payload)
  BY <1>1, <1>2 DEF Kept, MadeFrom, SameOutline
<1>10. TypeOK
  <2>1. edits = 0 /\ lost = FALSE /\ answer = OK
    BY DEF Init
  <2>2. edits \in 0..MaxEdits
    BY <2>1, EditsAssumption
  <2> QED
    BY <1>2, <1>4, <1>8, <2>1, <2>2 DEF TypeOK, Outlined, Usable, Codes
<1> QED
  BY <1>4, <1>7, <1>8, <1>9, <1>10 DEF IInv, WalksOn, SearchSound, Init

(* The search goes on: from fs, ahead, back to the start or from the top.   *)
LEMMA SearchKept ==
  ASSUME IInv, job.phase # "idle", NEW fs, OnIts(fs),
         NEW phase \in {"ahead", "back", "behind", "tail", "all"},
         phase \in {"behind", "tail"} => job.phase \in {"behind", "tail"},
         Search(phase, fs)
  PROVE  IInv'
<1> DEFINE new == [job EXCEPT !.phase = phase, !.fs = fs]
<1>1. /\ job' = new /\ payload' = payload /\ ms' = ms /\ lost' = lost
      /\ edits' = edits /\ answer' = answer
  BY DEF Search
<1>2. job \in Job /\ fs \in Stream
  BY DEF IInv, TypeOK, OnIts, Usable
<1>3. /\ new.phase = phase /\ new.fs = fs /\ new.orig = job.orig /\ new.new = job.new
      /\ new.mark = job.mark
  BY <1>2 DEF Job
<1>4. new \in Job
  <2>1. phase \in {"idle", "ahead", "back", "behind", "tail", "all"}
    OBVIOUS
  <2> QED
    BY <1>2, <2>1, Zenon DEF Job
<1> HIDE DEF new
<1>5. TypeOK' /\ Kept(payload)' /\ (ms.bound = payload.longs)' /\ (lost \/ OnIts(ms))' /\ WalksOn'
  BY <1>1, <1>4 DEF IInv, TypeOK, OnIts, WalksOn, Descending, words
<1>6. SearchSound'
  <2>1. /\ ~lost /\ edits < MaxEdits
        /\ job.orig \in FindKeys /\ job.new \in News
        /\ job.phase \in {"behind", "tail"} => job.mark <= payload.longs
    BY DEF IInv, SearchSound
  <2>2. OnIts(fs)'
    BY <1>1 DEF OnIts
  <2>3. OnIts(job.fs)'
    BY <1>1, <1>3, <2>2
  <2> QED
    BY <1>1, <1>3, <2>1, <2>3 DEF SearchSound
<1> QED
  BY <1>5, <1>6 DEF IInv

(* What every step of a search may use.                                     *)
LEMMA Searches ==
  ASSUME IInv, job.phase # "idle"
  PROVE  /\ Kept(payload) /\ ~lost /\ edits < MaxEdits
         /\ OnIts(ms) /\ ms \in Stream /\ ms.bound = payload.longs
         /\ OnIts(job.fs)
         /\ job.orig \in FindKeys /\ job.new \in News
BY DEF IInv, SearchSound, TypeOK

LEMMA StartSearchKept ==
  ASSUME IInv, NEW orig \in FindKeys, NEW new \in News, StartSearch(orig, new)
  PROVE  IInv'
<1> DEFINE begun == [Idle EXCEPT !.phase = "ahead", !.fs = ms, !.orig = orig, !.new = new]
<1>1. /\ job' = begun /\ payload' = payload /\ ms' = ms /\ lost' = lost
      /\ edits' = edits /\ answer' = answer /\ ~lost /\ edits < MaxEdits
  BY DEF StartSearch, Called
<1>2. OnIts(ms) /\ ms \in Stream
  BY <1>1 DEF IInv, OnIts, Usable
<1>3. Idle \in Job /\ orig \in FourCC /\ new \in Word
  BY IdleJob, NewsAssumption
<1>4. begun.phase = "ahead" /\ begun.fs = ms /\ begun.orig = orig /\ begun.new = new
  BY <1>3 DEF Job
<1>5. begun \in Job
  BY <1>2, <1>3, Zenon DEF Job
<1> HIDE DEF begun
<1>6. TypeOK' /\ Kept(payload)' /\ (ms.bound = payload.longs)' /\ (lost \/ OnIts(ms))' /\ WalksOn'
  BY <1>1, <1>5 DEF IInv, TypeOK, OnIts, WalksOn, Descending, words
<1>7. OnIts(job.fs)'
  BY <1>1, <1>2, <1>4 DEF OnIts
<1>8. SearchSound'
  BY <1>1, <1>4, <1>7 DEF SearchSound
<1> QED
  BY <1>6, <1>8 DEF IInv

LEMMA HereFound ==
  ASSUME IInv, NEW orig, NEW new \in News, ModifyHere(orig, new)
  PROVE  ms.pos \in payload.items /\ KeyOf(payload, ms.pos) = orig /\ Replace(ms.pos, new)
<1>1. Outlined(payload) /\ OnKlv(payload, ms) /\ ms.bound = payload.longs
  BY DEF IInv, Kept, OnIts, ModifyHere, Called
<1>2. ms.pos + 1 + DataLongs(new) < payload.longs /\ DataLongs(new) \in Nat
  BY <1>1, NewsAssumption, DataLongsNat DEF ModifyHere, Room
<1>3. ms.pos \in Nat /\ payload.longs \in Nat
  BY <1>1 DEF IInv, TypeOK, Stream, Outlined, PayloadShape
<1>4. ms.pos # payload.longs
  BY <1>2, <1>3
<1>5. ms.pos \in payload.items
  BY <1>1, <1>4 DEF OnKlv
<1>6. KeyOf(payload, ms.pos) = orig /\ WillFit(ms.pos, new)
  BY DEF ModifyHere, OnIt, KeyOf, words
<1> QED
  BY <1>5, <1>6 DEF Replace, ModifyHere

LEMMA HereKept ==
  ASSUME IInv, NEW orig \in FindKeys, NEW new \in News, ModifyHere(orig, new)
  PROVE  IInv'
<1>1. ~lost /\ edits < MaxEdits
  BY DEF ModifyHere, Called
<1> QED
  BY <1>1, HereFound, ReplaceKept

(* A turn of GPMF_FindNext that goes on or finds the entry.                 *)
LEMMA TurnKept ==
  ASSUME IInv, job.phase \in {"ahead", "all"}, NEW flags, NEW fail,
         FindNextTurn(flags, fail), fail => IInv'
  PROVE  IInv'
<1>1. /\ Kept(payload) /\ ~lost /\ edits < MaxEdits /\ OnIts(job.fs)
      /\ job.orig \in FindKeys /\ job.new \in News /\ job.phase # "idle"
  BY Searches
<1>2. PICK r \in GPMF_Next(words, job.fs, flags) :
        IF r.ret = OK /\ words[r.ms.pos].key = job.orig THEN Replace(r.ms.pos, job.new)
        ELSE IF r.ret \in {OK, AGAIN} THEN Search(job.phase, r.ms)
        ELSE fail
  BY DEF FindNextTurn
<1>3. /\ r.ret \in {OK, AGAIN} => OnIts(r.ms)
      /\ r.ret = OK => r.ms.pos \in payload.items
  BY <1>1, PassOnIts
<1>4. CASE r.ret = OK /\ words[r.ms.pos].key = job.orig
  <2>1. KeyOf(payload, r.ms.pos) \in FindKeys
    BY <1>1, <1>4 DEF KeyOf, words
  <2> QED
    BY <1>1, <1>2, <1>3, <1>4, <2>1, ReplaceKept
<1>5. CASE ~(r.ret = OK /\ words[r.ms.pos].key = job.orig) /\ r.ret \in {OK, AGAIN}
  <2>1. OnIts(r.ms) /\ Search(job.phase, r.ms)
    BY <1>2, <1>3, <1>5
  <2>2. /\ job.phase \in {"ahead", "back", "behind", "tail", "all"}
        /\ job.phase \in {"behind", "tail"} => job.phase \in {"behind", "tail"}
    OBVIOUS
  <2> QED
    BY <1>1, <2>1, <2>2, SearchKept
<1>6. CASE ~(r.ret = OK /\ words[r.ms.pos].key = job.orig) /\ r.ret \notin {OK, AGAIN}
  BY <1>2, <1>6
<1> QED
  BY <1>4, <1>5, <1>6

LEMMA FromStartKept ==
  ASSUME IInv, job.phase # "idle", FromStart
  PROVE  IInv'
<1>1. OnIts(Rewound(ms))
  BY Searches, RewoundOnIts
<1> QED
  BY <1>1, SearchKept DEF FromStart

LEMMA AheadKept == ASSUME IInv, Ahead PROVE IInv'
<1>1. job.phase = "ahead" /\ FindNextTurn({TOLERANT}, Search("back", ms))
  BY DEF Ahead
<1>2. OnIts(ms)
  BY <1>1, Searches
<1>3. Search("back", ms) => IInv'
  BY <1>1, <1>2, SearchKept
<1> QED
  BY <1>1, <1>3, TurnKept

LEMMA AllKept == ASSUME IInv, All PROVE IInv'
<1>1. job.phase = "all" /\ FindNextTurn({RECURSE, TOLERANT}, End(FIND, payload))
  BY DEF All
<1>2. ~lost /\ edits < MaxEdits
  BY <1>1, Searches
<1>3. End(FIND, payload) => IInv'
  BY <1>2, FailKept DEF Codes
<1> QED
  BY <1>1, <1>3, TurnKept

LEMMA BackKept == ASSUME IInv, Back PROVE IInv'
<1>1. job.phase = "back"
  BY DEF Back
<1>2. /\ Kept(payload) /\ ~lost /\ edits < MaxEdits /\ OnIts(job.fs)
      /\ job.orig \in FindKeys /\ job.new \in News
  BY <1>1, Searches
<1>3. CASE job.fs.nest_level = 0
  BY <1>1, <1>3, FromStartKept DEF Back
<1>4. CASE job.fs.nest_level # 0
  <2> DEFINE new == [job EXCEPT !.phase = "behind", !.mark = job.fs.pos, !.fs = AtFirst(@)]
  <2>1. /\ job' = new /\ payload' = payload /\ ms' = ms /\ lost' = lost
        /\ edits' = edits /\ answer' = answer
    BY <1>4 DEF Back
  <2>2. OnIts(AtFirst(job.fs)) /\ job.fs.pos <= payload.longs
    BY <1>2, <1>4, AtFirstOnIts
  <2>3. job \in Job /\ AtFirst(job.fs) \in Stream /\ job.fs.pos \in Nat
    BY <1>2, <2>2 DEF IInv, TypeOK, OnIts, Usable, Stream
  <2>4. /\ new.phase = "behind" /\ new.fs = AtFirst(job.fs) /\ new.orig = job.orig
        /\ new.new = job.new /\ new.mark = job.fs.pos
    BY <2>3 DEF Job
  <2>5. new \in Job
    BY <2>3, Zenon DEF Job
  <2> HIDE DEF new
  <2>6. /\ TypeOK' /\ Kept(payload)' /\ (ms.bound = payload.longs)' /\ (lost \/ OnIts(ms))'
        /\ WalksOn'
    BY <2>1, <2>5 DEF IInv, TypeOK, OnIts, WalksOn, Descending, words
  <2>7. OnIts(job.fs)'
    BY <2>1, <2>2, <2>4 DEF OnIts
  <2>8. SearchSound'
    BY <1>2, <2>1, <2>2, <2>4, <2>7 DEF SearchSound
  <2> QED
    BY <2>6, <2>8 DEF IInv
<1> QED
  BY <1>3, <1>4

LEMMA BehindKept == ASSUME IInv, Behind PROVE IInv'
<1>1. job.phase \in {"behind", "tail"} /\ job.phase # "idle"
  BY DEF Behind
<1>2. /\ Kept(payload) /\ ~lost /\ edits < MaxEdits /\ OnIts(job.fs)
      /\ job.orig \in FindKeys /\ job.new \in News /\ job.mark <= payload.longs
  BY <1>1, Searches DEF IInv, SearchSound
<1>3. ASSUME FromStart PROVE IInv'
  BY <1>1, <1>3, FromStartKept
<1>4. ASSUME ~(job.mark <= job.fs.pos), words[job.fs.pos].key = job.orig,
             Replace(job.fs.pos, job.new)
      PROVE  IInv'
  <2>1. job.fs.pos \in payload.items
    <3>1. job.fs.pos # payload.longs
      BY <1>2, <1>4
    <3> QED
      BY <1>2, <3>1 DEF OnIts, OnKlv
  <2> QED
    BY <1>2, <1>4, <2>1, ReplaceKept DEF KeyOf, words
<1>5. ASSUME NEW r \in GPMF_Next(words, job.fs, {TOLERANT}),
             CASE r.ret = OK    -> Search("behind", r.ms)
               [] r.ret = AGAIN -> Search("tail", r.ms)
               [] OTHER         -> FromStart
      PROVE  IInv'
  <2>1. r.ret \in {OK, AGAIN} => OnIts(r.ms)
    BY <1>2, PassOnIts
  <2>2. CASE r.ret = OK
    <3>1. Search("behind", r.ms)
      BY <1>5, <2>2 DEF OK, AGAIN
    <3> QED
      BY <1>1, <2>1, <2>2, <3>1, SearchKept
  <2>3. CASE r.ret = AGAIN
    <3>1. Search("tail", r.ms)
      BY <1>5, <2>3 DEF OK, AGAIN
    <3> QED
      BY <1>1, <2>1, <2>3, <3>1, SearchKept
  <2>4. CASE r.ret # OK /\ r.ret # AGAIN
    BY <1>3, <1>5, <2>4
  <2> QED
    BY <2>2, <2>3, <2>4
<1>6. \/ FromStart
      \/ /\ ~(job.mark <= job.fs.pos) /\ words[job.fs.pos].key = job.orig
         /\ Replace(job.fs.pos, job.new)
      \/ \E r \in GPMF_Next(words, job.fs, {TOLERANT}) :
           CASE r.ret = OK    -> Search("behind", r.ms)
             [] r.ret = AGAIN -> Search("tail", r.ms)
             [] OTHER         -> FromStart
  BY DEF Behind
<1> QED
  BY <1>3, <1>4, <1>5, <1>6

LEMMA WalkKept == ASSUME IInv, NEW flags, Walk(flags) PROVE IInv'
<1>1. PICK r \in GPMF_Next(words, ms, flags) : ms' = r.ms /\ lost' = (r.ret = BAD)
  BY DEF Walk
<1>2. job.phase = "idle" /\ ~lost /\ UNCHANGED <<payload, job, edits, answer>>
  BY DEF Walk
<1>3. Kept(payload) /\ OnIts(ms)
  BY <1>2 DEF IInv
<1>4. /\ r.ms \in Stream /\ r.ms.bound = payload.longs
      /\ r.ret # BAD => OnIts(r.ms)
      /\ r.ret = BAD => ~Descending
  BY <1>3, PassOnIts
<1>5. lost' \in BOOLEAN /\ (lost' <=> r.ret = BAD)
  BY <1>1
<1>6. TypeOK'
  BY <1>1, <1>2, <1>4, <1>5 DEF IInv, TypeOK
<1>7. Kept(payload)' /\ (ms.bound = payload.longs)' /\ SearchSound'
  BY <1>1, <1>2, <1>3, <1>4 DEF SearchSound
<1>8. (lost \/ OnIts(ms))'
  BY <1>1, <1>2, <1>4, <1>5 DEF OnIts
<1>9. WalksOn'
  BY <1>2, <1>4, <1>5 DEF WalksOn, Descending, words
<1> QED
  BY <1>6, <1>7, <1>8, <1>9 DEF IInv

LEMMA ResetKept == ASSUME IInv, ResetState PROVE IInv'
<1>1. /\ job.phase = "idle" /\ ms' = Rewound(ms) /\ lost' = FALSE
      /\ UNCHANGED <<payload, job, edits, answer>>
  BY DEF ResetState
<1>2. Kept(payload) /\ ms \in Stream /\ ms.bound = payload.longs
  BY DEF IInv, TypeOK
<1>3. OnIts(Rewound(ms)) /\ Rewound(ms) \in Stream /\ Rewound(ms).bound = payload.longs
  BY <1>2, RewoundOnIts, RewoundUsable DEF Usable
<1>4. TypeOK'
  BY <1>1, <1>3 DEF IInv, TypeOK
<1>5. (lost \/ OnIts(ms))'
  BY <1>1, <1>3 DEF OnIts
<1> QED
  BY <1>1, <1>2, <1>3, <1>4, <1>5 DEF IInv, WalksOn, SearchSound

LEMMA StepKept == ASSUME IInv, [Next]_vars PROVE IInv'
<1>1. ASSUME NEW new \in News, ModifyNoRoom(new) PROVE IInv'
  <2>1. ~lost /\ edits < MaxEdits /\ End(BAD, payload)
    BY <1>1 DEF ModifyNoRoom, Called
  <2> QED
    BY <2>1, FailKept DEF Codes
<1>2. CASE UNCHANGED vars
  BY <1>2 DEF vars, IInv, TypeOK, Kept, OnIts, WalksOn, Descending, words, SearchSound
<1> QED
  BY <1>1, <1>2, HereKept, StartSearchKept, AheadKept, BackKept, BehindKept, AllKept,
     WalkKept, ResetKept DEF Next

THEOREM SpecKept == Spec => []IInv
<1>1. Init => IInv
  BY InitKept
<1>2. IInv /\ [Next]_vars => IInv'
  BY StepKept
<1> QED
  BY <1>1, <1>2, PTL DEF Spec

(* Whatever is modified and however the searches for it end, every variable *)
(* holds what it should: no search leaves the levels and no size underruns. *)
THEOREM ModifyTyped == Spec => []TypeOK
<1>1. IInv => TypeOK
  BY DEF IInv
<1> QED
  BY <1>1, SpecKept, PTL

(* A program that walks a payload it modifies never meets an error that the *)
(* payload as it was handed would not have given it.                        *)
THEOREM ModifiedWalksOn == Spec => []WalksOn
<1>1. IInv => WalksOn
  BY DEF IInv
<1> QED
  BY <1>1, SpecKept, PTL

-----------------------------------------------------------------------------
(* The bytes of what was written.                                           *)
LEMMA UnitOfElement ==
  ASSUME NEW type
  PROVE  Unit(type) = EndianSize(type)
BY DEF Unit, EndianSize, SizeofType

LEMMA StoredByte ==
  ASSUME NEW k \in Nat, NEW bytes \in {1, 2, 4}, NEW c \in 0..3
  PROVE  ByteOf(Stored(k, bytes), c) = 4 * k + Mirrored(c, bytes)
<1> DEFINE w == Stored(k, bytes)
<1>1. /\ w.ssize = k \div (MaxRepeat + 1) /\ w.rpt = k % (MaxRepeat + 1)
      /\ w.type = UnitType(bytes)
  BY DEF Stored
<1>2. (MaxRepeat + 1) * (k \div (MaxRepeat + 1)) + (k % (MaxRepeat + 1)) = k
  BY SMT DEF MaxRepeat
<1>3. SizeofType(UnitType(bytes)) = bytes
  BY DEF SizeofType, UnitType
<1> HIDE DEF w
<1> QED
  BY <1>1, <1>2, <1>3 DEF ByteOf, w

(* Byte b of the data is a byte of word b \div 4.                           *)
LEMMA SwappedByte ==
  ASSUME NEW b \in Nat, NEW e \in {1, 2, 4, 8}
  PROVE  ByteOf(Swapped(b \div 4, e), b % 4) = Mirrored(b, e)
<1> DEFINE k == b \div 4
           c == b % 4
           m == IF k % 2 = 0 THEN k + 1 ELSE k - 1
<1>1. k \in Nat /\ c \in 0..3 /\ b = 4 * k + c
  OBVIOUS
<1>2. CASE e = 8
  <2>1. m \in Nat
    BY <1>1
  <2>2. ByteOf(Stored(m, 4), c) = 4 * m + Mirrored(c, 4)
    BY <1>1, <2>1, StoredByte
  <2>3. 4 * m + Mirrored(c, 4) = Mirrored(b, 8)
    BY <1>1 DEF Mirrored
  <2> QED
    BY <1>2, <2>2, <2>3 DEF Swapped
<1>3. CASE e \in {1, 2, 4}
  <2>1. ByteOf(Stored(k, e), c) = 4 * k + Mirrored(c, e)
    BY <1>1, <1>3, StoredByte
  <2>2. 4 * k + Mirrored(c, e) = Mirrored(b, e)
    <3>1. CASE e = 1
      BY <1>1, <3>1 DEF Mirrored
    <3>2. CASE e = 2
      BY <1>1, <3>2 DEF Mirrored
    <3>3. CASE e = 4
      BY <1>1, <3>3 DEF Mirrored
    <3> QED
      BY <1>3, <3>1, <3>2, <3>3
  <2> QED
    BY <1>3, <2>1, <2>2 DEF Swapped
<1> QED
  BY <1>2, <1>3

(* Entries of data do not share words.                                      *)
LEMMA BodiesApart ==
  ASSUME NEW p, Outlined(p), NEW a \in p.items, ~IsNest(p, a),
         NEW i \in p.items, i # a, NEW j \in Body(p, a)
  PROVE  j # i /\ j # i + 1 /\ (~IsNest(p, i) => j \notin Body(p, i))
<1>1. /\ a \in Nat /\ i \in Nat /\ EndOf(p, a) \in Nat /\ EndOf(p, i) \in Nat
      /\ j \in (a + 2)..(EndOf(p, a) - 1)
  BY ItemFacts DEF Body
<1>2. i \notin Body(p, a) /\ i + 1 \notin Body(p, a) /\ i # a + 1 /\ a # i + 1
  BY HeadersApart
<1>3. ~IsNest(p, i) => a \notin Body(p, i)
  BY HeadersApart
<1>4. j # i /\ j # i + 1
  BY <1>2
<1>5. ASSUME ~IsNest(p, i), j \in Body(p, i) PROVE FALSE
  <2>1. a \notin (i + 2)..(EndOf(p, i) - 1) /\ i \notin (a + 2)..(EndOf(p, a) - 1)
    BY <1>2, <1>3, <1>5 DEF Body
  <2>2. j \in (i + 2)..(EndOf(p, i) - 1)
    BY <1>5 DEF Body
  <2> QED
    BY <1>1, <1>2, <2>1, <2>2
<1> QED
  BY <1>4, <1>5

LEMMA OverwrittenByType ==
  ASSUME NEW p, Outlined(p), NEW i \in p.items, NEW new, Fitting(p, i, new),
         NEW a \in p.items, ~IsNest(p, a),
         NEW j \in {a, a + 1} \union Body(p, a),
         Overwritten(p, i, new).words[j] # p.words[j]
  PROVE  IF Unit(TypeOf(Overwritten(p, i, new), a)) # 0
         THEN BigEndian(Overwritten(p, i, new), a)
         ELSE \A k \in Body(p, a) : Overwritten(p, i, new).words[k] = p.words[k]
<1> DEFINE q == Overwritten(p, i, new)
           e == EndianSize(new.type)
           n == DataLongs(new)
<1>1. /\ new \in Word /\ DataLongs(new) = SizeAt(p.words, i)
      /\ IsNest(p, i) <=> new.type = NEST
  BY DEF Fitting
<1>2. /\ q.words = [k \in 0..(p.longs - 1) |-> q.words[k]]
      /\ q.words[i] = [p.words[i] EXCEPT !.key = new.key]
      /\ q.words[i + 1] = [new EXCEPT !.key = p.words[i + 1].key]
      /\ \A k \in 0..(p.longs - 1) : k # i /\ k # i + 1 =>
           q.words[k] = IF k \in Body(p, i) /\ e # 0 THEN Swapped(k - i - 2, e) ELSE p.words[k]
  BY <1>1, OverwrittenWords
<1>3. /\ q.words[i + 1].type = new.type
      /\ q.words[i + 1].ssize = new.ssize /\ q.words[i + 1].rpt = new.rpt
  BY OverwrittenHeaders
<1>4. /\ p.longs \in Nat /\ i \in Nat /\ a \in Nat
      /\ EndOf(p, i) = i + 2 + n /\ EndOf(p, i) <= p.longs /\ n \in Nat
      /\ EndOf(p, a) <= p.longs /\ EndOf(p, a) \in Nat
  BY <1>1, ItemFacts
<1>5. e # 0 => ~IsNest(p, i)
  <2>1. EndianSize(NEST) = 0
    BY DEF EndianSize, NEST
  <2> QED
    BY <1>1, <2>1
<1>6. a = i
  <2> SUFFICES ASSUME a # i PROVE FALSE
    OBVIOUS
  <2>1. j \in 0..(p.longs - 1)
    <3>1. a + 1 < p.longs
      BY ItemFacts
    <3> QED
      BY <1>4, <3>1 DEF Body
  <2>2. j # i /\ j # i + 1 /\ ~(j \in Body(p, i) /\ e # 0)
    <3>1. CASE j \in Body(p, a)
      BY <1>5, <3>1, BodiesApart
    <3>2. CASE j \in {a, a + 1}
      <4>1. a # i + 1 /\ i # a + 1
        BY HeadersApart
      <4>2. e # 0 => a \notin Body(p, i) /\ a + 1 \notin Body(p, i)
        BY <1>5, HeadersApart
      <4> HIDE DEF e
      <4> QED
        BY <1>4, <3>2, <4>1, <4>2
    <3> QED
      BY <3>1, <3>2
  <2>3. q.words[j] = p.words[j]
    <3> HIDE DEF q, e
    <3> QED
      BY <1>2, <2>1, <2>2
  <2> QED
    BY <2>3
<1>7. /\ Unit(TypeOf(q, a)) = e
      /\ e # 0 => e \in {1, 2, 4, 8} /\ Unit(new.type) = e
  BY <1>3, <1>6, EndianSizes, UnitOfElement DEF TypeOf
<1>8. new.ssize \in Nat /\ new.rpt \in Nat /\ new.ssize * new.rpt \in Nat
  <2>1. new.ssize \in Nat /\ new.rpt \in Nat
    BY <1>1 DEF Word
  <2> QED
    BY <2>1
<1> DEFINE bytes == new.ssize * new.rpt
<1>9. n = (bytes + 3) \div 4
  BY DEF DataLongs
<1> HIDE DEF q, e, n, bytes
<1>10. ASSUME NEW b \in 0..(bytes - 1), e # 0
       PROVE  ByteOf(q.words[i + 2 + b \div 4], b % 4) = Mirrored(b, e)
  <2> DEFINE k == b \div 4
             x == i + 2 + k
  <2>1. b \in Nat /\ k \in Nat /\ k < n
    BY <1>8, <1>9 DEF bytes
  <2> HIDE DEF k
  <2>2. x \in 0..(p.longs - 1) /\ x \in Body(p, i) /\ x # i /\ x # i + 1 /\ x - i - 2 = k
    BY <1>4, <2>1 DEF Body
  <2> HIDE DEF x
  <2>3. q.words[x] = Swapped(k, e)
    BY <1>2, <1>10, <2>2
  <2> QED
    BY <1>7, <1>10, <2>1, <2>3, SwappedByte DEF k, x
<1>11. e # 0 => BigEndian(q, a)
  BY <1>3, <1>6, <1>7, <1>10 DEF BigEndian, bytes
<1>12. ASSUME e = 0, NEW k \in Body(p, a) PROVE q.words[k] = p.words[k]
  <2>1. k \in 0..(p.longs - 1) /\ k # i /\ k # i + 1
    BY <1>4, <1>6 DEF Body
  <2> QED
    BY <1>2, <1>12, <2>1
<1>13. IF e # 0 THEN BigEndian(q, a) ELSE \A k \in Body(p, a) : q.words[k] = p.words[k]
  BY <1>11, <1>12
<1> QED
  BY <1>7, <1>13 DEF q

(* What a step leaves of the payload.                                       *)
LEMMA StepWrites ==
  ASSUME IInv, Next
  PROVE  \/ payload' = payload
         \/ \E i \in payload.items, new \in News :
              Fitting(payload, i, new) /\ payload' = Overwritten(payload, i, new)
<1>1. ASSUME NEW i \in payload.items, NEW new \in News, KeyOf(payload, i) \in FindKeys,
             Replace(i, new)
      PROVE  \/ payload' = payload
             \/ Fitting(payload, i, new) /\ payload' = Overwritten(payload, i, new)
  BY <1>1, FoundFits DEF Replace, End, IInv
<1>2. ASSUME job.phase # "idle", NEW flags, NEW fail, FindNextTurn(flags, fail),
             fail => payload' = payload
      PROVE  \/ payload' = payload
             \/ \E i \in payload.items, new \in News :
                  Fitting(payload, i, new) /\ payload' = Overwritten(payload, i, new)
  <2>1. Kept(payload) /\ OnIts(job.fs) /\ job.orig \in FindKeys /\ job.new \in News
    BY <1>2, Searches
  <2>2. PICK r \in GPMF_Next(words, job.fs, flags) :
          IF r.ret = OK /\ words[r.ms.pos].key = job.orig THEN Replace(r.ms.pos, job.new)
          ELSE IF r.ret \in {OK, AGAIN} THEN Search(job.phase, r.ms)
          ELSE fail
    BY <1>2 DEF FindNextTurn
  <2>3. r.ret = OK => r.ms.pos \in payload.items
    BY <2>1, PassOnIts
  <2>4. CASE r.ret = OK /\ words[r.ms.pos].key = job.orig
    BY <1>1, <2>1, <2>2, <2>3, <2>4 DEF KeyOf, words
  <2>5. CASE ~(r.ret = OK /\ words[r.ms.pos].key = job.orig)
    BY <1>2, <2>2, <2>5 DEF Search
  <2> QED
    BY <2>4, <2>5
<1>3. CASE Ahead
  BY <1>2, <1>3 DEF Ahead, Search
<1>4. CASE All
  BY <1>2, <1>4 DEF All, End
<1>5. CASE Behind
  <2>1. /\ Kept(payload) /\ OnIts(job.fs) /\ job.orig \in FindKeys /\ job.new \in News
        /\ job.mark <= payload.longs /\ job.fs.pos \in Nat /\ payload.longs \in Nat
        /\ job.mark \in Nat
    <3>1. job.phase \in {"behind", "tail"} /\ job.phase # "idle"
      BY <1>5 DEF Behind
    <3> QED
      BY <3>1, Searches
      DEF IInv, SearchSound, TypeOK, Job, OnIts, Usable, Stream, Kept, Outlined, PayloadShape
  <2>2. ASSUME ~(job.mark <= job.fs.pos), words[job.fs.pos].key = job.orig,
               Replace(job.fs.pos, job.new)
        PROVE  \E i \in payload.items, new \in News :
                 \/ payload' = payload
                 \/ Fitting(payload, i, new) /\ payload' = Overwritten(payload, i, new)
    <3>1. job.fs.pos \in payload.items
      <4>1. job.fs.pos # payload.longs
        BY <2>1, <2>2
      <4> QED
        BY <2>1, <4>1 DEF OnIts, OnKlv
    <3> QED
      BY <1>1, <2>1, <2>2, <3>1 DEF KeyOf, words
  <2>3. \/ FromStart
        \/ /\ ~(job.mark <= job.fs.pos) /\ words[job.fs.pos].key = job.orig
           /\ Replace(job.fs.pos, job.new)
        \/ \E r \in GPMF_Next(words, job.fs, {TOLERANT}) :
             CASE r.ret = OK    -> Search("behind", r.ms)
               [] r.ret = AGAIN -> Search("tail", r.ms)
               [] OTHER         -> FromStart
    BY <1>5 DEF Behind
  <2>4. ASSUME NEW r, CASE r.ret = OK    -> Search("behind", r.ms)
                        [] r.ret = AGAIN -> Search("tail", r.ms)
                        [] OTHER         -> FromStart
        PROVE  payload' = payload
    BY <2>4 DEF Search, FromStart, OK, AGAIN
  <2> QED
    BY <2>2, <2>3, <2>4 DEF FromStart, Search
<1>6. ASSUME NEW orig \in FindKeys, NEW new \in News, ModifyHere(orig, new)
      PROVE  \/ payload' = payload
             \/ \E i \in payload.items : Fitting(payload, i, new) /\ payload' = Overwritten(payload, i, new)
  <2>1. ms.pos \in payload.items /\ KeyOf(payload, ms.pos) = orig /\ Replace(ms.pos, new)
    BY <1>6, HereFound
  <2> QED
    BY <1>1, <1>6, <2>1
<1>7. ASSUME NEW new \in News, ModifyNoRoom(new) PROVE payload' = payload
  BY <1>7 DEF ModifyNoRoom, End
<1>8. ASSUME NEW orig, NEW new, StartSearch(orig, new) PROVE payload' = payload
  BY <1>8 DEF StartSearch
<1>9. ASSUME Back PROVE payload' = payload
  BY <1>9 DEF Back, FromStart, Search
<1>10. ASSUME NEW flags, Walk(flags) PROVE payload' = payload
  BY <1>10 DEF Walk
<1>11. ASSUME ResetState PROVE payload' = payload
  BY <1>11 DEF ResetState
<1>12. CASE \E new \in News, orig \in FindKeys :
             ModifyNoRoom(new) \/ ModifyHere(orig, new) \/ StartSearch(orig, new)
  BY <1>6, <1>7, <1>8, <1>12
<1>13. CASE Back \/ ResetState \/ \E flags \in {{RECURSE}, {}} : Walk(flags)
  BY <1>9, <1>10, <1>11, <1>13
<1> QED
  BY <1>3, <1>4, <1>5, <1>12, <1>13 DEF Next

(* Every step stores by the type of what it writes: an entry of data that a *)
(* step changes any word of, its header or its body, is the one that it     *)
(* overwrites.  Its body is then the new data, every element with its most  *)
(* significant byte first, or, for a type that has no unit, the old data.   *)
THEOREM ModifyStores == Spec => StoredByType
<1> DEFINE ByType(a) == IF Unit(TypeOf(payload', a)) # 0 THEN BigEndian(payload', a)
                        ELSE Untouched(a)
<1>1. ASSUME IInv, [Next]_vars
      PROVE  [\A i \in payload.items : ~IsNest(payload, i) /\ Rewritten(i) => ByType(i)]_vars
  <2>1. CASE payload' = payload
    BY <2>1 DEF words, Rewritten
  <2>2. ASSUME NEW i \in payload.items, NEW new \in News,
               Fitting(payload, i, new), payload' = Overwritten(payload, i, new)
        PROVE  \A a \in payload.items : ~IsNest(payload, a) /\ Rewritten(a) => ByType(a)
    <3>1. Outlined(payload)
      BY <1>1 DEF IInv, Kept
    <3>2. words' = Overwritten(payload, i, new).words /\ words = payload.words
      BY <2>2 DEF words
    <3> QED
      BY <2>2, <3>1, <3>2, OverwrittenByType DEF Rewritten, Untouched
  <2>3. CASE Next
    BY <2>1, <2>2, <2>3, <1>1, StepWrites
  <2>4. CASE UNCHANGED vars
    BY <2>4, <2>1 DEF vars
  <2> QED
    BY <1>1, <2>3, <2>4
<1> QED
  BY <1>1, SpecKept, PTL DEF Spec, StoredByType

-----------------------------------------------------------------------------
(***************************************************************************)
(* The search finds the entry that is meant.  What a phase has looked at   *)
(* holds no entry that is looked for: ahead, all up to the place of fs in  *)
(* the nest; behind, all of the nest before it; from the start, all of the *)
(* payload up to it.                                                       *)
(***************************************************************************)
NotHere(orig, new) ==
  /\ ms.pos \in payload.items /\ Room(new)
  /\ ~(KeyOf(payload, ms.pos) = orig /\ OfSize(ms.pos, new))

LookingAhead ==
  /\ ms.pos <= job.fs.pos
  /\ \/ job.fs.pos \in Siblings(ms.pos)
     \/ IsDevice(payload, ms.pos) /\ job.fs.pos = payload.longs
  /\ \A j \in AheadOf(ms.pos, job.orig) : job.fs.pos < j

LookingBehind ==
  /\ payload.lev[ms.pos] > 0 /\ job.mark = ms.pos
  /\ job.fs.pos \in Siblings(ms.pos)
  /\ job.phase = "behind" =>
       /\ Known(payload, job.fs.pos) \/ job.fs.pos = payload.up[ms.pos] + 2
       /\ \A j \in BehindOf(ms.pos, job.orig) : job.fs.pos <= j
  /\ job.phase = "tail" => \A j \in BehindOf(ms.pos, job.orig) : job.fs.pos < j

LookingAtAll ==
  /\ BehindOf(ms.pos, job.orig) = {}
  /\ \A j \in Found(job.orig) : job.fs.pos < j

SearchRight ==
  job.phase # "idle" =>
    /\ NotHere(job.orig, job.new)
    /\ job.phase = "ahead" => LookingAhead
    /\ job.phase # "ahead" => AheadOf(ms.pos, job.orig) = {}
    /\ job.phase = "back" => job.fs = ms
    /\ job.phase \in {"behind", "tail"} => LookingBehind
    /\ job.phase = "all" => LookingAtAll

(* An entry that follows another in its nest starts where that ends, or     *)
(* later; and then that is not the last of the nest.                        *)
LEMMA LaterSibling ==
  ASSUME NEW p, Outlined(p), NEW i \in p.items, ~IsDevice(p, i),
         NEW j \in p.items, ~IsDevice(p, j), p.up[j] = p.up[i], i < j
  PROVE  EndOf(p, i) <= j /\ EndOf(p, i) # EndOf(p, p.up[i])
<1>1. /\ i \in Nat /\ j \in Nat /\ p.up[i] \in Nat /\ p.up[i] + 2 <= i
      /\ EndOf(p, i) \in Nat /\ EndOf(p, j) \in Nat /\ EndOf(p, p.up[i]) \in Nat
      /\ j + 2 <= EndOf(p, j) /\ EndOf(p, j) <= EndOf(p, p.up[i])
  BY ItemFacts, InnerFacts
<1>2. EndOf(p, i) <= j
  <2>1. ASSUME j < EndOf(p, i) PROVE p.up[j] \in i..(j - 1)
    BY <2>1 DEF Outlined, Sound, Laminar
  <2> QED
    BY <1>1, <2>1
<1> QED
  BY <1>1, <1>2

(* A tolerant pass within a nest.                                           *)
LEMMA NestPass ==
  ASSUME Kept(payload), NEW s, OnIts(s), s.pos \in payload.items,
         ~IsDevice(payload, s.pos), NEW r \in GPMF_Next(words, s, {TOLERANT})
  PROVE  LET next == EndOf(payload, s.pos)
         IN \/ r.ret = LAST /\ next = EndOf(payload, payload.up[s.pos])
            \/ /\ r.ret \in {OK, AGAIN} /\ r.ms.pos = next
               /\ next \in payload.items /\ ~IsDevice(payload, next)
               /\ payload.up[next] = payload.up[s.pos]
               /\ r.ret = OK <=> Known(payload, next)
<1> DEFINE next  == EndOf(payload, s.pos)
           flags == {TOLERANT}
<1>1. Outlined(payload) /\ Usable(s) /\ OnKlv(payload, s) /\ words = payload.words
  BY DEF Kept, OnIts, words
<1>2. RECURSE \notin flags /\ TOLERANT \in flags
  BY DEF RECURSE, TOLERANT
<1>3. s.pos # payload.longs
  BY <1>1, ItemFacts
<1>4. Into(payload, s.pos, flags) = next /\ ~Refused(payload, s.pos, flags)
  BY <1>2 DEF Into, Refused
<1>5. \/ LastOfNest(payload, s.pos, flags) /\ r = Result(LAST, s)
      \/ /\ ~LastOfNest(payload, s.pos, flags)
         /\ r.ret = Verdict(payload, next, flags) /\ r.ms.pos = next
  BY <1>1, <1>3, <1>4, NextOnKlv
<1> HIDE DEF flags
<1>6. CASE LastOfNest(payload, s.pos, flags) /\ r = Result(LAST, s)
  BY <1>6 DEF LastOfNest, Result
<1>7. CASE /\ ~LastOfNest(payload, s.pos, flags)
           /\ r.ret = Verdict(payload, next, flags) /\ r.ms.pos = next
  <2>1. next # EndOf(payload, payload.up[s.pos])
    BY <1>2, <1>7 DEF LastOfNest
  <2>2. next \in payload.items /\ payload.up[next] = payload.up[s.pos] /\ ~IsDevice(payload, next)
    BY <1>1, <2>1, InnerFacts
  <2>3. next # payload.longs
    BY <1>1, <2>2, ItemFacts
  <2> HIDE DEF next
  <2> QED
    BY <1>2, <1>7, <2>2, <2>3 DEF Verdict, OK, AGAIN, next
<1> QED
  BY <1>5, <1>6, <1>7

(* A tolerant pass into what it is on, from the first word to the last.     *)
LEMMA WholePass ==
  ASSUME Kept(payload), NEW s, OnIts(s), NEW r \in GPMF_Next(words, s, {RECURSE, TOLERANT})
  PROVE  \/ /\ r.ret = BUFFER_END
            /\ \A j \in payload.items : ~(s.pos < j)
         \/ /\ r.ret \in {OK, AGAIN} /\ r.ms.pos \in payload.items
            /\ \A j \in payload.items : s.pos < j => r.ms.pos <= j
            /\ r.ret = OK <=> Known(payload, r.ms.pos)
            /\ s.pos < r.ms.pos
<1> DEFINE flags == {RECURSE, TOLERANT}
           there == Into(payload, s.pos, flags)
<1>1. Outlined(payload) /\ Usable(s) /\ OnKlv(payload, s) /\ words = payload.words
  BY DEF Kept, OnIts, words
<1>2. RECURSE \in flags /\ TOLERANT \in flags
  OBVIOUS
<1>3. \/ s.pos = payload.longs /\ r = Result(BUFFER_END, s)
      \/ /\ s.pos \in payload.items
         /\ r.ret = Verdict(payload, there, flags) /\ r.ms.pos = there /\ OnKlv(payload, r.ms)
  <2>1. ~LastOfNest(payload, s.pos, flags) /\ ~Refused(payload, s.pos, flags)
    BY <1>2 DEF LastOfNest, Refused
  <2> QED
    BY <1>1, <2>1, NextOnKlv
<1> HIDE DEF flags, there
<1>4. payload.longs \in Nat /\ \A j \in payload.items : j \in Nat /\ j < payload.longs
  BY <1>1 DEF Outlined, PayloadShape
<1>5. CASE s.pos = payload.longs /\ r = Result(BUFFER_END, s)
  BY <1>4, <1>5 DEF Result
<1>6. CASE /\ s.pos \in payload.items
           /\ r.ret = Verdict(payload, there, flags) /\ r.ms.pos = there /\ OnKlv(payload, r.ms)
  <2>1. s.pos < there /\ \A j \in payload.items : s.pos < j => there <= j
    <3>1. EndOf(payload, s.pos) \in Nat /\ s.pos + 2 <= EndOf(payload, s.pos)
      BY <1>1, <1>6, ItemFacts
    <3>2. ASSUME NEW j \in payload.items, s.pos < j PROVE there <= j
      <4>1. /\ j # s.pos + 1
            /\ ~IsNest(payload, s.pos) => j \notin (s.pos + 2)..(EndOf(payload, s.pos) - 1)
        BY <1>1, <1>4, <1>6, <3>2, HeadersApart DEF Body
      <4> QED
        BY <1>2, <1>4, <1>6, <3>1, <3>2, <4>1 DEF Into, there
    <3> QED
      BY <1>4, <1>6, <3>1, <3>2 DEF Into, there
  <2>2. there \in payload.items \/ there = payload.longs
    BY <1>6 DEF OnKlv
  <2>3. CASE there = payload.longs
    BY <1>4, <1>6, <2>1, <2>3 DEF Verdict
  <2>4. CASE there \in payload.items
    <3>1. there # payload.longs
      BY <1>4, <2>4
    <3> QED
      BY <1>2, <1>6, <2>1, <2>4, <3>1 DEF Verdict, OK, AGAIN
  <2> QED
    BY <2>2, <2>3, <2>4
<1> QED
  BY <1>3, <1>5, <1>6

-----------------------------------------------------------------------------
(* The entry that is meant, by where the search has come to.                *)
LEMMA LeastIs ==
  ASSUME NEW S, \A y \in S : y \in Nat, NEW x \in S, \A y \in S : x <= y
  PROVE  Min(S) = x
<1>1. \A z \in S : (\A y \in S : z <= y) => z = x
  BY SMT
<1> QED
  BY <1>1 DEF Min

LEMMA TargetAhead ==
  ASSUME Kept(payload), NEW orig, NEW new, NotHere(orig, new),
         NEW x \in AheadOf(ms.pos, orig), \A j \in AheadOf(ms.pos, orig) : x <= j
  PROVE  Targets(ms.pos, orig, new) = {x}
<1>1. \A j \in AheadOf(ms.pos, orig) : j \in Nat
  BY ItemFacts DEF AheadOf, Siblings, Kept
<1>2. Min(AheadOf(ms.pos, orig)) = x
  BY <1>1, LeastIs
<1> QED
  BY <1>2 DEF Targets, NotHere

LEMMA TargetBehind ==
  ASSUME Kept(payload), NEW orig, NEW new, NotHere(orig, new), AheadOf(ms.pos, orig) = {},
         NEW x \in BehindOf(ms.pos, orig), \A j \in BehindOf(ms.pos, orig) : x <= j
  PROVE  Targets(ms.pos, orig, new) = {x}
<1>1. \A j \in BehindOf(ms.pos, orig) : j \in Nat
  BY ItemFacts DEF BehindOf, Siblings, Kept
<1>2. Min(BehindOf(ms.pos, orig)) = x
  BY <1>1, LeastIs
<1> QED
  BY <1>2 DEF Targets, NotHere

LEMMA TargetOfAll ==
  ASSUME Kept(payload), NEW orig, NEW new, NotHere(orig, new), AheadOf(ms.pos, orig) = {},
         BehindOf(ms.pos, orig) = {},
         NEW x \in Found(orig), \A j \in Found(orig) : x <= j
  PROVE  Targets(ms.pos, orig, new) = {x}
<1>1. \A j \in Found(orig) : j \in Nat
  BY ItemFacts DEF Found, WithKey, Kept
<1>2. Min(Found(orig)) = x
  BY <1>1, LeastIs
<1> QED
  BY <1>2 DEF Targets, NotHere

LEMMA FitsIsOfSize ==
  ASSUME Kept(payload), NEW i \in payload.items, NEW new \in News
  PROVE  WillFit(i, new) <=> OfSize(i, new)
<1>1. DataLongs(new) \in Nat
  BY NewsAssumption, DataLongsNat
<1>2. i \in Nat /\ SizeAt(payload.words, i) \in Nat
      /\ EndOf(payload, i) = i + 2 + SizeAt(payload.words, i)
  BY ItemFacts DEF Kept
<1> QED
  BY <1>1, <1>2 DEF WillFit, OfSize, words

LEMMA ReplaceFulfils ==
  ASSUME Kept(payload), NEW orig, NEW new \in News, Room(new), NEW i \in payload.items,
         Targets(ms.pos, orig, new) = {i}, Replace(i, new)
  PROVE  Fulfilled(orig, new)
<1>1. WillFit(i, new) <=> OfSize(i, new)
  BY FitsIsOfSize
<1>2. Min({i}) = i
  <2>1. i \in Nat
    BY ItemFacts DEF Kept
  <2>2. /\ \A y \in {i} : y \in Nat
        /\ \A y \in {i} : i <= y
        /\ i \in {i}
    BY <2>1
  <2> QED
    BY <2>2, LeastIs
<1>3. CASE WillFit(i, new)
  <2>1. {k \in {i} : OfSize(k, new)} = {i}
    BY <1>1, <1>3
  <2>2. answer' = OK /\ payload' = Overwritten(payload, i, new)
    BY <1>3 DEF Replace, End
  <2> QED
    BY <1>2, <2>1, <2>2 DEF Fulfilled
<1>4. CASE ~WillFit(i, new)
  <2>1. {k \in {i} : OfSize(k, new)} = {}
    BY <1>1, <1>4
  <2>2. answer' = BAD /\ payload' = payload
    BY <1>4 DEF Replace, End
  <2> QED
    BY <2>1, <2>2 DEF Fulfilled
<1> QED
  BY <1>3, <1>4

LEMMA NothingFulfils ==
  ASSUME NEW orig, NEW new, Room(new), Targets(ms.pos, orig, new) = {}, End(FIND, payload)
  PROVE  Fulfilled(orig, new)
<1>1. {k \in {} : OfSize(k, new)} = {}
  OBVIOUS
<1>2. answer' = FIND /\ payload' = payload
  BY DEF End
<1> QED
  BY <1>1, <1>2 DEF Fulfilled

-----------------------------------------------------------------------------
(* The two things every step does for the promise: a search that goes on    *)
(* has missed nothing, and a modification that ends has done what was said. *)
SaidAndDone ==
  edits' # edits =>
    IF job.phase # "idle" THEN Fulfilled(job.orig, job.new)
    ELSE \E orig \in FindKeys, new \in News : Fulfilled(orig, new)

Promised == SearchRight' /\ SaidAndDone

LEMMA EndPromised ==
  ASSUME IInv, NEW orig, NEW new, NEW code, NEW p, End(code, p), Fulfilled(orig, new),
         job.phase # "idle" => orig = job.orig /\ new = job.new,
         job.phase = "idle" => orig \in FindKeys /\ new \in News
  PROVE  Promised
<1>1. job' = Idle /\ Idle.phase = "idle"
  BY IdleJob DEF End
<1>2. SearchRight'
  BY <1>1 DEF SearchRight
<1>3. SaidAndDone
  BY DEF SaidAndDone
<1> QED
  BY <1>2, <1>3 DEF Promised

(* A step of a search changes its place and its phase.                      *)
LEMMA SearchFrame ==
  ASSUME IInv, NEW phase, NEW fs, Search(phase, fs)
  PROVE  /\ job'.phase = phase /\ job'.fs = fs /\ job'.orig = job.orig /\ job'.new = job.new
         /\ job'.mark = job.mark
         /\ payload' = payload /\ ms' = ms
         /\ SaidAndDone
         /\ \A o, n : NotHere(o, n)' <=> NotHere(o, n)
         /\ \A i, o : AheadOf(i, o)' = AheadOf(i, o)
         /\ \A i, o : BehindOf(i, o)' = BehindOf(i, o)
         /\ \A o : Found(o)' = Found(o)
         /\ \A i : Siblings(i)' = Siblings(i)
<1>1. job' = [job EXCEPT !.phase = phase, !.fs = fs] /\ job \in Job
  BY DEF Search, IInv, TypeOK
<1>2. payload' = payload /\ ms' = ms /\ edits' = edits
  BY DEF Search
<1>3. /\ job'.phase = phase /\ job'.fs = fs /\ job'.orig = job.orig /\ job'.new = job.new
      /\ job'.mark = job.mark
  BY <1>1 DEF Job
<1> QED
  BY <1>2, <1>3 DEF SaidAndDone, NotHere, Room, OfSize, AheadOf, BehindOf, Siblings, Found, WithKey

(* The nest that the stream is in.                                          *)
LEMMA NestFacts ==
  ASSUME Kept(payload), OnIts(ms), ms.pos \in payload.items
  PROVE  /\ ms.pos \in Nat /\ payload.up[ms.pos] \in Nat
         /\ ms.nest_level = payload.lev[ms.pos]
         /\ ms.nest_level # 0 =>
              /\ ~IsDevice(payload, ms.pos) /\ ms.nest_level > 0
              /\ First(ms) = payload.up[ms.pos] + 2
              /\ First(ms) \in Siblings(ms.pos)
              /\ \A j \in Siblings(ms.pos) : First(ms) <= j
<1>1. Outlined(payload) /\ Usable(ms) /\ OnKlv(payload, ms)
  BY DEF Kept, OnIts
<1>2. IF IsDevice(payload, ms.pos) THEN OnDevice(payload, ms) ELSE InNest(payload, ms)
  BY <1>1, OnEntry
<1>3. ms.pos \in Nat /\ payload.up[ms.pos] \in Nat /\ ms.nest_level \in Nat
  BY <1>1, ItemFacts, UsableFields
<1>4. ms.nest_level = payload.lev[ms.pos]
  BY <1>1, <1>2, DeviceFacts DEF OnDevice, InNest
<1>5. ASSUME ms.nest_level # 0
      PROVE  /\ ~IsDevice(payload, ms.pos) /\ ms.nest_level > 0
             /\ First(ms) = payload.up[ms.pos] + 2
             /\ First(ms) \in Siblings(ms.pos)
             /\ \A j \in Siblings(ms.pos) : First(ms) <= j
  <2>1. ~IsDevice(payload, ms.pos) /\ InNest(payload, ms) /\ ms.nest_level > 0
    BY <1>2, <1>3, <1>5 DEF OnDevice
  <2>2. First(ms) = payload.up[ms.pos] + 2
    BY <2>1 DEF InNest, First
  <2>3. First(ms) \in Siblings(ms.pos)
    BY <1>1, <2>1, <2>2, FirstOfNest DEF Siblings
  <2>4. ASSUME NEW j \in Siblings(ms.pos) PROVE First(ms) <= j
    <3>1. j \in payload.items /\ ~IsDevice(payload, j) /\ payload.up[j] = payload.up[ms.pos]
      BY <2>1 DEF Siblings
    <3> QED
      BY <1>1, <2>2, <3>1, InnerFacts
  <2> QED
    BY <2>1, <2>2, <2>3, <2>4
<1> QED
  BY <1>3, <1>4, <1>5

LEMMA ReplacePromised ==
  ASSUME IInv, NEW orig, NEW new \in News, Room(new), NEW i \in payload.items,
         Targets(ms.pos, orig, new) = {i}, Replace(i, new),
         job.phase # "idle" => orig = job.orig /\ new = job.new,
         job.phase = "idle" => orig \in FindKeys
  PROVE  Promised
<1>1. Fulfilled(orig, new)
  BY ReplaceFulfils DEF IInv
<1>2. PICK code, p : End(code, p)
  BY DEF Replace
<1> QED
  BY <1>1, <1>2, EndPromised

(* No entry of a device's row is looked for, and a pass stays in the row.   *)
LEMMA DevicesPass ==
  ASSUME Kept(payload), NEW s, OnIts(s), NEW orig \in FindKeys,
         s.pos = payload.longs \/ (s.pos \in payload.items /\ IsDevice(payload, s.pos)),
         NEW r \in GPMF_Next(words, s, {TOLERANT}), r.ret \in {OK, AGAIN}
  PROVE  /\ r.ms.pos \in payload.items /\ IsDevice(payload, r.ms.pos)
         /\ s.pos <= r.ms.pos /\ words[r.ms.pos].key # orig
<1> DEFINE flags == {TOLERANT}
           there == Into(payload, s.pos, flags)
<1>1. Outlined(payload) /\ Usable(s) /\ OnKlv(payload, s) /\ words = payload.words
  BY DEF Kept, OnIts, words
<1>2. RECURSE \notin flags /\ TOLERANT \in flags
  BY DEF RECURSE, TOLERANT
<1>3. /\ s.pos \in payload.items
      /\ r.ret = Verdict(payload, there, flags) /\ r.ms.pos = there
  <2>1. r.ret # BUFFER_END /\ r.ret # LAST /\ r.ret # BAD
    BY DEF OK, AGAIN, BUFFER_END, LAST, BAD
  <2>2. r # Result(BUFFER_END, s) /\ r # Result(LAST, s)
    BY <2>1 DEF Result
  <2> QED
    BY <1>1, <2>1, <2>2, NextOnKlv
<1>4. there = EndOf(payload, s.pos)
  BY <1>2 DEF Into
<1>5. IsDevice(payload, s.pos)
  BY <1>1, <1>3, ItemFacts
<1>6. there # payload.longs
  BY <1>3 DEF Verdict, OK, AGAIN, BUFFER_END
<1>7. there \in payload.items /\ IsDevice(payload, there)
  BY <1>1, <1>3, <1>4, <1>5, <1>6, DeviceFacts
<1>8. payload.words[there].key = DEVC /\ orig # DEVC
  BY <1>1, <1>7, DeviceFacts, NewsAssumption
<1>9. s.pos <= there
  <2>1. s.pos \in Nat /\ EndOf(payload, s.pos) \in Nat /\ s.pos + 2 <= EndOf(payload, s.pos)
    BY <1>1, <1>3, ItemFacts
  <2> QED
    BY <1>4, <2>1
<1> QED
  BY <1>1, <1>3, <1>7, <1>8, <1>9

LEMMA DevicesNoneAhead ==
  ASSUME Kept(payload), NEW orig \in FindKeys, IsDevice(payload, ms.pos)
  PROVE  AheadOf(ms.pos, orig) = {}
<1>1. ASSUME NEW j \in Siblings(ms.pos) PROVE j \notin WithKey(orig)
  <2>1. j \in payload.items /\ IsDevice(payload, j)
    BY DEF Siblings
  <2>2. KeyOf(payload, j) = DEVC
    BY <2>1, DeviceFacts DEF KeyOf, Kept
  <2> QED
    BY <2>2, NewsAssumption DEF WithKey
<1> QED
  BY <1>1 DEF AheadOf, Found

(* What a search that is running knows.                                     *)
LEMMA Looking ==
  ASSUME IInv, SearchRight, job.phase # "idle"
  PROVE  /\ Kept(payload) /\ Outlined(payload) /\ OnIts(ms) /\ OnIts(job.fs)
         /\ job.orig \in FindKeys /\ job.new \in News
         /\ NotHere(job.orig, job.new) /\ ms.pos \in payload.items /\ Room(job.new)
         /\ words = payload.words
BY Searches DEF SearchRight, NotHere, Kept, words

LEMMA AheadPromised == ASSUME IInv, SearchRight, Ahead PROVE Promised
<1> DEFINE fs == job.fs
           ahead == AheadOf(ms.pos, job.orig)
<1>1. job.phase = "ahead" /\ job.phase # "idle"
  BY DEF Ahead
<1>2. /\ Kept(payload) /\ Outlined(payload) /\ OnIts(ms) /\ OnIts(job.fs)
      /\ job.orig \in FindKeys /\ job.new \in News
      /\ NotHere(job.orig, job.new) /\ ms.pos \in payload.items /\ Room(job.new)
      /\ words = payload.words
  BY <1>1, Looking
<1>3. /\ ms.pos <= fs.pos
      /\ fs.pos \in Siblings(ms.pos) \/ (IsDevice(payload, ms.pos) /\ fs.pos = payload.longs)
      /\ \A j \in ahead : fs.pos < j
  BY <1>1 DEF SearchRight, LookingAhead
<1>4. ASSUME ahead = {}, Search("back", ms) PROVE Promised
  BY <1>2, <1>4, SearchFrame DEF Promised, SearchRight
<1>5. ASSUME NEW s, Search("ahead", s), ms.pos <= s.pos, s.pos \in Siblings(ms.pos),
             \A j \in ahead : s.pos < j
      PROVE  Promised
  <2>1. /\ job'.phase = "ahead" /\ job'.fs = s /\ job'.orig = job.orig /\ job'.new = job.new
        /\ payload' = payload /\ ms' = ms /\ SaidAndDone
        /\ NotHere(job.orig, job.new)' <=> NotHere(job.orig, job.new)
        /\ AheadOf(ms.pos, job.orig)' = AheadOf(ms'.pos, job'.orig)
        /\ Siblings(ms.pos)' = Siblings(ms'.pos)
    BY <1>5, SearchFrame
  <2> QED
    BY <1>2, <1>5, <2>1 DEF Promised, SearchRight, LookingAhead
<1>6. PICK r \in GPMF_Next(words, fs, {TOLERANT}) :
        IF r.ret = OK /\ words[r.ms.pos].key = job.orig THEN Replace(r.ms.pos, job.new)
        ELSE IF r.ret \in {OK, AGAIN} THEN Search("ahead", r.ms)
        ELSE Search("back", ms)
  BY <1>1 DEF Ahead, FindNextTurn
<1>7. CASE IsDevice(payload, ms.pos)
  <2>1. ahead = {}
    BY <1>2, <1>7, DevicesNoneAhead
  <2>2. fs.pos = payload.longs \/ (fs.pos \in payload.items /\ IsDevice(payload, fs.pos))
    BY <1>3, <1>7 DEF Siblings
  <2>3. CASE r.ret \in {OK, AGAIN}
    <3>1. /\ r.ms.pos \in payload.items /\ IsDevice(payload, r.ms.pos)
          /\ fs.pos <= r.ms.pos /\ words[r.ms.pos].key # job.orig
      BY <1>2, <2>2, <2>3, DevicesPass
    <3>2. ms.pos \in Nat /\ fs.pos \in Nat /\ r.ms.pos \in Nat
      BY <1>2, <3>1, ItemFacts, UsableFields DEF OnIts
    <3>3. ms.pos <= r.ms.pos /\ r.ms.pos \in Siblings(ms.pos)
      BY <1>3, <1>7, <3>1, <3>2 DEF Siblings
    <3> QED
      BY <1>5, <1>6, <2>1, <2>3, <3>1, <3>3
  <2>4. CASE r.ret \notin {OK, AGAIN}
    BY <1>4, <1>6, <2>1, <2>4
  <2> QED
    BY <2>3, <2>4
<1>8. CASE ~IsDevice(payload, ms.pos)
  <2> DEFINE next == EndOf(payload, fs.pos)
  <2>1. /\ fs.pos \in payload.items /\ ~IsDevice(payload, fs.pos)
        /\ payload.up[fs.pos] = payload.up[ms.pos]
    BY <1>3, <1>8 DEF Siblings
  <2>2. /\ ms.pos \in Nat /\ fs.pos \in Nat /\ next \in Nat /\ fs.pos + 2 <= next
    BY <1>2, <2>1, ItemFacts
  <2>3. \A j \in ahead : next <= j /\ next # EndOf(payload, payload.up[fs.pos]) /\ j \in Nat
    <3> TAKE j \in ahead
    <3>1. /\ j \in payload.items /\ ~IsDevice(payload, j)
          /\ payload.up[j] = payload.up[fs.pos] /\ fs.pos < j
      BY <1>3, <1>8, <2>1 DEF AheadOf, Siblings
    <3> QED
      BY <1>2, <2>1, <3>1, LaterSibling, ItemFacts
  <2>4. \/ r.ret = LAST /\ next = EndOf(payload, payload.up[fs.pos])
        \/ /\ r.ret \in {OK, AGAIN} /\ r.ms.pos = next
           /\ next \in payload.items /\ ~IsDevice(payload, next)
           /\ payload.up[next] = payload.up[fs.pos]
           /\ r.ret = OK <=> Known(payload, next)
    BY <1>2, <2>1, NestPass
  <2> HIDE DEF next, fs, ahead
  <2>5. CASE r.ret = LAST /\ next = EndOf(payload, payload.up[fs.pos])
    <3>1. ahead = {}
      BY <2>3, <2>5
    <3>2. Search("back", ms)
      BY <1>6, <2>5 DEF OK, AGAIN, LAST
    <3> QED
      BY <1>4, <3>1, <3>2
  <2>6. CASE /\ r.ret \in {OK, AGAIN} /\ r.ms.pos = next
             /\ next \in payload.items /\ ~IsDevice(payload, next)
             /\ payload.up[next] = payload.up[fs.pos]
             /\ r.ret = OK <=> Known(payload, next)
    <3>1. next \in Siblings(ms.pos) /\ ms.pos < next /\ next # 0
      BY <1>3, <1>8, <2>1, <2>2, <2>6 DEF Siblings
    <3>2. next \in ahead <=> Known(payload, next) /\ words[next].key = job.orig
      BY <1>2, <2>6, <3>1 DEF AheadOf, Found, WithKey, KeyOf, ahead
    <3>3. CASE r.ret = OK /\ words[next].key = job.orig
      <4>1. next \in ahead /\ \A j \in ahead : next <= j
        BY <2>3, <2>6, <3>2, <3>3
      <4>2. Targets(ms.pos, job.orig, job.new) = {next}
        BY <1>2, <4>1, TargetAhead DEF ahead
      <4>3. Replace(next, job.new)
        BY <1>6, <2>6, <3>3
      <4> QED
        BY <1>1, <1>2, <2>6, <4>2, <4>3, ReplacePromised
    <3>4. CASE ~(r.ret = OK /\ words[next].key = job.orig)
      <4>1. next \notin ahead
        BY <2>6, <3>2, <3>4
      <4>2. \A j \in ahead : next < j
        BY <2>2, <2>3, <4>1
      <4>3. Search("ahead", r.ms)
        BY <1>6, <2>6, <3>4
      <4> QED
        BY <1>5, <2>2, <2>6, <3>1, <4>2, <4>3
    <3> QED
      BY <3>3, <3>4
  <2> QED
    BY <2>4, <2>5, <2>6
<1> QED
  BY <1>7, <1>8

(* The search from the start of the payload begins at its first device.     *)
LEMMA FromStartPromised ==
  ASSUME IInv, SearchRight, job.phase \notin {"idle", "ahead"},
         BehindOf(ms.pos, job.orig) = {}, FromStart
  PROVE  Promised
<1> DEFINE s == Rewound(ms)
<1>1. /\ Kept(payload) /\ NotHere(job.orig, job.new) /\ ms \in Stream
      /\ AheadOf(ms.pos, job.orig) = {}
  BY Looking DEF SearchRight, IInv, TypeOK
<1>2. s.pos = 0
  BY <1>1 DEF Rewound, Stream
<1>3. \A j \in Found(job.orig) : s.pos < j
  <2>1. \A j \in Found(job.orig) : j \in Nat /\ j # 0
    BY <1>1, ItemFacts DEF Found, WithKey, Kept
  <2> QED
    BY <1>2, <2>1
<1> HIDE DEF s
<1>4. /\ job'.phase = "all" /\ job'.fs = s /\ job'.orig = job.orig /\ job'.new = job.new
      /\ payload' = payload /\ ms' = ms /\ SaidAndDone
      /\ NotHere(job.orig, job.new)' <=> NotHere(job.orig, job.new)
      /\ AheadOf(ms.pos, job.orig)' = AheadOf(ms'.pos, job'.orig)
      /\ BehindOf(ms.pos, job.orig)' = BehindOf(ms'.pos, job'.orig)
      /\ Found(job.orig)' = Found(job'.orig)
  BY SearchFrame DEF FromStart, s
<1> QED
  BY <1>1, <1>3, <1>4 DEF Promised, SearchRight, LookingAtAll

LEMMA BackPromised == ASSUME IInv, SearchRight, Back PROVE Promised
<1>1. job.phase = "back" /\ job.phase \notin {"idle", "ahead"}
  BY DEF Back
<1>2. /\ Kept(payload) /\ Outlined(payload) /\ OnIts(ms) /\ job.fs = ms
      /\ NotHere(job.orig, job.new) /\ ms.pos \in payload.items
      /\ AheadOf(ms.pos, job.orig) = {}
  BY <1>1, Looking DEF SearchRight
<1>3. /\ ms.nest_level = payload.lev[ms.pos]
      /\ ms.nest_level # 0 =>
           /\ ~IsDevice(payload, ms.pos) /\ ms.nest_level > 0
           /\ First(ms) = payload.up[ms.pos] + 2
           /\ First(ms) \in Siblings(ms.pos)
           /\ \A j \in Siblings(ms.pos) : First(ms) <= j
  BY <1>2, NestFacts
<1>4. CASE ms.nest_level = 0
  <2>1. BehindOf(ms.pos, job.orig) = {} /\ FromStart
    BY <1>2, <1>3, <1>4 DEF BehindOf, Back
  <2> QED
    BY <1>1, <2>1, FromStartPromised
<1>5. CASE ms.nest_level # 0
  <2> DEFINE new == [job EXCEPT !.phase = "behind", !.mark = job.fs.pos, !.fs = AtFirst(@)]
  <2>1. /\ job' = new /\ payload' = payload /\ ms' = ms /\ edits' = edits
    BY <1>2, <1>5 DEF Back
  <2>2. job \in Job /\ ms \in Stream
    BY DEF IInv, TypeOK
  <2>3. /\ new.phase = "behind" /\ new.fs = AtFirst(ms) /\ new.orig = job.orig
        /\ new.new = job.new /\ new.mark = ms.pos
    BY <1>2, <2>2 DEF Job
  <2>4. AtFirst(ms).pos = First(ms)
    BY <2>2 DEF AtFirst, Stream
  <2> HIDE DEF new
  <2>5. /\ job'.phase = "behind" /\ job'.fs.pos = First(ms) /\ job'.orig = job.orig
        /\ job'.new = job.new /\ job'.mark = ms.pos
    BY <2>1, <2>3, <2>4
  <2>6. NotHere(job.orig, job.new)' /\ (AheadOf(ms.pos, job.orig) = {})'
    BY <1>2, <2>1, <2>5
    DEF NotHere, Room, OfSize, AheadOf, Siblings, Found, WithKey
  <2>7. \A j \in BehindOf(ms.pos, job.orig) : First(ms) <= j
    BY <1>3, <1>5 DEF BehindOf
  <2>8. LookingBehind'
    <3>1. (BehindOf(ms.pos, job.orig))' = BehindOf(ms.pos, job.orig)
      BY <2>1, <2>5 DEF BehindOf, Siblings, WithKey
    <3>2. (Siblings(ms.pos))' = Siblings(ms.pos)
      BY <2>1 DEF Siblings
    <3> QED
      BY <1>3, <1>5, <2>1, <2>5, <2>7, <3>1, <3>2 DEF LookingBehind
  <2>9. SearchRight'
    BY <2>5, <2>6, <2>8 DEF SearchRight
  <2> QED
    BY <2>1, <2>9 DEF Promised, SaidAndDone
<1> QED
  BY <1>4, <1>5

LEMMA BehindPromised == ASSUME IInv, SearchRight, Behind PROVE Promised
<1> DEFINE fs == job.fs
           behind == BehindOf(ms.pos, job.orig)
           next == EndOf(payload, fs.pos)
<1>1. job.phase \in {"behind", "tail"} /\ job.phase \notin {"idle", "ahead"}
  BY DEF Behind
<1>2. /\ Kept(payload) /\ Outlined(payload) /\ OnIts(ms) /\ OnIts(job.fs)
      /\ job.orig \in FindKeys /\ job.new \in News
      /\ NotHere(job.orig, job.new) /\ ms.pos \in payload.items /\ Room(job.new)
      /\ words = payload.words /\ AheadOf(ms.pos, job.orig) = {}
  BY <1>1, Looking DEF SearchRight
<1>3. /\ payload.lev[ms.pos] > 0 /\ job.mark = ms.pos
      /\ fs.pos \in Siblings(ms.pos)
      /\ job.phase = "behind" =>
           /\ Known(payload, fs.pos) \/ fs.pos = payload.up[ms.pos] + 2
           /\ \A j \in behind : fs.pos <= j
      /\ job.phase = "tail" => \A j \in behind : fs.pos < j
  BY <1>1 DEF SearchRight, LookingBehind
<1>4. ~IsDevice(payload, ms.pos)
  BY <1>2, <1>3, DeviceFacts
<1>5. /\ fs.pos \in payload.items /\ ~IsDevice(payload, fs.pos)
      /\ payload.up[fs.pos] = payload.up[ms.pos]
  BY <1>3, <1>4 DEF Siblings
<1>6. /\ ms.pos \in Nat /\ fs.pos \in Nat /\ next \in Nat /\ fs.pos + 2 <= next
      /\ payload.up[fs.pos] \in Nat /\ payload.up[fs.pos] + 2 <= fs.pos
      /\ \A j \in behind : j \in Nat
  <2>1. \A j \in behind : j \in payload.items
    BY DEF BehindOf, Siblings
  <2> QED
    BY <1>2, <1>5, <2>1, ItemFacts, InnerFacts
<1>7. \A j \in behind : fs.pos < j =>
        next <= j /\ next # EndOf(payload, payload.up[fs.pos])
  <2> TAKE j \in behind
  <2>1. /\ j \in payload.items /\ ~IsDevice(payload, j)
        /\ payload.up[j] = payload.up[fs.pos]
    BY <1>4, <1>5 DEF BehindOf, Siblings
  <2> QED
    BY <1>2, <1>5, <2>1, LaterSibling
<1> HIDE DEF fs, behind, next
<1>8. ASSUME behind = {}, FromStart PROVE Promised
  BY <1>1, <1>8, FromStartPromised DEF behind
<1>9. ASSUME NEW phase \in {"behind", "tail"}, NEW s, Search(phase, s),
             s.pos \in Siblings(ms.pos),
             phase = "behind" => Known(payload, s.pos) /\ \A j \in behind : s.pos <= j,
             phase = "tail" => \A j \in behind : s.pos < j
      PROVE  Promised
  <2>1. /\ job'.phase = phase /\ job'.fs = s /\ job'.orig = job.orig /\ job'.new = job.new
        /\ job'.mark = job.mark /\ payload' = payload /\ ms' = ms /\ SaidAndDone
        /\ NotHere(job.orig, job.new)' <=> NotHere(job.orig, job.new)
        /\ AheadOf(ms.pos, job.orig)' = AheadOf(ms'.pos, job'.orig)
        /\ BehindOf(ms.pos, job.orig)' = BehindOf(ms'.pos, job'.orig)
        /\ Siblings(ms.pos)' = Siblings(ms'.pos)
    BY <1>9, SearchFrame
  <2>2. LookingBehind'
    BY <1>3, <1>9, <2>1 DEF LookingBehind, Known, TypeOf, behind
  <2> QED
    BY <1>2, <1>9, <2>1, <2>2 DEF Promised, SearchRight
<1>10. \/ job.phase = "behind" /\ job.mark <= fs.pos /\ FromStart
       \/ /\ job.phase = "behind" /\ ~(job.mark <= fs.pos) /\ words[fs.pos].key = job.orig
          /\ Replace(fs.pos, job.new)
       \/ /\ job.phase = "behind" => words[fs.pos].key # job.orig
          /\ \E r \in GPMF_Next(words, fs, {TOLERANT}) :
               CASE r.ret = OK    -> Search("behind", r.ms)
                 [] r.ret = AGAIN -> Search("tail", r.ms)
                 [] OTHER         -> FromStart
  BY DEF Behind, fs
<1>11. CASE job.phase = "behind" /\ job.mark <= fs.pos /\ FromStart
  <2>1. \A j \in behind : j < ms.pos
    BY DEF BehindOf, behind
  <2>2. behind = {}
    BY <1>3, <1>6, <1>11, <2>1
  <2> QED
    BY <1>8, <1>11, <2>2
<1>12. CASE /\ job.phase = "behind" /\ ~(job.mark <= fs.pos) /\ words[fs.pos].key = job.orig
            /\ Replace(fs.pos, job.new)
  <2>1. fs.pos # 0 /\ fs.pos < ms.pos
    BY <1>3, <1>6, <1>12
  <2>2. fs.pos \in behind
    BY <1>2, <1>3, <1>5, <1>12, <2>1 DEF BehindOf, WithKey, KeyOf, behind
  <2>3. Targets(ms.pos, job.orig, job.new) = {fs.pos}
    BY <1>2, <1>3, <1>12, <2>2, TargetBehind DEF behind
  <2> QED
    BY <1>1, <1>2, <1>5, <1>12, <2>3, ReplacePromised
<1>13. ASSUME job.phase = "behind" => words[fs.pos].key # job.orig,
              NEW r \in GPMF_Next(words, fs, {TOLERANT}),
              CASE r.ret = OK    -> Search("behind", r.ms)
                [] r.ret = AGAIN -> Search("tail", r.ms)
                [] OTHER         -> FromStart
       PROVE  Promised
  <2>1. \A j \in behind : fs.pos < j
    <3>1. CASE job.phase = "behind"
      <4>1. fs.pos \notin behind
        BY <1>2, <1>13, <3>1 DEF BehindOf, WithKey, KeyOf, behind
      <4> QED
        BY <1>3, <1>6, <3>1, <4>1
    <3>2. CASE job.phase = "tail"
      BY <1>3, <3>2
    <3> QED
      BY <1>1, <3>1, <3>2
  <2>2. \/ r.ret = LAST /\ next = EndOf(payload, payload.up[fs.pos])
        \/ /\ r.ret \in {OK, AGAIN} /\ r.ms.pos = next
           /\ next \in payload.items /\ ~IsDevice(payload, next)
           /\ payload.up[next] = payload.up[fs.pos]
           /\ r.ret = OK <=> Known(payload, next)
    BY <1>2, <1>5, NestPass DEF fs, next
  <2>3. CASE r.ret = LAST /\ next = EndOf(payload, payload.up[fs.pos])
    <3>1. behind = {}
      BY <1>7, <2>1, <2>3
    <3>2. FromStart
      BY <1>13, <2>3 DEF OK, AGAIN, LAST
    <3> QED
      BY <1>8, <3>1, <3>2
  <2>4. CASE /\ r.ret \in {OK, AGAIN} /\ r.ms.pos = next
             /\ next \in payload.items /\ ~IsDevice(payload, next)
             /\ payload.up[next] = payload.up[fs.pos]
             /\ r.ret = OK <=> Known(payload, next)
    <3>1. next \in Siblings(ms.pos) /\ \A j \in behind : next <= j
      BY <1>4, <1>5, <1>7, <2>1, <2>4 DEF Siblings
    <3>2. CASE r.ret = OK
      <4>1. Search("behind", r.ms)
        BY <1>13, <3>2 DEF OK, AGAIN
      <4> QED
        BY <1>9, <2>4, <3>1, <3>2, <4>1
    <3>3. CASE r.ret = AGAIN
      <4>1. Search("tail", r.ms)
        BY <1>13, <3>3 DEF OK, AGAIN
      <4>2. ~Known(payload, next) /\ next # payload.up[ms.pos] + 2
        BY <1>5, <1>6, <2>4, <3>3 DEF OK, AGAIN
      <4>3. next \notin behind
        BY <4>2 DEF BehindOf, behind
      <4>4. \A j \in behind : next < j
        BY <1>6, <3>1, <4>3
      <4> QED
        BY <1>9, <2>4, <3>1, <4>1, <4>4
    <3> QED
      BY <2>4, <3>2, <3>3
  <2> QED
    BY <2>2, <2>3, <2>4
<1> QED
  BY <1>10, <1>11, <1>12, <1>13

LEMMA AllPromised == ASSUME IInv, SearchRight, All PROVE Promised
<1> DEFINE fs == job.fs
           found == Found(job.orig)
<1>1. job.phase = "all" /\ job.phase # "idle" /\ job.phase # "ahead"
  BY DEF All
<1>2. /\ Kept(payload) /\ Outlined(payload) /\ OnIts(ms) /\ OnIts(job.fs)
      /\ job.orig \in FindKeys /\ job.new \in News
      /\ NotHere(job.orig, job.new) /\ ms.pos \in payload.items /\ Room(job.new)
      /\ words = payload.words /\ AheadOf(ms.pos, job.orig) = {}
  BY <1>1, Looking DEF SearchRight
<1>3. BehindOf(ms.pos, job.orig) = {} /\ \A j \in found : fs.pos < j
  BY <1>1 DEF SearchRight, LookingAtAll
<1>4. \A j \in found : j \in payload.items /\ j \in Nat
  BY <1>2, ItemFacts DEF Found, WithKey
<1>5. fs.pos \in Nat
  BY <1>2 DEF OnIts, Usable, Stream
<1>6. PICK r \in GPMF_Next(words, fs, {RECURSE, TOLERANT}) :
        IF r.ret = OK /\ words[r.ms.pos].key = job.orig THEN Replace(r.ms.pos, job.new)
        ELSE IF r.ret \in {OK, AGAIN} THEN Search("all", r.ms)
        ELSE End(FIND, payload)
  BY <1>1 DEF All, FindNextTurn
<1>7. \/ /\ r.ret = BUFFER_END
         /\ \A j \in payload.items : ~(fs.pos < j)
      \/ /\ r.ret \in {OK, AGAIN} /\ r.ms.pos \in payload.items
         /\ \A j \in payload.items : fs.pos < j => r.ms.pos <= j
         /\ r.ret = OK <=> Known(payload, r.ms.pos)
         /\ fs.pos < r.ms.pos
  BY <1>2, WholePass
<1> HIDE DEF fs, found
<1>8. CASE /\ r.ret = BUFFER_END
           /\ \A j \in payload.items : ~(fs.pos < j)
  <2>1. found = {}
    BY <1>3, <1>4, <1>8
  <2>2. Targets(ms.pos, job.orig, job.new) = {}
    BY <1>2, <1>3, <2>1 DEF Targets, NotHere, found
  <2>3. End(FIND, payload)
    BY <1>6, <1>8 DEF OK, AGAIN, BUFFER_END
  <2>4. Fulfilled(job.orig, job.new)
    BY <1>2, <2>2, <2>3, NothingFulfils
  <2> QED
    BY <1>1, <2>3, <2>4, EndPromised
<1>9. CASE /\ r.ret \in {OK, AGAIN} /\ r.ms.pos \in payload.items
           /\ \A j \in payload.items : fs.pos < j => r.ms.pos <= j
           /\ r.ret = OK <=> Known(payload, r.ms.pos)
           /\ fs.pos < r.ms.pos
  <2> DEFINE next == r.ms.pos
  <2>1. next \in Nat /\ next # 0 /\ \A j \in found : next <= j
    <3>1. next \in Nat
      BY <1>2, <1>9, ItemFacts
    <3>2. next # 0
      BY <1>5, <1>9, <3>1
    <3>3. \A j \in found : next <= j
      BY <1>3, <1>4, <1>9
    <3> QED
      BY <3>1, <3>2, <3>3
  <2>2. next \in found <=> Known(payload, next) /\ words[next].key = job.orig
    BY <1>2, <1>9, <2>1 DEF Found, WithKey, KeyOf, found
  <2> HIDE DEF next
  <2>3. CASE r.ret = OK /\ words[next].key = job.orig
    <3>1. next \in found
      BY <1>9, <2>2, <2>3 DEF next
    <3>2. Targets(ms.pos, job.orig, job.new) = {next}
      BY <1>2, <1>3, <2>1, <3>1, TargetOfAll DEF found
    <3>3. Replace(next, job.new) /\ next \in payload.items
      BY <1>6, <1>9, <2>3 DEF next
    <3> QED
      BY <1>1, <1>2, <3>2, <3>3, ReplacePromised
  <2>4. CASE ~(r.ret = OK /\ words[next].key = job.orig)
    <3>1. next \notin found
      BY <1>9, <2>2, <2>4 DEF next
    <3>2. \A j \in found : next < j
      BY <1>4, <2>1, <3>1
    <3>3. Search("all", r.ms)
      BY <1>6, <1>9, <2>4 DEF next
    <3>4. /\ job'.phase = "all" /\ job'.fs = r.ms /\ job'.orig = job.orig /\ job'.new = job.new
          /\ payload' = payload /\ ms' = ms /\ SaidAndDone
          /\ NotHere(job.orig, job.new)' <=> NotHere(job.orig, job.new)
          /\ AheadOf(ms.pos, job.orig)' = AheadOf(ms'.pos, job'.orig)
          /\ BehindOf(ms.pos, job.orig)' = BehindOf(ms'.pos, job'.orig)
          /\ Found(job.orig)' = Found(job'.orig)
      BY <3>3, SearchFrame
    <3> QED
      BY <1>2, <1>3, <3>2, <3>4 DEF Promised, SearchRight, LookingAtAll, found, next
  <2> QED
    BY <2>3, <2>4
<1> QED
  BY <1>7, <1>8, <1>9

(* A modification that ends at once.                                        *)
LEMMA NoRoomPromised ==
  ASSUME IInv, SearchRight, NEW new \in News, ModifyNoRoom(new), NEW orig \in FindKeys
  PROVE  Promised
<1>1. job.phase = "idle" /\ ~Room(new) /\ End(BAD, payload)
  BY DEF ModifyNoRoom, Called
<1>2. Fulfilled(orig, new)
  BY <1>1 DEF Fulfilled, End
<1> QED
  BY <1>1, <1>2, EndPromised

LEMMA HerePromised ==
  ASSUME IInv, SearchRight, NEW orig \in FindKeys, NEW new \in News, ModifyHere(orig, new)
  PROVE  Promised
<1>1. job.phase = "idle" /\ Room(new) /\ WillFit(ms.pos, new)
  BY DEF ModifyHere, Called, OnIt
<1>2. ms.pos \in payload.items /\ KeyOf(payload, ms.pos) = orig /\ Replace(ms.pos, new)
  BY HereFound
<1>3. OfSize(ms.pos, new)
  BY <1>1, <1>2, FitsIsOfSize DEF IInv
<1>4. Targets(ms.pos, orig, new) = {ms.pos}
  BY <1>2, <1>3 DEF Targets
<1> QED
  BY <1>1, <1>2, <1>4, ReplacePromised

(* The search begins where the stream is, and that is not what is meant.    *)
LEMMA StartPromised ==
  ASSUME IInv, SearchRight, NEW orig \in FindKeys, NEW new \in News, StartSearch(orig, new)
  PROVE  Promised
<1> DEFINE begun == [Idle EXCEPT !.phase = "ahead", !.fs = ms, !.orig = orig, !.new = new]
<1>1. /\ job' = begun /\ payload' = payload /\ ms' = ms /\ edits' = edits
      /\ ~lost /\ Room(new) /\ ~OnIt(orig, new)
  BY DEF StartSearch, Called
<1>2. OnIts(ms) /\ Kept(payload) /\ Outlined(payload) /\ ms.bound = payload.longs
  BY <1>1 DEF IInv, Kept
<1>3. begun.phase = "ahead" /\ begun.fs = ms /\ begun.orig = orig /\ begun.new = new
  BY IdleJob DEF Job
<1> HIDE DEF begun
<1>4. ms.pos \in payload.items
  <2>1. ms.pos + 1 + DataLongs(new) < payload.longs /\ DataLongs(new) \in Nat
    BY <1>1, <1>2, NewsAssumption, DataLongsNat DEF Room
  <2>2. ms.pos \in Nat /\ payload.longs \in Nat
    BY <1>2 DEF OnIts, Usable, Stream, Outlined, PayloadShape
  <2>3. ms.pos # payload.longs
    BY <2>1, <2>2
  <2> QED
    BY <1>2, <2>3 DEF OnIts, OnKlv
<1>5. NotHere(orig, new)
  <2>1. WillFit(ms.pos, new) <=> OfSize(ms.pos, new)
    BY <1>2, <1>4, FitsIsOfSize
  <2> QED
    BY <1>1, <1>4, <2>1 DEF NotHere, OnIt, KeyOf, words
<1>6. NotHere(orig, new)' /\ AheadOf(ms.pos, orig)' = AheadOf(ms.pos, orig)
      /\ Siblings(ms.pos)' = Siblings(ms.pos)
  BY <1>1, <1>5 DEF NotHere, Room, OfSize, AheadOf, Siblings, Found, WithKey
<1>7. ms.pos \in Nat /\ ms.pos \in Siblings(ms.pos)
  BY <1>2, <1>4, ItemFacts DEF Siblings
<1>8. \A j \in AheadOf(ms.pos, orig) : ms.pos < j
  BY DEF AheadOf
<1>9. job'.phase = "ahead" /\ job'.fs = ms /\ job'.orig = orig /\ job'.new = new
  BY <1>1, <1>3
<1>10. LookingAhead'
  BY <1>1, <1>6, <1>7, <1>8, <1>9 DEF LookingAhead
<1>11. SearchRight'
  BY <1>6, <1>9, <1>10 DEF SearchRight
<1> QED
  BY <1>1, <1>11 DEF Promised, SaidAndDone

LEMMA StepPromised == ASSUME IInv, SearchRight, [Next]_vars PROVE Promised
<1>1. ASSUME NEW flags, Walk(flags) PROVE Promised
  BY <1>1 DEF Walk, Promised, SaidAndDone, SearchRight
<1>2. ASSUME ResetState PROVE Promised
  BY <1>2 DEF ResetState, Promised, SaidAndDone, SearchRight
<1>3. CASE UNCHANGED vars
  BY <1>3 DEF vars, Promised, SaidAndDone, SearchRight, NotHere, Room, OfSize,
              LookingAhead, LookingBehind, LookingAtAll, AheadOf, BehindOf, Siblings, Found, WithKey
<1> QED
  BY <1>1, <1>2, <1>3, NoRoomPromised, HerePromised, StartPromised, AheadPromised,
     BackPromised, BehindPromised, AllPromised DEF Next

(* Whatever nest the stream is in and whatever of the payload was modified  *)
(* before, GPMF_Modify overwrites the entry that is meant and no other, and *)
(* says so: of the key ahead, behind or anywhere, it misses none.           *)
THEOREM ModifyRightEntry == Spec => RightEntry
<1>1. Init => SearchRight
  BY IdleJob DEF Init, SearchRight
<1>2. IInv /\ SearchRight /\ [Next]_vars => SearchRight'
  BY StepPromised DEF Promised
<1>3. IInv /\ SearchRight /\ [Next]_vars =>
        [ edits' # edits =>
            IF job.phase # "idle" THEN Fulfilled(job.orig, job.new)
            ELSE \E orig \in FindKeys, new \in News : Fulfilled(orig, new) ]_vars
  BY StepPromised DEF Promised, SaidAndDone
<1> QED
  BY <1>1, <1>2, <1>3, SpecKept, PTL DEF Spec, RightEntry
=============================================================================
