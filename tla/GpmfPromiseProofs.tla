------------------------- MODULE GpmfPromiseProofs --------------------------
(***************************************************************************)
(* GpmfNav implements KlvCursor: on a sound payload of any shape and depth, *)
(* whatever the cursors, the flags and the nest limit, every call takes    *)
(* its cursor to an entry that depends on the forest alone, or leaves it   *)
(* where it is and says why (PromiseKept).  Each pass of the code is a     *)
(* stutter of KlvCursor, and the one that ends the call is its answer.     *)
(*                                                                         *)
(* KlvCursor chooses an entry among those ahead: of the whole payload, or  *)
(* among the siblings.  A pass only knows one stream and moves it once.    *)
(* The bridge is OnWay: a walk that has come to pos has behind it exactly  *)
(* the entries of the route up to pos and ahead of it exactly the others,  *)
(* and PassOnWay says what a pass makes of that.  An answer is then right  *)
(* because of what the passes before it did not find, so the invariant has *)
(* to remember it: KeptInv says, of each call, which entries are behind it *)
(* and that none of them would have ended it.                              *)
(*                                                                         *)
(* GPMF_FindPrev takes the most: it goes back to the start of its nest and *)
(* walks forward, and with RECURSE it climbs and searches the nest around, *)
(* with the level and the position it was called at left behind.  While it *)
(* is in its own nest KeptInv has the full account, and once it has        *)
(* climbed it has that the nest was searched in vain (Missed), which is    *)
(* what the promise leaves of a recursive search.                          *)
(***************************************************************************)
EXTENDS GpmfNavProofs, FiniteSetTheorems

-----------------------------------------------------------------------------
(* The entries ahead of entry i, as KlvCursor has them (RoutesAgree below). *)
Peers(p, i) == {j \in p.items : IF IsDevice(p, i) THEN IsDevice(p, j)
                                ELSE ~IsDevice(p, j) /\ p.up[j] = p.up[i]}

Ahead(p, i, flags) ==
  IF i = p.longs THEN {}
  ELSE {j \in IF RECURSE \in flags THEN p.items ELSE Peers(p, i) : j > i}

(* No entry ahead comes before the one that a pass goes to.                 *)
LEMMA NoneBetween ==
  ASSUME NEW p, Outlined(p), NEW i \in p.items, NEW flags, NEW j \in Ahead(p, i, flags)
  PROVE  Into(p, i, flags) <= j
<1>1. /\ j \in p.items /\ j > i /\ i \in Nat /\ j \in Nat
      /\ EndOf(p, i) \in Nat /\ i + 2 <= EndOf(p, i)
  BY ItemFacts DEF Ahead, Peers
<1>2. CASE RECURSE \in flags
  <2>1. CASE j < EndOf(p, i)
    BY <1>1, <1>2, <2>1, StartsInside DEF Into
  <2>2. CASE ~(j < EndOf(p, i))
    BY <1>1, <2>2 DEF Into
  <2> QED
    BY <2>1, <2>2
<1>3. CASE RECURSE \notin flags
  <2>1. j \in Peers(p, i)
    BY <1>3 DEF Ahead
  <2>2. ASSUME j < EndOf(p, i) PROVE FALSE
    <3>1. ~IsDevice(p, j) /\ p.up[j] \in i..(j - 1)
      BY <1>1, <2>2, StartsInside
    <3>2. ~IsDevice(p, i) /\ p.up[i] = p.up[j]
      BY <2>1, <3>1 DEF Peers
    <3>3. p.up[i] + 2 <= i /\ p.up[i] \in Nat
      BY <3>2, InnerFacts, ItemFacts
    <3> QED
      BY <1>1, <3>1, <3>2, <3>3
  <2> QED
    BY <1>1, <1>3, <2>2 DEF Into
<1> QED
  BY <1>2, <1>3

(* At the last entry of a nest nothing of it is ahead.                      *)
LEMMA NoneAfterLast ==
  ASSUME NEW p, Outlined(p), NEW i \in p.items, NEW flags, LastOfNest(p, i, flags)
  PROVE  Ahead(p, i, flags) = {}
<1> SUFFICES ASSUME NEW j \in Ahead(p, i, flags) PROVE FALSE
  OBVIOUS
<1>1. /\ RECURSE \notin flags /\ ~IsDevice(p, i) /\ EndOf(p, i) = EndOf(p, p.up[i])
      /\ Into(p, i, flags) = EndOf(p, i)
  BY DEF LastOfNest, Into
<1>2. j \in p.items /\ ~IsDevice(p, j) /\ p.up[j] = p.up[i]
  BY <1>1 DEF Ahead, Peers
<1>3. EndOf(p, i) <= j
  BY <1>1, NoneBetween
<1>4. EndOf(p, j) <= EndOf(p, p.up[j])
  BY <1>2, InnerFacts
<1>5. j \in Nat /\ EndOf(p, j) \in Nat /\ j + 2 <= EndOf(p, j) /\ EndOf(p, i) \in Nat
  BY <1>2, ItemFacts
<1> QED
  BY <1>1, <1>2, <1>3, <1>4, <1>5

(* Elsewhere a pass goes to the first entry ahead, and leaves the others    *)
(* ahead of it; if there is none, it goes to the end.                       *)
LEMMA IntoPlaced ==
  ASSUME NEW p, Outlined(p), NEW i \in p.items, NEW flags, ~LastOfNest(p, i, flags)
  PROVE  LET t == Into(p, i, flags)
         IN /\ i < t
            /\ t = p.longs \/ t \in Ahead(p, i, flags)
            /\ t # p.longs /\ RECURSE \notin flags => Peers(p, t) = Peers(p, i)
<1> DEFINE t == Into(p, i, flags)
           e == EndOf(p, i)
<1>1. /\ i \in Nat /\ p.longs \in Nat /\ SizeAt(p.words, i) \in Nat
      /\ e = i + 2 + SizeAt(p.words, i) /\ e \in Nat /\ i # p.longs
  <2>1. i + 1 < p.longs /\ p.longs \in Nat /\ i \in Nat
    BY ItemFacts
  <2>2. i # p.longs
    BY <2>1
  <2> QED
    BY <2>2, ItemFacts
<1>2. CASE RECURSE \in flags
  <2>1. t \in p.items \/ t = p.longs
    <3>1. CASE IsNest(p, i) /\ SizeAt(p.words, i) # 0
      BY <1>2, <3>1, FirstInside DEF Into
    <3>2. CASE ~(IsNest(p, i) /\ SizeAt(p.words, i) # 0)
      <4>1. t = e
        BY <1>1, <1>2, <3>2 DEF Into
      <4> QED
        BY <4>1, EndPlaced DEF Placed
    <3> QED
      BY <3>1, <3>2
  <2>2. i < t
    BY <1>1 DEF Into
  <2> HIDE DEF t
  <2> QED
    BY <1>1, <1>2, <2>1, <2>2 DEF Ahead, t
<1>3. CASE RECURSE \notin flags
  <2>1. t = e /\ i < e
    BY <1>1, <1>3 DEF Into
  <2>2. CASE IsDevice(p, i)
    <3>1. e = p.longs \/ (e \in p.items /\ IsDevice(p, e))
      BY <2>2, DeviceFacts
    <3>2. ASSUME e # p.longs PROVE e \in Peers(p, i) /\ Peers(p, e) = Peers(p, i)
      BY <2>2, <3>1, <3>2 DEF Peers
    <3> HIDE DEF t, e
    <3> QED
      BY <1>1, <1>3, <2>1, <3>2 DEF Ahead, t
  <2>3. CASE ~IsDevice(p, i)
    <3>1. e # EndOf(p, p.up[i])
      BY <1>3, <2>3 DEF LastOfNest
    <3>2. e \in p.items /\ p.up[e] = p.up[i] /\ ~IsDevice(p, e)
      BY <2>3, <3>1, InnerFacts
    <3>3. e \in Peers(p, i) /\ Peers(p, e) = Peers(p, i)
      BY <2>3, <3>2 DEF Peers
    <3> HIDE DEF t, e
    <3> QED
      BY <1>1, <1>3, <2>1, <3>2, <3>3 DEF Ahead, t
  <2> QED
    BY <2>2, <2>3
<1> QED
  BY <1>2, <1>3

-----------------------------------------------------------------------------
(* A walk that started at from has come to pos: it is on the route, and what*)
(* was ahead and is not behind is ahead still.                              *)
OnWay(p, from, pos, flags) ==
  /\ pos = from \/ pos \in Ahead(p, from, flags)
  /\ Ahead(p, pos, flags) = {j \in Ahead(p, from, flags) : j > pos}
  /\ RECURSE \notin flags /\ pos \in p.items =>
       from \in p.items /\ Peers(p, pos) = Peers(p, from)

(* A walk starts where it is.                                               *)
LEMMA WayStarts ==
  ASSUME NEW p, Outlined(p), NEW from, Placed(p, from), NEW flags
  PROVE  /\ OnWay(p, from, from, flags)
         /\ \A j \in Ahead(p, from, flags) : j \in p.items /\ from < j
BY DEF OnWay, Ahead, Peers, Placed

(* A pass that goes to the next entry keeps a walk on its way.              *)
LEMMA WayGoesOn ==
  ASSUME NEW p, Outlined(p), NEW from, NEW pos \in p.items, NEW flags,
         OnWay(p, from, pos, flags), ~LastOfNest(p, pos, flags),
         Into(p, pos, flags) # p.longs
  PROVE  LET t == Into(p, pos, flags)
         IN /\ t \in p.items /\ pos < t
            /\ t \in Ahead(p, from, flags) /\ OnWay(p, from, t, flags)
            /\ \A j \in Ahead(p, from, flags) : j <= pos \/ t <= j
<1> DEFINE t == Into(p, pos, flags)
<1>1. /\ pos < t /\ t \in Ahead(p, pos, flags)
      /\ RECURSE \notin flags => Peers(p, t) = Peers(p, pos)
  BY IntoPlaced
<1>2. \A j \in Ahead(p, pos, flags) : t <= j
  BY NoneBetween
<1>3. t \in p.items /\ t \in Nat /\ pos \in Nat /\ p.items \subseteq Nat /\ t # p.longs
  <2>1. t \in p.items
    BY <1>1 DEF Ahead, Peers
  <2> QED
    BY <2>1, ItemFacts
<1> HIDE DEF t
<1>4. /\ pos = from \/ pos \in Ahead(p, from, flags)
      /\ Ahead(p, pos, flags) = {j \in Ahead(p, from, flags) : j > pos}
  BY DEF OnWay
<1>5. t \in Ahead(p, from, flags)
  BY <1>1, <1>4
<1>6. Ahead(p, from, flags) \subseteq p.items
  BY DEF Ahead, Peers
<1>7. \A j \in Ahead(p, from, flags) : j <= pos \/ t <= j
  BY <1>2, <1>3, <1>4, <1>6
<1>8. Ahead(p, t, flags) = {j \in Ahead(p, pos, flags) : j > t}
  <2>1. pos # p.longs
    <3>1. pos + 1 < p.longs /\ p.longs \in Nat
      BY ItemFacts
    <3> QED
      BY <1>3, <3>1
  <2>2. CASE RECURSE \in flags
    BY <1>1, <1>3, <2>1, <2>2 DEF Ahead
  <2>3. CASE RECURSE \notin flags
    <3>1. Peers(p, t) = Peers(p, pos) /\ Peers(p, pos) \subseteq p.items
      BY <1>1, <2>3 DEF Peers
    <3> QED
      BY <1>1, <1>3, <2>1, <2>3, <3>1 DEF Ahead
  <2> QED
    BY <2>2, <2>3
<1>9. Ahead(p, t, flags) = {j \in Ahead(p, from, flags) : j > t}
  BY <1>1, <1>3, <1>4, <1>6, <1>8
<1>10. OnWay(p, from, t, flags)
  BY <1>1, <1>5, <1>9 DEF OnWay
<1> QED
  BY <1>1, <1>3, <1>5, <1>7, <1>10 DEF t

(* A walk with nothing ahead of it has the whole route behind it.           *)
LEMMA WayEnds ==
  ASSUME NEW p, Outlined(p), NEW from, NEW pos \in p.items, NEW flags,
         OnWay(p, from, pos, flags),
         LastOfNest(p, pos, flags) \/ Into(p, pos, flags) = p.longs
  PROVE  \A j \in Ahead(p, from, flags) : j <= pos
<1>1. Ahead(p, pos, flags) = {}
  <2>1. CASE LastOfNest(p, pos, flags)
    BY <2>1, NoneAfterLast
  <2>2. CASE Into(p, pos, flags) = p.longs
    <3> SUFFICES ASSUME NEW j \in Ahead(p, pos, flags) PROVE FALSE
      OBVIOUS
    <3>1. p.longs <= j /\ j \in p.items
      BY <2>2, NoneBetween DEF Ahead, Peers
    <3>2. j \in Nat /\ j + 1 < p.longs /\ p.longs \in Nat
      BY <3>1, ItemFacts
    <3> QED
      BY <3>1, <3>2
  <2> QED
    BY <2>1, <2>2
<1>2. Ahead(p, from, flags) \subseteq p.items /\ p.items \subseteq Nat /\ pos \in Nat
  BY ItemFacts DEF Ahead, Peers
<1> QED
  BY <1>1, <1>2 DEF OnWay

(* The siblings of a sibling are the same.                                  *)
LEMMA SamePeers ==
  ASSUME NEW p, NEW i \in p.items, NEW k \in p.items, Peers(p, i) = Peers(p, k)
  PROVE  IsDevice(p, i) <=> IsDevice(p, k)
<1>1. i \in Peers(p, i)
  BY DEF Peers
<1> QED
  BY <1>1 DEF Peers

(* What a pass makes of a walk: it ends at the end of the payload or of the *)
(* nest, goes to the next entry of the route and says whether it knows it,  *)
(* or refuses a DEVC.                                                       *)
WalkEnds(p, from, pos, flags, r) ==
  /\ r.ret = BUFFER_END /\ r.ms.pos = p.longs /\ OnKlv(p, r.ms)
  /\ \A j \in Ahead(p, from, flags) : j <= pos
  /\ RECURSE \in flags \/ from = p.longs \/ (from \in p.items /\ IsDevice(p, from))

NestEnds(p, from, pos, flags, r, ms) ==
  /\ r = Result(LAST, ms)
  /\ \A j \in Ahead(p, from, flags) : j <= pos
  /\ RECURSE \notin flags /\ from \in p.items /\ ~IsDevice(p, from)

WalkGoes(p, from, pos, flags, r) ==
  /\ r.ms.pos \in p.items /\ pos < r.ms.pos /\ Usable(r.ms) /\ OnKlv(p, r.ms)
  /\ r.ret = IF Known(p, r.ms.pos) THEN OK
             ELSE IF TOLERANT \in flags THEN AGAIN ELSE UNKNOWN_TYPE
  /\ r.ms.pos \in Ahead(p, from, flags)
  /\ OnWay(p, from, r.ms.pos, flags)
  /\ \A j \in Ahead(p, from, flags) : j <= pos \/ r.ms.pos <= j

WalkRefused(p, from, pos, flags, r) ==
  /\ r.ret = BAD /\ RECURSE \notin flags /\ from \in p.items /\ IsDevice(p, from)
  /\ \E j \in Ahead(p, from, flags) : j > pos /\ IsDevice(p, j)

LEMMA PassOnWay ==
  ASSUME NEW p, Outlined(p), NEW ms, Usable(ms), OnKlv(p, ms), NEW flags,
         NEW r \in GPMF_Next(p.words, ms, flags),
         NEW from, OnWay(p, from, ms.pos, flags)
  PROVE  \/ WalkEnds(p, from, ms.pos, flags, r)
         \/ NestEnds(p, from, ms.pos, flags, r, ms)
         \/ WalkGoes(p, from, ms.pos, flags, r)
         \/ WalkRefused(p, from, ms.pos, flags, r)
<1> DEFINE pos == ms.pos
           t   == Into(p, pos, flags)
<1>1. \/ pos = p.longs /\ r = Result(BUFFER_END, ms)
      \/ pos \in p.items /\ LastOfNest(p, pos, flags) /\ r = Result(LAST, ms)
      \/ /\ pos \in p.items /\ ~LastOfNest(p, pos, flags)
         /\ r.ret = Verdict(p, t, flags) /\ r.ms.pos = t
         /\ Usable(r.ms) /\ OnKlv(p, r.ms)
      \/ pos \in p.items /\ Refused(p, pos, flags) /\ r.ret = BAD
  BY NextOnKlv
<1>2. pos \in p.items /\ RECURSE \notin flags =>
        from \in p.items /\ (IsDevice(p, from) <=> IsDevice(p, pos))
  BY SamePeers DEF OnWay
<1>3. \A j \in p.items : j \in Nat /\ j # p.longs
  <2>1. \A j \in p.items : j + 1 < p.longs /\ p.longs \in Nat /\ j \in Nat
    BY ItemFacts
  <2> QED
    BY <2>1
<1>4. CASE pos = p.longs /\ r = Result(BUFFER_END, ms)
  <2>1. from = p.longs
    BY <1>3, <1>4 DEF OnWay, Ahead, Peers
  <2> QED
    BY <1>4, <2>1 DEF WalkEnds, Result, Ahead
<1>5. CASE pos \in p.items /\ LastOfNest(p, pos, flags) /\ r = Result(LAST, ms)
  <2>1. \A j \in Ahead(p, from, flags) : j <= pos
    BY <1>5, WayEnds
  <2>2. RECURSE \notin flags /\ ~IsDevice(p, pos)
    BY <1>5 DEF LastOfNest
  <2> QED
    BY <1>2, <1>5, <2>1, <2>2 DEF NestEnds
<1>6. CASE /\ pos \in p.items /\ ~LastOfNest(p, pos, flags)
           /\ r.ret = Verdict(p, t, flags) /\ r.ms.pos = t
           /\ Usable(r.ms) /\ OnKlv(p, r.ms)
  <2>1. CASE t = p.longs
    <3>1. \A j \in Ahead(p, from, flags) : j <= pos
      BY <1>6, <2>1, WayEnds
    <3>2. RECURSE \in flags \/ IsDevice(p, pos)
      <4>1. ASSUME RECURSE \notin flags, ~IsDevice(p, pos) PROVE FALSE
        <5>1. t = EndOf(p, pos)
          BY <4>1 DEF Into
        <5>2. EndOf(p, pos) # EndOf(p, p.up[pos])
          BY <1>6, <4>1 DEF LastOfNest
        <5>3. EndOf(p, pos) \in p.items
          BY <1>6, <4>1, <5>2, InnerFacts
        <5> QED
          BY <1>3, <2>1, <5>1, <5>3
      <4> QED
        BY <4>1
    <3>3. r.ret = BUFFER_END
      BY <1>6, <2>1 DEF Verdict
    <3> HIDE DEF t
    <3> QED
      BY <1>2, <1>6, <2>1, <3>1, <3>2, <3>3 DEF WalkEnds
  <2>2. CASE t # p.longs
    <3>1. /\ t \in p.items /\ pos < t
          /\ t \in Ahead(p, from, flags) /\ OnWay(p, from, t, flags)
          /\ \A j \in Ahead(p, from, flags) : j <= pos \/ t <= j
      BY <1>6, <2>2, WayGoesOn
    <3>2. r.ret = IF Known(p, t) THEN OK
                  ELSE IF TOLERANT \in flags THEN AGAIN ELSE UNKNOWN_TYPE
      BY <1>6, <2>2 DEF Verdict
    <3> HIDE DEF t
    <3> QED
      BY <1>6, <3>1, <3>2 DEF WalkGoes
  <2> QED
    BY <2>1, <2>2
<1>7. CASE pos \in p.items /\ Refused(p, pos, flags) /\ r.ret = BAD
  <2> DEFINE j == EndOf(p, pos)
  <2>1. /\ RECURSE \notin flags /\ IsDevice(p, pos)
        /\ j \in p.items /\ IsDevice(p, j)
    BY <1>7 DEF Refused
  <2>2. j > pos
    BY <1>7, ItemFacts
  <2>3. j \in Ahead(p, pos, flags)
    BY <1>3, <1>7, <2>1, <2>2 DEF Ahead, Peers
  <2> HIDE DEF j
  <2>4. j \in Ahead(p, from, flags)
    BY <2>3 DEF OnWay
  <2> QED
    BY <1>2, <1>7, <2>1, <2>2, <2>4 DEF WalkRefused
<1> QED
  BY <1>1, <1>4, <1>5, <1>6, <1>7

-----------------------------------------------------------------------------
(* The words of KlvCursor in those of this module.                          *)
LEMMA CodesAgree ==
  /\ Promise!OK = OK /\ Promise!BAD = BAD /\ Promise!BUFFER_END = BUFFER_END
  /\ Promise!FIND = FIND /\ Promise!LAST = LAST /\ Promise!UNKNOWN_TYPE = UNKNOWN_TYPE
  /\ Promise!RECURSE = RECURSE /\ Promise!TOLERANT = TOLERANT
  /\ Promise!DEVC = DEVC /\ Promise!COMPRESSED = COMPRESSED
  /\ Promise!Flags = Flags /\ Promise!Ops = Ops /\ Promise!Reserved = Reserved
BY DEF Promise!OK, OK, Promise!BAD, BAD, Promise!BUFFER_END, BUFFER_END, Promise!FIND, FIND,
   Promise!LAST, LAST, Promise!UNKNOWN_TYPE, UNKNOWN_TYPE, Promise!RECURSE, RECURSE,
   Promise!TOLERANT, TOLERANT, Promise!DEVC, DEVC, Promise!COMPRESSED, COMPRESSED,
   Promise!Flags, Flags, Promise!Ops, Ops, Promise!Reserved, Reserved

LEMMA EntriesAgree ==
  /\ Promise!p = payload
  /\ \A p, i : Promise!IsDevice(p, i) = IsDevice(p, i)
  /\ \A p, i : Promise!IsNest(p, i) = IsNest(p, i)
  /\ \A p, i : Promise!KeyOf(p, i) = KeyOf(p, i)
  /\ \A p, i : Promise!EndOf(p, i) = EndOf(p, i)
<1>1. Promise!p = payload
  BY DEF Promise!p, payload
<1>2. \A p, i : Promise!IsDevice(p, i) = IsDevice(p, i)
  BY DEF Promise!IsDevice, IsDevice
<1>3. \A p, i : Promise!IsNest(p, i) = IsNest(p, i)
  BY DEF Promise!IsNest, IsNest, Promise!TypeOf, TypeOf, Promise!NEST, NEST
<1>4. \A p, i : Promise!KeyOf(p, i) = KeyOf(p, i)
  BY DEF Promise!KeyOf, KeyOf
<1>5. \A p, i : Promise!EndOf(p, i) = EndOf(p, i)
  BY DEF Promise!EndOf, EndOf, Promise!SizeAt, SizeAt, Promise!DataLongs, DataLongs
<1> QED
  BY <1>1, <1>2, <1>3, <1>4, <1>5

LEMMA KnownAgrees == \A p, i : Promise!Known(p, i) = Known(p, i)
<1>1. \A type : Promise!SizeofType(type) = SizeofType(type)
  BY DEF Promise!SizeofType, SizeofType
<1>2. \A type : Promise!KnownType(type) = KnownType(type)
  BY <1>1 DEF Promise!KnownType, KnownType, Promise!NEST, NEST, Promise!COMPLEX, COMPLEX,
              Promise!COMPRESSED, COMPRESSED
<1> QED
  BY <1>2 DEF Promise!Known, Known, Promise!TypeOf, TypeOf

(* The route of KlvCursor is the set of entries ahead.                      *)
LEMMA RoutesAgree ==
  /\ \A i : Promise!Siblings(i) = Peers(payload, i)
  /\ \A i, how : Promise!Route(i, how) = Ahead(payload, i, how)
  /\ \A S : Promise!KnownOf(S) = {j \in S : Known(payload, j)}
  /\ \A S, k : Promise!Keyed(S, k) = {j \in S : KeyOf(payload, j) = k}
  /\ \A i, how : Promise!OverDevices(i, how) <=>
       i \in payload.items /\ IsDevice(payload, i) /\ RECURSE \notin how
<1>1. \A i : Promise!Siblings(i) = Peers(payload, i)
  BY EntriesAgree DEF Promise!Siblings, Peers
<1>2. \A i, how : Promise!Route(i, how) = Ahead(payload, i, how)
  BY <1>1, EntriesAgree, CodesAgree DEF Promise!Route, Ahead
<1>3. \A S : Promise!KnownOf(S) = {j \in S : Known(payload, j)}
  BY EntriesAgree, KnownAgrees DEF Promise!KnownOf
<1>4. \A S, k : Promise!Keyed(S, k) = {j \in S : KeyOf(payload, j) = k}
  BY EntriesAgree DEF Promise!Keyed
<1>5. \A i, how : Promise!OverDevices(i, how) <=>
       i \in payload.items /\ IsDevice(payload, i) /\ RECURSE \notin how
  BY EntriesAgree, CodesAgree DEF Promise!OverDevices
<1> QED
  BY <1>1, <1>2, <1>3, <1>4, <1>5

(* The route depends on the flags by RECURSE only.                          *)
LEMMA AheadFlags ==
  ASSUME NEW p, NEW i, NEW flags, NEW how, RECURSE \in flags <=> RECURSE \in how
  PROVE  Ahead(p, i, flags) = Ahead(p, i, how)
BY DEF Ahead

LEMMA LeastEntry ==
  ASSUME NEW S, S \subseteq Nat, S # {}
  PROVE  \E m \in S : \A j \in S : m <= j
<1> DEFINE R == OpToRel(<, Nat)
<1>1. IsWellFoundedOn(R, Nat)
  BY NatLessThanWellFounded
<1> HIDE DEF R
<1>2. PICK m \in S : \A j \in S : <<j, m>> \notin R
  BY <1>1, WFMin
<1>3. \A j \in S : ~(j < m)
  BY <1>2 DEF R, OpToRel
<1> QED
  BY <1>3

(* The entry KlvCursor answers with, found by a walk.                       *)
LEMMA FirstIs ==
  ASSUME NEW S, S \subseteq Nat, NEW m \in S, \A j \in S : m <= j
  PROVE  Promise!First(S) = m
<1>1. \A n \in S : (\A j \in S : n <= j) => n = m
  <2> TAKE n \in S
  <2>1. m <= n /\ n \in Nat /\ m \in Nat
    OBVIOUS
  <2> QED
    BY <2>1
<1>2. /\ (CHOOSE i \in S : \A j \in S : i <= j) \in S
      /\ \A j \in S : (CHOOSE i \in S : \A k \in S : i <= k) <= j
  OBVIOUS
<1> QED
  BY <1>1, <1>2 DEF Promise!First

(* The last entry of a set, likewise.                                       *)
LEMMA FinalIs ==
  ASSUME NEW S, S \subseteq Nat, NEW m \in S, \A j \in S : j <= m
  PROVE  Promise!Final(S) = m
<1>1. \A n \in S : (\A j \in S : j <= n) => n = m
  <2> TAKE n \in S
  <2>1. n <= m /\ n \in Nat /\ m \in Nat
    OBVIOUS
  <2> QED
    BY <2>1
<1>2. /\ (CHOOSE i \in S : \A j \in S : j <= i) \in S
      /\ \A j \in S : j <= (CHOOSE i \in S : \A k \in S : k <= i)
  OBVIOUS
<1> QED
  BY <1>1, <1>2 DEF Promise!Final

(* Where the promise has no say which entry is first, there is one.         *)
LEMMA FirstOf ==
  ASSUME NEW S, S \subseteq Nat, S # {}
  PROVE  Promise!First(S) \in S /\ \A j \in S : Promise!First(S) <= j
<1>1. PICK m \in S : \A j \in S : m <= j
  BY LeastEntry
<1> QED
  BY <1>1, FirstIs

LEMMA CountsAgree == \A S : Promise!Cardinality(S) = Cardinality(S)
BY DEF Promise!Cardinality, Cardinality, Promise!IsFiniteSet, IsFiniteSet

-----------------------------------------------------------------------------
(***************************************************************************)
(* What the running call has done so far, in terms of the entry i it was   *)
(* made at: which entries of the route are behind it, and that none of     *)
(* them would have ended it.                                               *)
(***************************************************************************)
NextKept(p, i, cl) ==
  /\ OnWay(p, i, cl.ms.pos, cl.flags)
  /\ cl.ms.pos # i => TOLERANT \in cl.flags
  /\ \A j \in Ahead(p, i, cl.flags) : j <= cl.ms.pos => ~Known(p, j)

FindNextKept(p, i, cl) ==
  /\ OnWay(p, i, cl.ms.pos, cl.flags)
  /\ \A j \in Ahead(p, i, cl.flags) : j <= cl.ms.pos =>
       /\ ~(Known(p, j) /\ KeyOf(p, j) = cl.key)
       /\ Known(p, j) \/ TOLERANT \in cl.flags

(* GPMF_FindPrev: the entries from the start of the nest to the one at i;   *)
(* the first of them is compared whatever its type is.                      *)
Preceding(p, i) == {j \in Peers(p, i) : j < i}

Hit(p, i, key, j) == KeyOf(p, j) = key /\ (Known(p, j) \/ j = p.up[i] + 2)

Wall(p, i, flags, j) == TOLERANT \notin flags /\ ~Known(p, j) /\ j # p.up[i] + 2

Missed(p, i, key, flags) ==
  \A h \in Preceding(p, i) : Hit(p, i, key, h) =>
    \E w \in Preceding(p, i) : Wall(p, i, flags, w) /\ w <= h

FindPrevKept(p, i, cl) ==
  /\ cl.phase = "start" => cl.ms.pos = i
  /\ cl.phase # "start" => i \in p.items /\ ~IsDevice(p, i) /\ p.lev[i] # 0
  /\ cl.phase \in {"scan", "tail"} /\ InItsNest(cl) =>
       /\ cl.mark = i /\ cl.ms.pos \in Peers(p, i)
       /\ \A j \in Preceding(p, i) : j < cl.ms.pos =>
            ~Hit(p, i, cl.key, j) /\ ~Wall(p, i, cl.flags, j)
       /\ cl.phase = "scan" => cl.ms.pos = p.up[i] + 2 \/ Known(p, cl.ms.pos)
       /\ cl.phase = "tail" => /\ cl.ms.pos # p.up[i] + 2 /\ ~Known(p, cl.ms.pos)
                               /\ TOLERANT \in cl.flags
  /\ ~InItsNest(cl) => Missed(p, i, cl.key, cl.flags) /\ RECURSE \in cl.flags

(* GPMF_SeekToSamples: from is where the scan starts.                       *)
Inwards == {RECURSE, TOLERANT}
Onwards == {TOLERANT}

Entered(p, i, from) ==
  /\ i \in p.items /\ from \in p.items
  /\ IF IsNest(p, i)
     THEN /\ from \in Ahead(p, i, Inwards) /\ Known(p, from)
          /\ \A j \in Ahead(p, i, Inwards) : Known(p, j) => from <= j
     ELSE from = i

Holds(p, i) ==
  \/ IsNest(p, i)
  \/ EndOf(p, i) = EndOf(p, p.up[i])
  \/ KeyOf(p, i) = KeyOf(p, EndOf(p, i))

SeekKept(p, i, cl) ==
  /\ cl.phase = "start" => cl.ms.pos = i
  /\ cl.phase = "open" =>
       /\ i \in p.items /\ IsNest(p, i) /\ OnWay(p, i, cl.ms.pos, Inwards)
       /\ \A j \in Ahead(p, i, Inwards) : j <= cl.ms.pos => ~Known(p, j)
  /\ cl.phase = "scan" => \E from \in p.items :
       /\ Entered(p, i, from) /\ OnWay(p, from, cl.ms.pos, Onwards)
       /\ \A j \in Ahead(p, from, Onwards) : j <= cl.ms.pos =>
            ~(Known(p, j) /\ Holds(p, j))

Met(p, i, pos) ==
  {j \in Ahead(p, i, Onwards) : Known(p, j) /\ KeyOf(p, j) = KeyOf(p, i) /\ j <= pos}

CountKept(p, i, cl) ==
  /\ i \in p.items /\ cl.key = KeyOf(p, i) /\ cl.flags = Onwards
  /\ OnKlv(p, cl.ms) /\ OnWay(p, i, cl.ms.pos, Onwards)
  /\ cl.count = IF Met(p, i, cl.ms.pos) = {} THEN 0
                ELSE Cardinality(Met(p, i, cl.ms.pos)) + 1

Kept(p, i, cl) ==
  /\ cl.op = "next" => NextKept(p, i, cl)
  /\ cl.op = "findnext" => FindNextKept(p, i, cl)
  /\ cl.op = "findprev" => FindPrevKept(p, i, cl)
  /\ cl.op = "seek" => cl.phase # "tail" /\ SeekKept(p, i, cl)
  /\ cl.op = "count" => CountKept(p, i, cl)

KeptInv ==
  /\ call.op = "none" => call = Idle
  /\ Kept(payload, cur[call.on].pos, call)

PromiseInv == TypeInv /\ KlvInv /\ KeptInv

-----------------------------------------------------------------------------
(* How a call starts, goes on and ends, here and in KlvCursor.              *)
Asking(cl) == [op |-> cl.op, on |-> cl.on, key |-> cl.key, flags |-> cl.flags]

LEMMA BeginPromised ==
  ASSUME PromiseInv, NEW op \in Ops, NEW c \in Cursors, NEW key \in FourCC,
         NEW flags \in Flags, NEW ms, NEW level, Begin(op, c, key, flags, ms, level),
         \A cl : /\ cl.op = op /\ cl.key = key /\ cl.flags = flags /\ cl.ms = ms
                 /\ cl.phase = "start" /\ cl.level = level /\ cl.count = 0
                 => Kept(payload, cur[c].pos, cl)
  PROVE  KeptInv' /\ Promise!Ask
<1>1. /\ call' = [Idle EXCEPT !.op = op, !.on = c, !.key = key, !.flags = flags,
                              !.ms = ms, !.level = level]
      /\ UNCHANGED <<buffer, cur, life, answer>> /\ call.op = "none"
  BY DEF Begin, Running
<1>2. /\ call'.op = op /\ call'.ms = ms /\ call'.level = level /\ call'.key = key
      /\ call'.phase = "start" /\ call'.on = c /\ call'.flags = flags /\ call'.count = 0
  BY <1>1 DEF Idle
<1>3. call = Idle /\ payload' = payload
  BY <1>1 DEF PromiseInv, KeptInv, payload
<1>4. op # "none"
  BY DEF Ops
<1>5. KeptInv'
  BY <1>1, <1>2, <1>3, <1>4 DEF KeptInv
<1>6. Asking(call) = Promise!Nothing
  BY <1>3 DEF Idle, Promise!Nothing, Asking, DEVC, Promise!DEVC
<1>7. Asking(call)' \in Promise!Request
  BY <1>2, CodesAgree DEF Asking, Promise!Request
<1>8. [d \in Cursors |-> Place(d)]' = [d \in Cursors |-> Place(d)]
  BY <1>1 DEF Place
<1>9. Promise!Ask
  BY <1>1, <1>6, <1>7, <1>8 DEF Promise!Ask, Asking
<1> QED
  BY <1>5, <1>9

LEMMA GoOnPromised ==
  ASSUME PromiseInv, NEW next \in Call, GoOn(next), Asking(next) = Asking(call),
         call.op # "none", Kept(payload, cur[call.on].pos, next)
  PROVE  KeptInv' /\ UNCHANGED Promise!avars
<1> DEFINE turned == [next EXCEPT !.turn = 1 - next.turn]
<1>1. call' = turned /\ UNCHANGED <<buffer, cur, life, answer>>
  BY DEF GoOn
<1>2. /\ turned.op = next.op /\ turned.ms = next.ms /\ turned.level = next.level
      /\ turned.phase = next.phase /\ turned.mark = next.mark /\ turned.count = next.count
      /\ turned.on = next.on /\ turned.key = next.key /\ turned.flags = next.flags
  BY DEF Call
<1> HIDE DEF turned
<1>3. /\ next.op = call.op /\ next.on = call.on
      /\ next.key = call.key /\ next.flags = call.flags
  BY DEF Asking
<1>4. payload' = payload
  BY <1>1 DEF payload
<1>5. Kept(payload, cur[call.on].pos, call')
  BY <1>1, <1>2 DEF Kept, NextKept, FindNextKept, FindPrevKept, InItsNest, SeekKept, CountKept
<1>6. KeptInv'
  BY <1>1, <1>2, <1>3, <1>4, <1>5 DEF KeptInv
<1>7. [d \in Cursors |-> Place(d)]' = [d \in Cursors |-> Place(d)]
  BY <1>1 DEF Place
<1>8. UNCHANGED Promise!avars
  BY <1>1, <1>2, <1>3, <1>7 DEF Promise!avars
<1> QED
  BY <1>6, <1>8

Spot(state, ms) ==
  CASE state = "raw" -> 0 - 1 [] state = "spent" -> 0 - 2 [] state = "live" -> ms.pos

(* A call that ends at another entry moves its cursor there, no other.      *)
LEMMA MoveOf ==
  ASSUME TypeInv, NEW code, NEW ms, NEW state \in {"raw", "live", "spent"},
         Finish(code, ms, state)
  PROVE  Promise!Move(Spot(state, ms), code) /\ KeptInv'
<1>1. /\ cur' = [cur EXCEPT ![call.on] = ms]
      /\ life' = [life EXCEPT ![call.on] = state]
      /\ call' = Idle /\ buffer' = buffer
      /\ answer' = [code |-> code, count |-> 0]
  BY DEF Finish
<1>2. Asking(call)' = Promise!Nothing
  BY <1>1 DEF Idle, Promise!Nothing, DEVC, Promise!DEVC, Asking
<1>3. /\ life \in [Cursors -> {"raw", "live", "spent"}] /\ cur \in [Cursors -> Stream]
      /\ call.on \in Cursors
  BY DEF TypeInv, TypeOK, Call
<1>4. ASSUME NEW d \in Cursors
      PROVE  Place(d)' = IF d = call.on THEN Spot(state, ms) ELSE Place(d)
  <2>1. life'[d] = IF d = call.on THEN state ELSE life[d]
    BY <1>1, <1>3
  <2>2. cur'[d] = IF d = call.on THEN ms ELSE cur[d]
    BY <1>1, <1>3
  <2>3. life[d] \in {"raw", "live", "spent"}
    BY <1>3
  <2> QED
    BY <2>1, <2>2, <2>3 DEF Place, Spot
<1>5. [d \in Cursors |-> Place(d)]' =
        [[d \in Cursors |-> Place(d)] EXCEPT ![call.on] = Spot(state, ms)]
  BY <1>3, <1>4
<1>6. Promise!Move(Spot(state, ms), code)
  BY <1>1, <1>2, <1>5 DEF Promise!Move, Promise!c, Asking
<1>7. KeptInv'
  BY <1>1, IdleCall DEF KeptInv, Kept
<1> QED
  BY <1>6, <1>7

(* The cursor of a walking call is placed, at the entry the call is made at.*)
LEMMA AtPlace ==
  ASSUME PromiseInv, Sound(payload), call.op \notin {"none", "init"}
  PROVE  LET at == [d \in Cursors |-> Place(d)]
             i  == cur[call.on].pos
         IN /\ at[call.on] = i /\ Placed(payload, i) /\ OnKlv(payload, cur[call.on])
            /\ call.on \in Cursors /\ Spot(life[call.on], cur[call.on]) = i
            /\ life[call.on] = "live"
<1>1. call.on \in Cursors /\ life[call.on] = "live"
  BY DEF PromiseInv, TypeInv, TypeOK, Call, CallFits
<1>2. OnKlv(payload, cur[call.on])
  BY <1>1 DEF PromiseInv, KlvInv, KlvAt
<1>3. Placed(payload, cur[call.on].pos)
  BY <1>2 DEF OnKlv, Placed
<1> QED
  BY <1>1, <1>2, <1>3 DEF Place, Spot

(* A call that ends where it was made moves no cursor.                      *)
LEMMA StayOf ==
  ASSUME PromiseInv, Sound(payload), call.op \notin {"none", "init"}, NEW code, Restore(code)
  PROVE  Promise!Stay(code) /\ KeptInv'
<1>1. /\ [d \in Cursors |-> Place(d)][call.on] = cur[call.on].pos
      /\ Spot(life[call.on], cur[call.on]) = cur[call.on].pos /\ life[call.on] = "live"
  BY AtPlace
<1>2. Finish(code, cur[call.on], "live")
  BY DEF Restore
<1>3. Promise!Move(Spot("live", cur[call.on]), code) /\ KeptInv'
  BY <1>2, MoveOf DEF PromiseInv
<1> QED
  BY <1>1, <1>3 DEF Promise!Stay, Promise!c

LEMMA AskedIs ==
  /\ \A op : Promise!Asked(op) <=> call.op = op
  /\ Promise!c = call.on /\ Promise!flags = call.flags /\ Promise!key = call.key
BY DEF Promise!Asked, Promise!c, Promise!flags, Promise!key

LEMMA PlacedIs ==
  ASSUME PromiseInv, Sound(payload), call.op \notin {"none", "init"}
  PROVE  Promise!Placed
BY AtPlace, EntriesAgree, AskedIs DEF Promise!Placed, Placed

-----------------------------------------------------------------------------
(* GPMF_Next.                                                               *)
LEMMA NextAnswers ==
  ASSUME PromiseInv, Sound(payload), call.op = "next", NEW place, NEW code,
         Promise!Move(place, code),
         LET i     == cur[call.on].pos
             over  == i \in payload.items /\ IsDevice(payload, i) /\ RECURSE \notin call.flags
             route == Ahead(payload, i, call.flags)
             seen  == IF TOLERANT \in call.flags THEN {j \in route : Known(payload, j)}
                      ELSE route
         IN \/ /\ seen # {} /\ place = Promise!First(seen)
               /\ code = IF Known(payload, place) THEN OK ELSE UNKNOWN_TYPE
            \/ /\ seen = {} /\ place = payload.longs /\ code = BUFFER_END
               /\ i = payload.longs \/ RECURSE \in call.flags \/ over
            \/ /\ seen = {} /\ place = Promise!Final(route \union {i}) /\ code = LAST
               /\ ~(i = payload.longs \/ RECURSE \in call.flags \/ over)
            \/ over /\ route # {} /\ place = 0 - 2 /\ code = BAD
  PROVE  Promise!Step
<1>1. [d \in Cursors |-> Place(d)][call.on] = cur[call.on].pos
  BY AtPlace
<1> QED
  BY <1>1, AskedIs, PlacedIs, EntriesAgree, KnownAgrees, RoutesAgree, CodesAgree
     DEF Promise!Step, Promise!Lost

(* The stream of a running call is in Call, with another stream or phase.   *)
LEMMA CallWith ==
  ASSUME TypeInv, NEW ms \in Stream, NEW phase \in {"start", "open", "scan", "tail"}
  PROVE  LET on  == [call EXCEPT !.ms = ms]
             to  == [call EXCEPT !.phase = phase, !.ms = ms]
         IN /\ on \in Call /\ on.ms = ms /\ on.phase = call.phase
            /\ to \in Call /\ to.ms = ms /\ to.phase = phase
            /\ \A cl \in {on, to} :
                 /\ Asking(cl) = Asking(call) /\ cl.op = call.op /\ cl.on = call.on
                 /\ cl.key = call.key /\ cl.flags = call.flags /\ cl.level = call.level
                 /\ cl.mark = call.mark /\ cl.count = call.count
<1>1. call \in Call
  BY DEF TypeInv, TypeOK
<1>2. [call EXCEPT !.ms = ms] \in Call /\ [call EXCEPT !.phase = phase, !.ms = ms] \in Call
  BY <1>1, Zenon DEF Call
<1> QED
  BY <1>1, <1>2 DEF Call, Asking

(* What a pass makes of the walk of the running call.                       *)
LEMMA CallWalks ==
  ASSUME PromiseInv, Sound(payload), OnKlv(payload, call.ms), NEW flags,
         NEW r \in GPMF_Next(words, call.ms, flags), NEW from,
         OnWay(payload, from, call.ms.pos, flags)
  PROVE  \/ WalkEnds(payload, from, call.ms.pos, flags, r)
         \/ NestEnds(payload, from, call.ms.pos, flags, r, call.ms)
         \/ WalkGoes(payload, from, call.ms.pos, flags, r)
         \/ WalkRefused(payload, from, call.ms.pos, flags, r)
<1>1. Outlined(payload) /\ Usable(call.ms) /\ words = payload.words
  BY SoundOutlined DEF PromiseInv, TypeInv, CallFits, words
<1> QED
  BY <1>1, PassOnWay

LEMMA AheadNats ==
  ASSUME TypeInv, Sound(payload)
  PROVE  /\ payload.items \subseteq Nat /\ payload.longs \in Nat
         /\ payload.longs \notin payload.items
         /\ \A i, flags : Ahead(payload, i, flags) \subseteq payload.items
         /\ \A i : Peers(payload, i) \subseteq payload.items
<1>1. \A j \in payload.items : j \in Nat /\ j + 1 < payload.longs /\ payload.longs \in Nat
  BY SoundOutlined, ItemFacts
<1>2. payload.longs \in Nat
  BY PayloadReads DEF TypeInv
<1>3. payload.longs \notin payload.items
  BY <1>1
<1> QED
  BY <1>1, <1>2, <1>3 DEF Ahead, Peers

(* A pass of GPMF_Next answers as promised or leaves the account kept.      *)
LEMMA NextPassPromised ==
  ASSUME PromiseInv, Sound(payload), NextPass
  PROVE  KeptInv' /\ (Promise!Step \/ UNCHANGED Promise!avars)
<1> DEFINE p     == payload
           i     == cur[call.on].pos
           pos   == call.ms.pos
           flags == call.flags
           route == Ahead(p, i, flags)
           seen  == IF TOLERANT \in flags THEN {j \in route : Known(p, j)} ELSE route
           over  == i \in p.items /\ IsDevice(p, i) /\ RECURSE \notin flags
<1> PICK r \in GPMF_Next(words, call.ms, flags) :
      IF r.ret = AGAIN THEN GoOn([call EXCEPT !.ms = r.ms])
      ELSE Finish(r.ret, r.ms, IF r.ret = BAD THEN "spent" ELSE "live")
  BY DEF NextPass
<1>1. /\ call.op = "next" /\ OnKlv(p, call.ms) /\ NextKept(p, i, call) /\ TypeInv
      /\ Placed(p, i) /\ Outlined(p)
  BY AtPlace, SoundOutlined
     DEF NextPass, Running, PromiseInv, KlvInv, KlvCall, KeptInv, Kept
<1>2. /\ OnWay(p, i, pos, flags)
      /\ pos # i => TOLERANT \in flags
      /\ \A j \in route : j <= pos => ~Known(p, j)
  BY <1>1 DEF NextKept
<1>3. /\ p.items \subseteq Nat /\ p.longs \in Nat /\ p.longs \notin p.items
      /\ route \subseteq p.items
  BY <1>1, AheadNats
<1>4. i \in Nat /\ pos \in Nat /\ (pos = i \/ pos \in route) /\ \A j \in route : i < j
  BY <1>1, <1>2, <1>3, WayStarts DEF OnWay, Placed
<1>5. \/ WalkEnds(p, i, pos, flags, r)
      \/ NestEnds(p, i, pos, flags, r, call.ms)
      \/ WalkGoes(p, i, pos, flags, r)
      \/ WalkRefused(p, i, pos, flags, r)
  BY <1>1, <1>2, CallWalks
<1>6. ASSUME \A j \in route : j <= pos PROVE seen = {} /\ (TOLERANT \in flags \/ pos = i)
  <2>1. CASE TOLERANT \in flags
    BY <1>2, <1>6, <2>1
  <2>2. CASE TOLERANT \notin flags
    <3>1. pos = i
      BY <1>2, <2>2
    <3>2. ASSUME NEW j \in route PROVE FALSE
      <4>1. j <= i /\ i < j /\ j \in Nat
        BY <1>3, <1>4, <1>6, <3>1, <3>2
      <4> QED
        BY <1>4, <4>1
    <3> QED
      BY <2>2, <3>1, <3>2
  <2> QED
    BY <2>1, <2>2
<1>7. CASE WalkEnds(p, i, pos, flags, r)
  <2>1. /\ r.ret = BUFFER_END /\ r.ms.pos = p.longs
        /\ i = p.longs \/ RECURSE \in flags \/ over
    BY <1>7 DEF WalkEnds
  <2>2. seen = {}
    BY <1>6, <1>7 DEF WalkEnds
  <2>3. Finish(BUFFER_END, r.ms, "live")
    BY <2>1 DEF BUFFER_END, AGAIN, BAD
  <2>4. Promise!Move(p.longs, BUFFER_END) /\ KeptInv'
    BY <1>1, <2>1, <2>3, MoveOf DEF Spot
  <2> HIDE DEF seen
  <2> QED
    BY <1>1, <2>1, <2>2, <2>4, NextAnswers DEF seen
<1>8. CASE NestEnds(p, i, pos, flags, r, call.ms)
  <2>1. /\ r.ret = LAST /\ r.ms = call.ms /\ \A j \in route : j <= pos
        /\ ~(i = p.longs \/ RECURSE \in flags \/ over)
    BY <1>3, <1>8 DEF NestEnds, Result
  <2>2. seen = {}
    BY <1>6, <2>1
  <2>3. pos = Promise!Final(route \union {i})
    <3>1. pos \in route \union {i} /\ route \union {i} \subseteq Nat
      BY <1>3, <1>4
    <3>2. \A j \in route \union {i} : j <= pos
      BY <1>4, <2>1
    <3> HIDE DEF route, i, pos
    <3> QED
      BY <3>1, <3>2, FinalIs
  <2>4. Finish(LAST, r.ms, "live")
    BY <2>1 DEF LAST, AGAIN, BAD
  <2>5. Promise!Move(pos, LAST) /\ KeptInv'
    BY <1>1, <2>1, <2>4, MoveOf DEF Spot
  <2> HIDE DEF seen
  <2> QED
    BY <1>1, <2>1, <2>2, <2>3, <2>5, NextAnswers DEF seen
<1>9. CASE WalkGoes(p, i, pos, flags, r)
  <2> DEFINE t == r.ms.pos
  <2>1. /\ t \in route /\ pos < t /\ OnWay(p, i, t, flags) /\ Usable(r.ms)
        /\ r.ret = IF Known(p, t) THEN OK ELSE IF TOLERANT \in flags THEN AGAIN ELSE UNKNOWN_TYPE
        /\ \A j \in route : j <= pos \/ t <= j
    BY <1>9 DEF WalkGoes
  <2>2. t \in Nat
    BY <1>3, <2>1
  <2> HIDE DEF t
  <2>3. CASE r.ret = AGAIN
    <3>1. ~Known(p, t) /\ TOLERANT \in flags
      BY <2>1, <2>3 DEF OK, AGAIN, UNKNOWN_TYPE
    <3> DEFINE next == [call EXCEPT !.ms = r.ms]
    <3>2. r.ms \in Stream
      BY <2>1 DEF Usable
    <3>3. /\ next \in Call /\ next.ms = r.ms /\ Asking(next) = Asking(call)
          /\ next.op = call.op /\ next.flags = flags
      BY <1>1, <3>2, CallWith, ZenonT(30)
    <3>4. GoOn(next)
      BY <2>3
    <3> HIDE DEF next
    <3>5. \A j \in route : j <= t => ~Known(p, j)
      BY <1>2, <1>3, <1>4, <2>1, <2>2, <3>1
    <3>6. NextKept(p, i, next)
      BY <2>1, <3>1, <3>3, <3>5 DEF NextKept, t
    <3>7. Kept(p, i, next)
      BY <1>1, <3>3, <3>6 DEF Kept
    <3> QED
      BY <1>1, <3>3, <3>4, <3>7, GoOnPromised
  <2>4. CASE r.ret # AGAIN
    <3>1. t \in seen /\ r.ret = IF Known(p, t) THEN OK ELSE UNKNOWN_TYPE
      BY <2>1, <2>4
    <3>2. \A j \in seen : t <= j
      <4>1. TOLERANT \notin flags => pos = i
        BY <1>2
      <4> QED
        BY <1>2, <1>3, <1>4, <2>1, <4>1
    <3>3. t = Promise!First(seen)
      <4>1. seen \subseteq Nat
        BY <1>3
      <4> HIDE DEF seen
      <4> QED
        BY <3>1, <3>2, <4>1, FirstIs
    <3>4. Finish(r.ret, r.ms, "live")
      BY <2>4, <3>1 DEF OK, UNKNOWN_TYPE, AGAIN, BAD
    <3>5. Promise!Move(t, r.ret) /\ KeptInv'
      BY <1>1, <3>4, MoveOf DEF Spot, t
    <3>6. seen # {}
      BY <3>1
    <3> HIDE DEF seen
    <3> QED
      BY <1>1, <3>1, <3>3, <3>5, <3>6, NextAnswers DEF seen
  <2> QED
    BY <2>3, <2>4
<1>10. CASE WalkRefused(p, i, pos, flags, r)
  <2>1. r.ret = BAD /\ over /\ route # {}
    BY <1>10 DEF WalkRefused
  <2>2. Finish(BAD, r.ms, "spent")
    BY <2>1 DEF BAD, AGAIN
  <2>3. Promise!Move(0 - 2, BAD) /\ KeptInv'
    BY <1>1, <2>2, MoveOf DEF Spot
  <2> QED
    BY <1>1, <2>1, <2>3, NextAnswers
<1> QED
  BY <1>5, <1>7, <1>8, <1>9, <1>10

-----------------------------------------------------------------------------
(* GPMF_FindNext.                                                           *)
LEMMA FindNextAnswers ==
  ASSUME PromiseInv, Sound(payload), call.op = "findnext", NEW place, NEW code,
         Promise!Move(place, code),
         LET i     == cur[call.on].pos
             over  == i \in payload.items /\ IsDevice(payload, i) /\ RECURSE \notin call.flags
             route == Ahead(payload, i, call.flags)
             keyed == {j \in route : KeyOf(payload, j) = call.key}
             hits  == {j \in keyed : Known(payload, j)}
             walls == IF TOLERANT \in call.flags THEN {}
                      ELSE route \ {j \in route : Known(payload, j)}
             clear == hits # {} /\ \A w \in walls : Promise!First(hits) < w
         IN \/ clear /\ place = Promise!First(hits) /\ code = OK
            \/ ~clear /\ walls # {} /\ place = i /\ code = UNKNOWN_TYPE
            \/ /\ ~clear /\ walls = {} /\ place = i
               /\ code = IF i = payload.longs \/ RECURSE \in call.flags \/ over
                         THEN BUFFER_END ELSE LAST
            \/ over /\ route # {} /\ place = i /\ code = BAD
  PROVE  Promise!FindNext
<1>1. [d \in Cursors |-> Place(d)][call.on] = cur[call.on].pos
  BY AtPlace
<1> QED
  BY <1>1, AskedIs, PlacedIs, EntriesAgree, KnownAgrees, RoutesAgree, CodesAgree
     DEF Promise!FindNext, Promise!Stay

(* What Found answers on an entry.                                          *)
LEMMA FoundIs ==
  ASSUME TypeInv, Sound(payload), NEW r, NEW key, NEW found \in Found(r, key)
  PROVE  /\ found \in BOOLEAN /\ (found => r.ret = OK)
         /\ r.ret = OK /\ r.ms.pos \in payload.items =>
              (found <=> KeyOf(payload, r.ms.pos) = key)
<1>1. words = payload.words /\ DOMAIN words = 0..(payload.longs - 1)
  BY PayloadReads DEF TypeInv, words
<1>2. payload.items \subseteq 0..(payload.longs - 1)
  BY PayloadAssumption DEF TypeInv, TypeOK, payload, PayloadShape
<1> QED
  BY <1>1, <1>2 DEF Found, KeyOf

(* A pass of GPMF_FindNext, likewise.                                       *)
LEMMA FindNextPassPromised ==
  ASSUME PromiseInv, Sound(payload), FindNextPass
  PROVE  KeptInv' /\ (Promise!FindNext \/ UNCHANGED Promise!avars)
<1> DEFINE p     == payload
           i     == cur[call.on].pos
           pos   == call.ms.pos
           flags == call.flags
           key   == call.key
           route == Ahead(p, i, flags)
           keyed == {j \in route : KeyOf(p, j) = key}
           hits  == {j \in keyed : Known(p, j)}
           walls == IF TOLERANT \in flags THEN {} ELSE route \ {j \in route : Known(p, j)}
           over  == i \in p.items /\ IsDevice(p, i) /\ RECURSE \notin flags
           clear == hits # {} /\ \A w \in walls : Promise!First(hits) < w
<1> PICK r \in GPMF_Next(words, call.ms, flags) : \E found \in Found(r, key) :
      IF found THEN Finish(OK, r.ms, "live")
      ELSE IF r.ret \in {OK, AGAIN} THEN GoOn([call EXCEPT !.ms = r.ms])
      ELSE Restore(r.ret)
  BY DEF FindNextPass
<1> PICK found \in Found(r, key) :
      IF found THEN Finish(OK, r.ms, "live")
      ELSE IF r.ret \in {OK, AGAIN} THEN GoOn([call EXCEPT !.ms = r.ms])
      ELSE Restore(r.ret)
  OBVIOUS
<1>1. /\ call.op = "findnext" /\ OnKlv(p, call.ms) /\ FindNextKept(p, i, call) /\ TypeInv
      /\ Placed(p, i) /\ Outlined(p)
  BY AtPlace, SoundOutlined
     DEF FindNextPass, Running, PromiseInv, KlvInv, KlvCall, KeptInv, Kept
<1>2. /\ OnWay(p, i, pos, flags)
      /\ \A j \in route : j <= pos =>
           ~(Known(p, j) /\ KeyOf(p, j) = key) /\ (Known(p, j) \/ TOLERANT \in flags)
  BY <1>1 DEF FindNextKept
<1>3. /\ p.items \subseteq Nat /\ p.longs \in Nat /\ p.longs \notin p.items
      /\ route \subseteq p.items
  BY <1>1, AheadNats
<1>4. i \in Nat /\ pos \in Nat
  BY <1>1, <1>2, <1>3 DEF OnWay, Placed
<1>5. \/ WalkEnds(p, i, pos, flags, r)
      \/ NestEnds(p, i, pos, flags, r, call.ms)
      \/ WalkGoes(p, i, pos, flags, r)
      \/ WalkRefused(p, i, pos, flags, r)
  BY <1>1, <1>2, CallWalks
<1>6. ASSUME \A j \in route : j <= pos PROVE hits = {} /\ walls = {}
  BY <1>2, <1>6
<1>7. /\ found \in BOOLEAN /\ (found => r.ret = OK)
      /\ r.ret = OK /\ r.ms.pos \in p.items => (found <=> KeyOf(p, r.ms.pos) = key)
  BY <1>1, FoundIs
<1>8. CASE WalkEnds(p, i, pos, flags, r)
  <2>1. /\ r.ret = BUFFER_END /\ (i = p.longs \/ RECURSE \in flags \/ over)
    BY <1>8 DEF WalkEnds
  <2>2. hits = {} /\ walls = {}
    BY <1>6, <1>8 DEF WalkEnds
  <2>3. Restore(BUFFER_END)
    BY <1>7, <2>1 DEF BUFFER_END, OK, AGAIN
  <2>4. Promise!Move(i, BUFFER_END) /\ KeptInv'
    BY <1>1, <2>3, AtPlace, AskedIs, StayOf DEF Promise!Stay
  <2> HIDE DEF hits, walls
  <2> QED
    BY <1>1, <2>1, <2>2, <2>4, FindNextAnswers DEF hits, walls
<1>9. CASE NestEnds(p, i, pos, flags, r, call.ms)
  <2>1. /\ r.ret = LAST /\ ~(i = p.longs \/ RECURSE \in flags \/ over)
    BY <1>3, <1>9 DEF NestEnds, Result
  <2>2. hits = {} /\ walls = {}
    BY <1>6, <1>9 DEF NestEnds
  <2>3. Restore(LAST)
    BY <1>7, <2>1 DEF LAST, OK, AGAIN
  <2>4. Promise!Move(i, LAST) /\ KeptInv'
    BY <1>1, <2>3, AtPlace, AskedIs, StayOf DEF Promise!Stay
  <2> HIDE DEF hits, walls
  <2> QED
    BY <1>1, <2>1, <2>2, <2>4, FindNextAnswers DEF hits, walls
<1>10. CASE WalkGoes(p, i, pos, flags, r)
  <2> DEFINE t == r.ms.pos
  <2>1. /\ t \in route /\ t \in p.items /\ pos < t /\ OnWay(p, i, t, flags) /\ Usable(r.ms)
        /\ r.ret = IF Known(p, t) THEN OK ELSE IF TOLERANT \in flags THEN AGAIN ELSE UNKNOWN_TYPE
        /\ \A j \in route : j <= pos \/ t <= j
    BY <1>10 DEF WalkGoes
  <2>2. t \in Nat
    BY <1>3, <2>1
  <2>3. r.ret = OK => (found <=> KeyOf(p, t) = key)
    BY <1>7, <2>1
  <2>4. \A h \in hits : t <= h
    BY <1>2, <2>1
  <2>5. \A w \in walls : t <= w
    BY <1>2, <2>1
  <2>6. hits \subseteq Nat
    BY <1>3
  <2> HIDE DEF t
  <2>7. CASE found
    <3>1. r.ret = OK /\ Known(p, t) /\ KeyOf(p, t) = key
      BY <1>7, <2>1, <2>3, <2>7 DEF OK, AGAIN, UNKNOWN_TYPE
    <3>2. t \in hits /\ t \notin walls
      BY <2>1, <3>1
    <3>3. t = Promise!First(hits)
      <4> HIDE DEF hits
      <4> QED
        BY <2>4, <2>6, <3>2, FirstIs
    <3>4. \A w \in walls : t < w
      <4>1. walls \subseteq Nat
        BY <1>3
      <4> HIDE DEF walls
      <4> QED
        BY <2>2, <2>5, <3>2, <4>1
    <3>5. Finish(OK, r.ms, "live")
      BY <2>7
    <3>6. Promise!Move(t, OK) /\ KeptInv'
      BY <1>1, <3>5, MoveOf DEF Spot, t
    <3> HIDE DEF hits, walls
    <3>7. clear
      BY <3>2, <3>3, <3>4
    <3> QED
      BY <1>1, <3>3, <3>6, <3>7, FindNextAnswers DEF hits, walls
  <2>8. CASE ~found /\ r.ret \in {OK, AGAIN}
    <3> DEFINE next == [call EXCEPT !.ms = r.ms]
    <3>1. r.ms \in Stream
      BY <2>1 DEF Usable
    <3>2. /\ next \in Call /\ next.ms = r.ms /\ Asking(next) = Asking(call)
          /\ next.op = call.op /\ next.flags = flags /\ next.key = key
      BY <1>1, <3>1, CallWith, ZenonT(30)
    <3>3. GoOn(next)
      BY <2>8
    <3> HIDE DEF next
    <3>4. /\ ~(Known(p, t) /\ KeyOf(p, t) = key) /\ (Known(p, t) \/ TOLERANT \in flags)
      BY <2>1, <2>3, <2>8 DEF OK, AGAIN, UNKNOWN_TYPE
    <3>5. \A j \in route : j <= t =>
            ~(Known(p, j) /\ KeyOf(p, j) = key) /\ (Known(p, j) \/ TOLERANT \in flags)
      <4> SUFFICES ASSUME NEW j \in route, j <= t
                   PROVE ~(Known(p, j) /\ KeyOf(p, j) = key) /\ (Known(p, j) \/ TOLERANT \in flags)
        OBVIOUS
      <4>1. j <= pos \/ j = t
        BY <1>3, <1>4, <2>1, <2>2
      <4> QED
        BY <1>2, <3>4, <4>1
    <3>6. FindNextKept(p, i, next)
      BY <2>1, <3>2, <3>5 DEF FindNextKept, t
    <3>7. Kept(p, i, next)
      BY <1>1, <3>2, <3>6 DEF Kept
    <3> QED
      BY <1>1, <3>2, <3>3, <3>7, GoOnPromised
  <2>9. CASE ~found /\ r.ret \notin {OK, AGAIN}
    <3>1. r.ret = UNKNOWN_TYPE /\ ~Known(p, t) /\ TOLERANT \notin flags
      BY <2>1, <2>9
    <3>2. Restore(UNKNOWN_TYPE)
      BY <2>9, <3>1
    <3>3. Promise!Move(i, UNKNOWN_TYPE) /\ KeptInv'
      BY <1>1, <3>2, AtPlace, AskedIs, StayOf DEF Promise!Stay
    <3>4. t \in walls
      BY <2>1, <3>1
    <3>5. ~clear
      <4> SUFFICES ASSUME clear PROVE FALSE
        OBVIOUS
      <4>1. t <= Promise!First(hits) /\ Promise!First(hits) \in Nat
        <5> HIDE DEF hits
        <5> QED
          BY <2>4, <2>6, FirstOf
      <4>2. Promise!First(hits) < t
        <5> HIDE DEF hits, walls
        <5> QED
          BY <3>4
      <4> HIDE DEF hits, walls
      <4> QED
        BY <2>2, <4>1, <4>2
    <3>6. walls # {}
      BY <3>4
    <3> HIDE DEF hits, walls
    <3> QED
      BY <1>1, <3>3, <3>5, <3>6, FindNextAnswers DEF hits, walls
  <2> QED
    BY <1>7, <2>7, <2>8, <2>9
<1>11. CASE WalkRefused(p, i, pos, flags, r)
  <2>1. r.ret = BAD /\ over /\ route # {}
    BY <1>11 DEF WalkRefused
  <2>2. Restore(BAD)
    BY <1>7, <2>1 DEF BAD, OK, AGAIN
  <2>3. Promise!Move(i, BAD) /\ KeptInv'
    BY <1>1, <2>2, AtPlace, AskedIs, StayOf DEF Promise!Stay
  <2> QED
    BY <1>1, <2>1, <2>3, FindNextAnswers
<1> QED
  BY <1>5, <1>8, <1>9, <1>10, <1>11

(* A finder at the end says so, wherever it was before.                     *)
LEMMA FindNextAtEndPromised ==
  ASSUME PromiseInv, Sound(payload), FindNextAtEnd
  PROVE  KeptInv' /\ Promise!FindNext
<1> DEFINE p == payload
           i == cur[call.on].pos
<1>1. /\ call.op = "findnext" /\ OnKlv(p, call.ms) /\ FindNextKept(p, i, call) /\ TypeInv
      /\ Placed(p, i) /\ Restore(BUFFER_END) /\ Outlined(p) /\ AtEnd(call.ms)
  BY AtPlace, SoundOutlined
     DEF FindNextAtEnd, Running, PromiseInv, KlvInv, KlvCall, KeptInv, Kept
<1>2. call.ms.pos = p.longs
  <2>1. call.ms.bound = p.longs /\ (call.ms.pos = p.longs \/ call.ms.pos \in p.items)
    BY <1>1 DEF OnKlv
  <2>2. call.ms.pos \in p.items => call.ms.pos + 1 < p.longs /\ call.ms.pos \in Nat /\ p.longs \in Nat
    BY <1>1, ItemFacts
  <2> QED
    BY <1>1, <2>1, <2>2 DEF AtEnd
<1>3. i = p.longs
  BY <1>1, <1>2, AheadNats DEF FindNextKept, OnWay
<1>4. Ahead(p, i, call.flags) = {}
  BY <1>3 DEF Ahead
<1>5. Promise!Move(i, BUFFER_END) /\ KeptInv'
  BY <1>1, AtPlace, AskedIs, StayOf DEF Promise!Stay
<1> QED
  BY <1>1, <1>3, <1>4, <1>5, FindNextAnswers

-----------------------------------------------------------------------------
(* GPMF_PayloadSampleCount.                                                 *)
Alone(i) ==
  LET desc == words[i + 1]
      rpt  == IF desc.type = COMPRESSED /\ i + 2 < payload.longs
              THEN words[i + 2].rpt ELSE desc.rpt
  IN IF rpt = 0 THEN 1 ELSE rpt

LEMMA CountAnswers ==
  ASSUME PromiseInv, Sound(payload), call.op = "count", call.on \in Cursors,
         cur[call.on].pos \in payload.items,
         NEW n, answer' = [code |-> OK, count |-> n], call' = Idle,
         UNCHANGED <<buffer, cur, life>>,
         LET i    == cur[call.on].pos
             hits == {j \in {k \in Ahead(payload, i, {}) :
                               KeyOf(payload, k) = KeyOf(payload, i)} : Known(payload, j)}
         IN \/ n = IF hits = {} THEN Alone(i) ELSE Cardinality(hits) + 1
            \/ IsDevice(payload, i) /\ n \in {Alone(i)} \union 2..Cardinality(hits)
  PROVE  Promise!Count
<1>1. [d \in Cursors |-> Place(d)][call.on] = cur[call.on].pos
  BY AtPlace
<1>2. Asking(call)' = Promise!Nothing
  BY IdleCall DEF Idle, Promise!Nothing, DEVC, Promise!DEVC, Asking
<1>3. [d \in Cursors |-> Place(d)]' = [d \in Cursors |-> Place(d)]
  BY DEF Place
<1>4. words = payload.words
  BY DEF words
<1>5. answer'.code = OK /\ answer'.count = n
  OBVIOUS
<1> DEFINE i    == cur[call.on].pos
           hits == {j \in {k \in Ahead(payload, i, {}) :
                            KeyOf(payload, k) = KeyOf(payload, i)} : Known(payload, j)}
<1>6. Promise!KnownOf(Promise!Keyed(Promise!Route(i, {}), Promise!KeyOf(Promise!p, i))) = hits
  BY EntriesAgree, RoutesAgree
<1>7. \A desc, rpt :
        /\ desc = Promise!p.words[i + 1]
        /\ rpt = IF desc.type = Promise!COMPRESSED /\ i + 2 < Promise!p.longs
                 THEN Promise!p.words[i + 2].rpt ELSE desc.rpt
        => Alone(i) = IF rpt = 0 THEN 1 ELSE rpt
  BY <1>4, EntriesAgree, CodesAgree DEF Alone
<1> HIDE DEF hits
<1>8. Promise!Asked("count") /\ Promise!c = call.on
  BY AskedIs
<1>9. n = (IF hits = {} THEN Alone(i) ELSE Promise!Cardinality(hits) + 1)
        \/ (Promise!IsDevice(Promise!p, i)
             /\ n \in {Alone(i)} \union 2..Promise!Cardinality(hits))
  BY EntriesAgree, CountsAgree DEF hits
<1> HIDE DEF i
<1>10. [d \in Cursors |-> Place(d)][Promise!c] = i /\ i \in Promise!p.items
  BY <1>1, <1>8, EntriesAgree DEF i
<1>11. answer'.code = Promise!OK
  BY <1>5, CodesAgree
<1> QED
  BY <1>2, <1>3, <1>5, <1>6, <1>7, <1>8, <1>9, <1>10, <1>11 DEF Promise!Count, Asking

(* A pass of GPMF_PayloadSampleCount counts one entry at most.              *)
LEMMA CountPassPromised ==
  ASSUME PromiseInv, Sound(payload), CountPass
  PROVE  KeptInv' /\ (Promise!Count \/ UNCHANGED Promise!avars)
<1> DEFINE p     == payload
           i     == cur[call.on].pos
           pos   == call.ms.pos
           key   == call.key
           route == Ahead(p, i, Onwards)
           hits  == {j \in route : Known(p, j) /\ KeyOf(p, j) = KeyOf(p, i)}
           all   == {j \in {k \in Ahead(p, i, {}) : KeyOf(p, k) = KeyOf(p, i)} : Known(p, j)}
           Count == IF call.count > 0 THEN call.count ELSE Alone(i)
           count(m) == IF Met(p, i, m) = {} THEN 0 ELSE Cardinality(Met(p, i, m)) + 1
<1>1. /\ call.op = "count" /\ CountKept(p, i, call) /\ TypeInv /\ Placed(p, i) /\ Outlined(p)
      /\ call.on \in Cursors /\ call \in Call /\ OnKlv(p, cur[call.on])
  BY AtPlace, SoundOutlined
     DEF CountPass, Running, PromiseInv, KeptInv, Kept, TypeInv, TypeOK
<1>2. /\ i \in p.items /\ key = KeyOf(p, i) /\ call.flags = Onwards
      /\ OnKlv(p, call.ms) /\ OnWay(p, i, pos, Onwards) /\ call.count = count(pos)
  BY <1>1 DEF CountKept
<1>3. /\ p.items \subseteq Nat /\ p.longs \in Nat /\ p.longs \notin p.items
      /\ route \subseteq p.items
  BY <1>1, AheadNats
<1>4. i \in Nat /\ pos \in Nat
  BY <1>1, <1>2, <1>3 DEF OnWay, Placed
<1>5. all = hits /\ \A m : Met(p, i, m) = {j \in hits : j <= m}
  <2>1. Ahead(p, i, {}) = route
    BY AheadFlags DEF Onwards, RECURSE, TOLERANT
  <2> QED
    BY <2>1 DEF Met
<1>6. IsFiniteSet(hits) /\ \A m : IsFiniteSet(Met(p, i, m))
  <2>1. p.items \subseteq 0..(p.longs - 1)
    BY PayloadAssumption, <1>1 DEF TypeInv, TypeOK, payload, PayloadShape
  <2>2. IsFiniteSet(0..(p.longs - 1))
    BY <1>3, FS_Interval
  <2>3. hits \subseteq 0..(p.longs - 1)
    BY <1>3, <2>1
  <2> HIDE DEF hits, route
  <2>4. IsFiniteSet(hits)
    BY <2>2, <2>3, FS_Subset
  <2> QED
    BY <1>5, <2>4, FS_Subset
<1>7. CountOf(cur[call.on]) = Count
  <2>1. i + 1 < p.longs /\ cur[call.on].bound = p.longs
    BY <1>1, <1>2, ItemFacts DEF OnKlv
  <2>2. Repeat(cur[call.on]) = IF words[i + 1].type = COMPRESSED /\ i + 2 < p.longs
                               THEN words[i + 2].rpt ELSE words[i + 1].rpt
    BY <1>3, <1>4, <2>1 DEF Repeat
  <2> QED
    BY <2>2 DEF CountOf, Alone
<1> PICK r \in GPMF_Next(words, call.ms, Onwards) : \E found \in Found(r, key) :
       IF found
       THEN GoOn([call EXCEPT !.ms = r.ms,
                              !.count = IF @ = 0 THEN 2 ELSE @ + 1])
       ELSE IF r.ret \in {OK, AGAIN} THEN GoOn([call EXCEPT !.ms = r.ms])
       ELSE /\ answer' = [code |-> OK, count |-> CountOf(cur[call.on])]
            /\ call' = Idle
            /\ UNCHANGED <<buffer, cur, life>>
  BY <1>2 DEF CountPass
<1> PICK found \in Found(r, key) :
       IF found
       THEN GoOn([call EXCEPT !.ms = r.ms,
                              !.count = IF @ = 0 THEN 2 ELSE @ + 1])
       ELSE IF r.ret \in {OK, AGAIN} THEN GoOn([call EXCEPT !.ms = r.ms])
       ELSE /\ answer' = [code |-> OK, count |-> CountOf(cur[call.on])]
            /\ call' = Idle
            /\ UNCHANGED <<buffer, cur, life>>
  OBVIOUS
<1>8. \/ WalkEnds(p, i, pos, Onwards, r)
      \/ NestEnds(p, i, pos, Onwards, r, call.ms)
      \/ WalkGoes(p, i, pos, Onwards, r)
      \/ WalkRefused(p, i, pos, Onwards, r)
  BY <1>1, <1>2, CallWalks
<1>9. /\ found \in BOOLEAN /\ (found => r.ret = OK)
      /\ r.ret = OK /\ r.ms.pos \in p.items => (found <=> KeyOf(p, r.ms.pos) = key)
  BY <1>1, FoundIs
<1>10. \A m : Cardinality(Met(p, i, m)) \in Nat /\ (Cardinality(Met(p, i, m)) = 0 <=> Met(p, i, m) = {})
  BY <1>6, FS_CardinalityType, FS_EmptySet
<1>11. ASSUME r.ret \notin {OK, AGAIN},
              \/ Met(p, i, pos) = hits
              \/ IsDevice(p, i) /\ Cardinality(Met(p, i, pos)) < Cardinality(hits)
       PROVE  KeptInv' /\ Promise!Count
  <2>1. /\ answer' = [code |-> OK, count |-> Count] /\ call' = Idle
        /\ UNCHANGED <<buffer, cur, life>>
    BY <1>7, <1>9, <1>11
  <2>2. Count = IF Met(p, i, pos) = {} THEN Alone(i) ELSE Cardinality(Met(p, i, pos)) + 1
    BY <1>2, <1>10
  <2>3. \/ Count = IF hits = {} THEN Alone(i) ELSE Cardinality(hits) + 1
        \/ IsDevice(p, i) /\ Count \in {Alone(i)} \union 2..Cardinality(hits)
    <3>1. CASE Met(p, i, pos) = hits
      BY <2>2, <3>1
    <3>2. CASE IsDevice(p, i) /\ Cardinality(Met(p, i, pos)) < Cardinality(hits)
      <4>1. Cardinality(hits) \in Nat
        BY <1>6, FS_CardinalityType
      <4> HIDE DEF hits, Count
      <4> QED
        BY <1>10, <2>2, <3>2, <4>1
    <3> QED
      BY <1>11, <3>1, <3>2
  <2> HIDE DEF Count, hits
  <2>4. Promise!Count
    <3> HIDE DEF all
    <3>1. \/ Count = IF all = {} THEN Alone(i) ELSE Cardinality(all) + 1
          \/ IsDevice(p, i) /\ Count \in {Alone(i)} \union 2..Cardinality(all)
      BY <1>5, <2>3
    <3> QED
      BY <1>1, <1>2, <2>1, <3>1, CountAnswers DEF all
  <2>5. KeptInv'
    BY <2>1, IdleCall DEF KeptInv, Kept
  <2> QED
    BY <2>4, <2>5
<1>12. CASE WalkEnds(p, i, pos, Onwards, r) \/ NestEnds(p, i, pos, Onwards, r, call.ms)
  <2>1. r.ret \in {BUFFER_END, LAST} /\ \A j \in route : j <= pos
    BY <1>12 DEF WalkEnds, NestEnds, Result
  <2>2. Met(p, i, pos) = hits
    BY <1>5, <2>1
  <2>3. r.ret \notin {OK, AGAIN}
    BY <2>1 DEF BUFFER_END, LAST, OK, AGAIN
  <2> QED
    BY <1>11, <2>2, <2>3
<1>13. CASE WalkRefused(p, i, pos, Onwards, r)
  <2>1. PICK j \in route : j > pos /\ IsDevice(p, j)
    BY <1>13 DEF WalkRefused
  <2>2. r.ret = BAD /\ IsDevice(p, i)
    BY <1>13 DEF WalkRefused
  <2>3. j \in hits
    <3>1. KeyOf(p, i) = DEVC /\ KeyOf(p, j) = DEVC /\ j \in p.items
      BY <1>1, <1>2, <1>3, <2>1, <2>2, DeviceFacts DEF KeyOf
    <3>2. TypeOf(p, j) = NEST
      BY <1>1, <2>1, <3>1, DeviceFacts DEF TypeOf
    <3> QED
      BY <2>1, <3>1, <3>2 DEF Known, KnownType
  <2>4. j \notin Met(p, i, pos) /\ Met(p, i, pos) \subseteq hits
    BY <1>3, <1>4, <1>5, <2>1
  <2>5. Cardinality(Met(p, i, pos)) < Cardinality(hits)
    <3> HIDE DEF hits
    <3>1. Cardinality(Met(p, i, pos)) <= Cardinality(hits)
          /\ (Cardinality(Met(p, i, pos)) = Cardinality(hits) => Met(p, i, pos) = hits)
      BY <1>6, <2>4, FS_Subset
    <3>2. Cardinality(hits) \in Nat
      BY <1>6, FS_CardinalityType
    <3> QED
      BY <1>10, <2>3, <2>4, <3>1, <3>2
  <2>6. r.ret \notin {OK, AGAIN}
    BY <2>2 DEF BAD, OK, AGAIN
  <2> QED
    BY <1>11, <2>2, <2>5, <2>6
<1>14. CASE WalkGoes(p, i, pos, Onwards, r)
  <2> DEFINE t == r.ms.pos
  <2>1. /\ t \in route /\ t \in p.items /\ pos < t /\ OnWay(p, i, t, Onwards) /\ Usable(r.ms)
        /\ OnKlv(p, r.ms)
        /\ r.ret = IF Known(p, t) THEN OK ELSE AGAIN
        /\ \A j \in route : j <= pos \/ t <= j
    BY <1>14 DEF WalkGoes, Onwards
  <2>2. t \in Nat
    BY <1>3, <2>1
  <2>3. r.ret = OK => (found <=> KeyOf(p, t) = key)
    BY <1>9, <2>1
  <2>4. r.ms \in Stream
    BY <2>1 DEF Usable
  <2> HIDE DEF t
  <2>5. t \notin Met(p, i, pos)
    BY <1>4, <1>5, <2>1, <2>2
  <2>6. Met(p, i, t) = Met(p, i, pos) \union (IF t \in hits THEN {t} ELSE {})
    BY <1>3, <1>4, <1>5, <2>1, <2>2
  <2>7. found <=> t \in hits
    BY <1>2, <1>9, <2>1, <2>3 DEF OK, AGAIN
  <2>8. ASSUME NEW next \in Call, GoOn(next), next.ms = r.ms, Asking(next) = Asking(call),
               next.op = call.op, next.flags = call.flags, next.key = call.key,
               next.count = count(t)
        PROVE  KeptInv' /\ UNCHANGED Promise!avars
    <3>1. CountKept(p, i, next)
      BY <1>2, <2>1, <2>8 DEF CountKept, t
    <3>2. Kept(p, i, next)
      BY <1>1, <2>8, <3>1 DEF Kept
    <3> QED
      BY <1>1, <2>8, <3>2, GoOnPromised
  <2>9. CASE found
    <3> DEFINE n    == IF call.count = 0 THEN 2 ELSE call.count + 1
               next == [call EXCEPT !.ms = r.ms, !.count = n]
    <3>1. call.count \in Nat /\ n \in Nat
      BY <1>1 DEF Call
    <3>2. GoOn(next)
      BY <2>9
    <3>3. n = count(t)
      <4>1. /\ Met(p, i, t) = Met(p, i, pos) \union {t} /\ IsFiniteSet(Met(p, i, pos))
            /\ Met(p, i, t) # {}
        BY <1>6, <2>6, <2>7, <2>9
      <4>2. Cardinality(Met(p, i, t)) = Cardinality(Met(p, i, pos)) + 1
        BY <2>5, <4>1, FS_AddElement
      <4> QED
        BY <1>2, <1>10, <4>1, <4>2
    <3> HIDE DEF n
    <3>4. next \in Call
      BY <1>1, <2>4, <3>1, Zenon DEF Call
    <3>5. /\ next.ms = r.ms /\ Asking(next) = Asking(call) /\ next.op = call.op
          /\ next.flags = call.flags /\ next.key = call.key /\ next.count = n
      BY <1>1 DEF Call, Asking
    <3> HIDE DEF next
    <3> QED
      BY <2>8, <3>2, <3>3, <3>4, <3>5
  <2>10. CASE ~found
    <3> DEFINE next == [call EXCEPT !.ms = r.ms]
    <3>1. /\ next \in Call /\ next.ms = r.ms /\ Asking(next) = Asking(call)
          /\ next.op = call.op /\ next.flags = call.flags /\ next.key = call.key
          /\ next.count = call.count
      BY <1>1, <2>4, CallWith, ZenonT(30)
    <3>2. GoOn(next)
      BY <2>1, <2>10
    <3>3. count(t) = call.count
      BY <1>2, <2>6, <2>7, <2>10
    <3> HIDE DEF next
    <3> QED
      BY <2>8, <3>1, <3>2, <3>3
  <2> QED
    BY <1>9, <2>9, <2>10
<1> QED
  BY <1>8, <1>12, <1>13, <1>14

-----------------------------------------------------------------------------
(* GPMF_SeekToSamples.                                                      *)
Inside(i) == {j \in Ahead(payload, i, Inwards) : Known(payload, j)}

Good(from) == {j \in Ahead(payload, from, Onwards) : Known(payload, j) /\ Holds(payload, j)}

SeekEnds(i, from, place, code) ==
  LET found == Promise!First(Good(from))
  IN IF i = payload.longs \/ (IsNest(payload, i) /\ Inside(i) = {})
     THEN place = i /\ code = BUFFER_END
     ELSE /\ from = IF IsNest(payload, i) THEN Promise!First(Inside(i)) ELSE i
          /\ \/ /\ Good(from) # {}
                /\ IF ~IsNest(payload, found) /\ EndOf(payload, found) = EndOf(payload, payload.up[found])
                      /\ KeyOf(payload, found) \in Reserved
                   THEN place = i /\ code = FIND ELSE place = found /\ code = OK
             \/ /\ Good(from) = {} /\ place = i
                /\ code = IF IsDevice(payload, from) THEN BUFFER_END ELSE LAST
             \/ /\ IsDevice(payload, from) /\ Ahead(payload, from, Onwards) # {}
                /\ place = i /\ code = BAD

LEMMA SeekAnswers ==
  ASSUME PromiseInv, Sound(payload), call.op = "seek", NEW place, NEW code,
         Promise!Move(place, code), NEW from, SeekEnds(cur[call.on].pos, from, place, code)
  PROVE  Promise!Seek
<1> DEFINE i == cur[call.on].pos
<1>1. [d \in Cursors |-> Place(d)][Promise!c] = i /\ Promise!Asked("seek") /\ Promise!Placed
  BY AtPlace, AskedIs, PlacedIs
<1>2. Promise!KnownOf(Promise!Route(i, {Promise!RECURSE})) = Inside(i)
  <2>1. Ahead(payload, i, {RECURSE}) = Ahead(payload, i, Inwards)
    BY AheadFlags DEF Inwards
  <2> QED
    BY <2>1, RoutesAgree, CodesAgree DEF Inside
<1>3. \A j : Promise!HoldsSamples(j) <=> Holds(payload, j)
  BY EntriesAgree DEF Promise!HoldsSamples, Holds
<1>4. Promise!Route(from, {}) = Ahead(payload, from, Onwards)
  <2>1. Ahead(payload, from, {}) = Ahead(payload, from, Onwards)
    BY AheadFlags DEF Onwards, RECURSE, TOLERANT
  <2> QED
    BY <2>1, RoutesAgree
<1>5. {j \in Promise!KnownOf(Promise!Route(from, {})) : Promise!HoldsSamples(j)} = Good(from)
  BY <1>3, <1>4, RoutesAgree DEF Good
<1>6. \A k : (IF Promise!IsNest(Promise!p, i) THEN k ELSE i) = IF IsNest(payload, i) THEN k ELSE i
  BY EntriesAgree
<1> HIDE DEF i
<1>7. CASE i = payload.longs \/ (IsNest(payload, i) /\ Inside(i) = {})
  <2>1. place = i /\ code = BUFFER_END
    BY <1>7 DEF SeekEnds, i
  <2> QED
    BY <1>1, <1>2, <1>7, <2>1, EntriesAgree, CodesAgree DEF Promise!Seek, Promise!Stay
<1>8. CASE ~(i = payload.longs \/ (IsNest(payload, i) /\ Inside(i) = {}))
  <2> DEFINE found == Promise!First(Good(from))
  <2>1. from = IF Promise!IsNest(Promise!p, i) THEN Promise!First(Inside(i)) ELSE i
    BY <1>8, EntriesAgree DEF SeekEnds, i
  <2>2. Promise!SeekAhead(from) => Promise!Seek
    BY <1>1, <1>2, <1>8, <2>1, EntriesAgree DEF Promise!Seek
  <2>3. CASE /\ Good(from) # {}
             /\ IF ~IsNest(payload, found) /\ EndOf(payload, found) = EndOf(payload, payload.up[found])
                   /\ KeyOf(payload, found) \in Reserved
                THEN place = i /\ code = FIND ELSE place = found /\ code = OK
    <3> HIDE DEF found
    <3>1. IF ~Promise!IsNest(Promise!p, found)
             /\ Promise!EndOf(Promise!p, found) = Promise!EndOf(Promise!p, Promise!p.up[found])
             /\ Promise!KeyOf(Promise!p, found) \in Promise!Reserved
          THEN Promise!Move(i, Promise!FIND) ELSE Promise!Move(found, Promise!OK)
      BY <2>3, EntriesAgree, CodesAgree
    <3> QED
      BY <1>1, <1>5, <2>3, <3>1, <2>2, EntriesAgree DEF Promise!SeekAhead, Promise!Stay, found
  <2>4. CASE /\ Good(from) = {} /\ place = i
             /\ code = IF IsDevice(payload, from) THEN BUFFER_END ELSE LAST
    <3>1. Promise!Move(i, IF Promise!IsDevice(Promise!p, from) THEN Promise!BUFFER_END ELSE Promise!LAST)
      BY <2>4, EntriesAgree, CodesAgree
    <3> QED
      BY <1>1, <1>5, <2>4, <2>2, <3>1 DEF Promise!SeekAhead, Promise!Stay
  <2>5. CASE /\ IsDevice(payload, from) /\ Ahead(payload, from, Onwards) # {}
             /\ place = i /\ code = BAD
    <3>1. Promise!Move(i, Promise!BAD) /\ Promise!IsDevice(Promise!p, from)
          /\ Promise!Route(from, {}) # {}
      BY <1>4, <2>5, EntriesAgree, CodesAgree
    <3> QED
      BY <1>1, <2>2, <3>1 DEF Promise!SeekAhead, Promise!Stay
  <2> QED
    BY <1>8, <2>3, <2>4, <2>5 DEF SeekEnds, i
<1> QED
  BY <1>7, <1>8

SeekIs(p, i) ==
  /\ call.op = "seek" /\ OnKlv(p, call.ms) /\ call.phase # "tail" /\ SeekKept(p, i, call)
  /\ TypeInv /\ Placed(p, i) /\ Outlined(p)

LEMMA SeekGoing ==
  ASSUME PromiseInv, Sound(payload), SeekStart \/ SeekOpen \/ SeekPass
  PROVE  /\ SeekIs(payload, cur[call.on].pos)
         /\ payload.items \subseteq Nat /\ payload.longs \in Nat
         /\ payload.longs \notin payload.items
<1>1. SeekIs(payload, cur[call.on].pos)
  BY AtPlace, SoundOutlined
     DEF SeekStart, SeekOpen, SeekPass, Running, PromiseInv, KlvInv, KlvCall, KeptInv, Kept,
         SeekIs
<1> QED
  BY <1>1, AheadNats DEF SeekIs

(* A seek opens the nest it is at, or scans from where it is.               *)
LEMMA SeekStartPromised ==
  ASSUME PromiseInv, Sound(payload), SeekStart
  PROVE  KeptInv' /\ (Promise!Seek \/ UNCHANGED Promise!avars)
<1> DEFINE p == payload
           i == cur[call.on].pos
<1>1. /\ SeekIs(p, i) /\ call.phase = "start" /\ call.ms.pos = i
      /\ p.items \subseteq Nat /\ p.longs \in Nat /\ p.longs \notin p.items
  BY SeekGoing DEF SeekStart, SeekIs, SeekKept
<1>2. /\ call.ms.bound = p.longs /\ (i \in p.items \/ i = p.longs)
      /\ i \in p.items => i + 1 < p.longs
  BY <1>1, ItemFacts DEF SeekIs, OnKlv
<1>3. CASE i = p.longs
  <2>1. Restore(BUFFER_END)
    BY <1>1, <1>2, <1>3 DEF SeekStart
  <2>2. Promise!Move(i, BUFFER_END) /\ KeptInv'
    BY <1>1, <2>1, AtPlace, AskedIs, StayOf DEF Promise!Stay, SeekIs
  <2> QED
    BY <1>1, <1>3, <2>2, SeekAnswers DEF SeekEnds, SeekIs
<1>4. CASE i \in p.items
  <2> DEFINE phase == IF words[i + 1].type = NEST THEN "open" ELSE "scan"
             next  == [call EXCEPT !.phase = phase]
  <2>1. GoOn(next)
    BY <1>1, <1>2, <1>4 DEF SeekStart
  <2>2. call \in Call /\ words = p.words
    BY <1>1 DEF SeekIs, TypeInv, TypeOK, words
  <2>3. phase = IF IsNest(p, i) THEN "open" ELSE "scan"
    BY <2>2 DEF IsNest, TypeOf
  <2> HIDE DEF phase
  <2>4. next \in Call
    BY <2>2, <2>3 DEF Call
  <2>5. /\ next.ms = call.ms /\ next.phase = phase /\ Asking(next) = Asking(call)
        /\ next.op = "seek"
    BY <1>1, <2>2 DEF Call, Asking, SeekIs
  <2> HIDE DEF next
  <2>6. \A flags : /\ OnWay(p, i, i, flags)
                   /\ \A j \in Ahead(p, i, flags) : ~(j <= i)
    <3> TAKE flags
    <3>1. OnWay(p, i, i, flags) /\ \A j \in Ahead(p, i, flags) : j \in p.items /\ i < j
      BY <1>1, WayStarts DEF SeekIs
    <3> QED
      BY <1>1, <1>4, <3>1
  <2>7. SeekKept(p, i, next)
    <3>1. CASE IsNest(p, i)
      BY <1>1, <1>4, <2>3, <2>5, <2>6, <3>1 DEF SeekKept
    <3>2. CASE ~IsNest(p, i)
      <4>1. Entered(p, i, i)
        BY <1>4, <3>2 DEF Entered
      <4> QED
        BY <1>1, <1>4, <2>3, <2>5, <2>6, <3>2, <4>1 DEF SeekKept
    <3> QED
      BY <3>1, <3>2
  <2>8. Kept(p, i, next)
    BY <2>3, <2>5, <2>7 DEF Kept
  <2> QED
    BY <1>1, <2>1, <2>4, <2>5, <2>8, GoOnPromised DEF SeekIs
<1> QED
  BY <1>2, <1>3, <1>4

(* It enters the nest at the first entry in it that it knows.               *)
LEMMA SeekOpenPromised ==
  ASSUME PromiseInv, Sound(payload), SeekOpen
  PROVE  KeptInv' /\ (Promise!Seek \/ UNCHANGED Promise!avars)
<1> DEFINE p     == payload
           i     == cur[call.on].pos
           pos   == call.ms.pos
           route == Ahead(p, i, Inwards)
<1> PICK r \in GPMF_Next(words, call.ms, Inwards) :
      CASE r.ret = OK    -> GoOn([call EXCEPT !.phase = "scan", !.ms = r.ms])
        [] r.ret = AGAIN -> GoOn([call EXCEPT !.ms = r.ms])
        [] OTHER         -> Restore(r.ret)
  BY DEF SeekOpen, Inwards
<1>1. /\ SeekIs(p, i) /\ call.phase = "open"
      /\ p.items \subseteq Nat /\ p.longs \in Nat /\ p.longs \notin p.items
  BY SeekGoing DEF SeekOpen
<1>2. /\ i \in p.items /\ IsNest(p, i) /\ OnWay(p, i, pos, Inwards)
      /\ \A j \in route : j <= pos => ~Known(p, j)
      /\ call.op = "seek" /\ TypeInv /\ OnKlv(p, call.ms) /\ Outlined(p)
  BY <1>1 DEF SeekIs, SeekKept
<1>3. /\ route \subseteq p.items /\ i \in Nat /\ pos \in Nat
      /\ RECURSE \in Inwards /\ TOLERANT \in Inwards
  BY <1>1, <1>2, AheadNats DEF OnWay, Inwards
<1>4. \/ WalkEnds(p, i, pos, Inwards, r)
      \/ WalkGoes(p, i, pos, Inwards, r)
  BY <1>2, <1>3, CallWalks DEF NestEnds, WalkRefused
<1>5. CASE WalkEnds(p, i, pos, Inwards, r)
  <2>1. r.ret = BUFFER_END /\ Inside(i) = {}
    BY <1>2, <1>5 DEF WalkEnds, Inside
  <2>2. Restore(BUFFER_END)
    BY <2>1 DEF BUFFER_END, OK, AGAIN
  <2>3. Promise!Move(i, BUFFER_END) /\ KeptInv'
    BY <1>2, <2>2, AtPlace, AskedIs, StayOf DEF Promise!Stay
  <2> QED
    BY <1>2, <2>1, <2>3, SeekAnswers DEF SeekEnds
<1>6. CASE WalkGoes(p, i, pos, Inwards, r)
  <2> DEFINE t == r.ms.pos
  <2>1. /\ t \in route /\ t \in p.items /\ pos < t /\ OnWay(p, i, t, Inwards) /\ r.ms \in Stream
        /\ r.ret = IF Known(p, t) THEN OK ELSE AGAIN
        /\ \A j \in route : j <= pos \/ t <= j
    BY <1>3, <1>6 DEF WalkGoes, Usable
  <2>2. t \in Nat
    BY <1>1, <2>1
  <2> DEFINE on == [call EXCEPT !.ms = r.ms]
             to == [call EXCEPT !.phase = "scan", !.ms = r.ms]
  <2>3. /\ on \in Call /\ on.ms = r.ms /\ on.phase = "open"
        /\ to \in Call /\ to.ms = r.ms /\ to.phase = "scan"
        /\ \A cl \in {on, to} : Asking(cl) = Asking(call) /\ cl.op = "seek"
    <3>1. r.ms \in Stream /\ "scan" \in {"start", "open", "scan", "tail"}
      BY <2>1
    <3>2. /\ on \in Call /\ on.ms = r.ms /\ on.phase = call.phase
          /\ Asking(on) = Asking(call) /\ on.op = call.op
      BY <1>2, <3>1, CallWith
    <3>3. /\ to \in Call /\ to.ms = r.ms /\ to.phase = "scan"
          /\ Asking(to) = Asking(call) /\ to.op = call.op
      BY <1>2, <3>1, CallWith
    <3> HIDE DEF on, to
    <3> QED
      BY <1>1, <1>2, <3>2, <3>3
  <2>4. (r.ret = OK => GoOn(to)) /\ (r.ret = AGAIN => GoOn(on))
    BY DEF OK, AGAIN
  <2> HIDE DEF on, to
  <2>5. CASE Known(p, t)
    <3>1. \A j \in route : Known(p, j) => t <= j
      BY <1>2, <2>1
    <3>2. Entered(p, i, t)
      BY <1>2, <2>1, <2>5, <3>1 DEF Entered
    <3>3. Placed(p, t)
      BY <2>1 DEF Placed
    <3> HIDE DEF t
    <3>4. OnWay(p, t, t, Onwards) /\ \A j \in Ahead(p, t, Onwards) : j \in p.items /\ t < j
      BY <1>2, <3>3, WayStarts
    <3>5. \A j \in Ahead(p, t, Onwards) : ~(j <= t)
      BY <1>1, <2>2, <3>4
    <3>6. SeekKept(p, i, to)
      BY <2>3, <3>2, <3>4, <3>5 DEF SeekKept, Entered, t
    <3>7. Kept(p, i, to)
      BY <2>3, <3>6 DEF Kept
    <3> QED
      BY <1>2, <2>1, <2>3, <2>4, <2>5, <3>7, GoOnPromised
  <2>6. CASE ~Known(p, t)
    <3> HIDE DEF t
    <3>1. \A j \in route : j <= t => ~Known(p, j)
      <4> SUFFICES ASSUME NEW j \in route, j <= t PROVE ~Known(p, j)
        OBVIOUS
      <4>1. j <= pos \/ j = t
        BY <1>1, <1>3, <2>1, <2>2
      <4> QED
        BY <1>2, <2>6, <4>1
    <3>2. SeekKept(p, i, on)
      BY <1>2, <2>1, <2>3, <3>1 DEF SeekKept, t
    <3>3. Kept(p, i, on)
      BY <2>3, <3>2 DEF Kept
    <3> QED
      BY <1>2, <2>1, <2>3, <2>4, <2>6, <3>3, GoOnPromised
  <2> QED
    BY <2>5, <2>6
<1> QED
  BY <1>4, <1>5, <1>6

(* What the scan makes of an entry.                                         *)
LEMMA JudgeIs ==
  ASSUME TypeInv, Sound(payload), NEW ms, Usable(ms), OnKlv(payload, ms),
         ms.pos \in payload.items
  PROVE  LET t == ms.pos
         IN Judge(ms) = IF ~Holds(payload, t) THEN AGAIN
                        ELSE IF /\ ~IsNest(payload, t)
                                /\ EndOf(payload, t) = EndOf(payload, payload.up[t])
                                /\ KeyOf(payload, t) \in Reserved
                             THEN FIND ELSE OK
<1> DEFINE p    == payload
           t    == ms.pos
           size == SizeAt(words, t)
<1>1. Outlined(p) /\ words = p.words
  BY SoundOutlined DEF words
<1>2. /\ t \in Nat /\ p.longs \in Nat /\ t + 1 < p.longs /\ size \in Nat
      /\ EndOf(p, t) = t + 2 + size /\ ms.bound = p.longs
  BY <1>1, ItemFacts DEF OnKlv
<1>3. IsValidSize(ms, size)
  <2>1. NearKlv(p, ms)
    BY DEF OnKlv, NearKlv, OnDevice
  <2> QED
    BY <1>1, <2>1, ValidOnKlv
<1>4. ~(ms.pos + 1 >= ms.bound \/ ~IsValidSize(ms, size))
  BY <1>2, <1>3
<1>5. words[ms.pos + 1].type = NEST <=> IsNest(p, t)
  BY <1>1 DEF IsNest, TypeOf
<1>6. CASE IsNest(p, t)
  BY <1>4, <1>5, <1>6 DEF Judge, Holds
<1>7. CASE ~IsNest(p, t)
  <2>1. ~IsDevice(p, t)
    BY <1>1, <1>7, DeviceFacts DEF IsNest, TypeOf
  <2>2. Remaining(ms) = EndOf(p, p.up[t]) - t /\ EndOf(p, p.up[t]) \in Nat
    <3>1. InNest(p, ms) /\ p.up[t] \in p.items
      BY <1>1, <1>2, <2>1, InnerFacts DEF OnKlv
    <3> QED
      BY <1>1, <3>1, ItemFacts DEF InNest, Remaining
  <2> DEFINE e == EndOf(p, t)
             u == EndOf(p, p.up[t])
  <2>3. size + 2 = Remaining(ms) <=> e = u
    <3> HIDE DEF t, u, size
    <3> QED
      BY <1>2, <2>2 DEF u
  <2>4. ms.pos + size + 2 = e
    <3> HIDE DEF size
    <3> QED
      BY <1>2
  <2>5. CASE e = u
    BY <1>1, <1>4, <1>5, <1>7, <2>3, <2>5 DEF Judge, Holds, KeyOf
  <2>6. CASE e # u
    <3>1. e \in p.items
      BY <1>1, <2>1, <2>6, InnerFacts
    <3>2. ~(e >= ms.bound)
      <4>1. e \in Nat /\ e + 1 < p.longs
        BY <1>1, <3>1, ItemFacts
      <4> HIDE DEF e
      <4> QED
        BY <1>2, <4>1
    <3> HIDE DEF e, size
    <3>3. Judge(ms) = IF words[t].key = words[e].key THEN OK ELSE AGAIN
      BY <1>4, <1>5, <1>7, <2>3, <2>4, <2>6, <3>2 DEF Judge, size
    <3>4. Holds(p, t) <=> words[t].key = words[e].key
      BY <1>1, <1>7, <2>6 DEF Holds, KeyOf, e
    <3> QED
      BY <2>6, <3>3, <3>4 DEF e
  <2> QED
    BY <2>5, <2>6
<1> QED
  BY <1>6, <1>7

(* It ends at the first entry that holds the samples.                       *)
LEMMA SeekPassPromised ==
  ASSUME PromiseInv, Sound(payload), SeekPass
  PROVE  KeptInv' /\ (Promise!Seek \/ UNCHANGED Promise!avars)
<1> DEFINE p   == payload
           i   == cur[call.on].pos
           pos == call.ms.pos
<1> PICK r \in GPMF_Next(words, call.ms, Onwards) :
      LET verdict == IF r.ret = OK THEN Judge(r.ms) ELSE r.ret
      IN CASE verdict = OK    -> Finish(OK, r.ms, "live")
           [] verdict = AGAIN -> GoOn([call EXCEPT !.ms = r.ms])
           [] OTHER           -> Restore(verdict)
  BY DEF SeekPass, Onwards
<1> DEFINE verdict == IF r.ret = OK THEN Judge(r.ms) ELSE r.ret
<1>1. /\ SeekIs(p, i) /\ call.phase = "scan"
      /\ p.items \subseteq Nat /\ p.longs \in Nat /\ p.longs \notin p.items
  BY SeekGoing DEF SeekPass
<1>2. call.op = "seek" /\ TypeInv /\ OnKlv(p, call.ms) /\ Outlined(p) /\ SeekKept(p, i, call)
  BY <1>1 DEF SeekIs
<1> PICK from :
      /\ Entered(p, i, from) /\ OnWay(p, from, pos, Onwards)
      /\ \A j \in Ahead(p, from, Onwards) : j <= pos => ~(Known(p, j) /\ Holds(p, j))
  BY <1>1, <1>2 DEF SeekKept
<1> DEFINE route == Ahead(p, from, Onwards)
<1>3. /\ route \subseteq p.items /\ from \in Nat /\ pos \in Nat /\ i \in p.items
      /\ RECURSE \notin Onwards /\ TOLERANT \in Onwards
  BY <1>1, <1>2, AheadNats DEF OnWay, Onwards, Entered, RECURSE, TOLERANT
<1>4. /\ ~(i = p.longs \/ (IsNest(p, i) /\ Inside(i) = {}))
      /\ from = IF IsNest(p, i) THEN Promise!First(Inside(i)) ELSE i
  <2>1. CASE IsNest(p, i)
    <3>1. from \in Inside(i) /\ \A j \in Inside(i) : from <= j
      BY <2>1 DEF Entered, Inside
    <3>2. Inside(i) \subseteq Nat
      BY <1>1, <1>2, AheadNats DEF Inside
    <3>3. from = Promise!First(Inside(i))
      BY <3>1, <3>2, FirstIs
    <3> QED
      BY <1>1, <1>3, <2>1, <3>1, <3>3
  <2>2. CASE ~IsNest(p, i)
    BY <1>1, <1>3, <2>2 DEF Entered
  <2> QED
    BY <2>1, <2>2
<1>5. \/ WalkEnds(p, from, pos, Onwards, r)
      \/ NestEnds(p, from, pos, Onwards, r, call.ms)
      \/ WalkGoes(p, from, pos, Onwards, r)
      \/ WalkRefused(p, from, pos, Onwards, r)
  BY <1>2, CallWalks
<1>6. /\ verdict = OK => Finish(OK, r.ms, "live")
      /\ verdict = AGAIN => GoOn([call EXCEPT !.ms = r.ms])
      /\ verdict \notin {OK, AGAIN} => Restore(verdict)
  BY DEF OK, AGAIN
<1>7. ASSUME NEW code, verdict = code, code \notin {OK, AGAIN},
             SeekEnds(i, from, i, code)
      PROVE  KeptInv' /\ Promise!Seek
  <2>1. Restore(code)
    BY <1>6, <1>7
  <2>2. Promise!Move(i, code) /\ KeptInv'
    BY <1>2, <2>1, AtPlace, AskedIs, StayOf DEF Promise!Stay
  <2> QED
    BY <1>2, <1>7, <2>2, SeekAnswers
<1>8. CASE WalkEnds(p, from, pos, Onwards, r)
  <2>1. r.ret = BUFFER_END /\ IsDevice(p, from) /\ Good(from) = {}
    BY <1>1, <1>3, <1>8 DEF WalkEnds, Good, Entered
  <2>2. verdict = BUFFER_END
    BY <2>1 DEF BUFFER_END, OK
  <2>3. SeekEnds(i, from, i, BUFFER_END)
    BY <1>4, <2>1 DEF SeekEnds
  <2> HIDE DEF verdict
  <2> QED
    BY <1>7, <2>2, <2>3 DEF BUFFER_END, OK, AGAIN
<1>9. CASE NestEnds(p, from, pos, Onwards, r, call.ms)
  <2>1. r.ret = LAST /\ ~IsDevice(p, from) /\ Good(from) = {}
    BY <1>9 DEF NestEnds, Good, Result
  <2>2. verdict = LAST
    BY <2>1 DEF LAST, OK
  <2>3. SeekEnds(i, from, i, LAST)
    BY <1>4, <2>1 DEF SeekEnds
  <2> HIDE DEF verdict
  <2> QED
    BY <1>7, <2>2, <2>3 DEF LAST, OK, AGAIN
<1>10. CASE WalkRefused(p, from, pos, Onwards, r)
  <2>1. r.ret = BAD /\ IsDevice(p, from) /\ route # {}
    BY <1>10 DEF WalkRefused
  <2>2. verdict = BAD
    BY <2>1 DEF BAD, OK
  <2>3. SeekEnds(i, from, i, BAD)
    BY <1>4, <2>1 DEF SeekEnds
  <2> HIDE DEF verdict
  <2> QED
    BY <1>7, <2>2, <2>3 DEF BAD, OK, AGAIN
<1>11. CASE WalkGoes(p, from, pos, Onwards, r)
  <2> DEFINE t == r.ms.pos
  <2>1. /\ t \in route /\ t \in p.items /\ pos < t /\ OnWay(p, from, t, Onwards)
        /\ r.ms \in Stream /\ Usable(r.ms) /\ OnKlv(p, r.ms)
        /\ r.ret = IF Known(p, t) THEN OK ELSE AGAIN
        /\ \A j \in route : j <= pos \/ t <= j
    BY <1>3, <1>11 DEF WalkGoes, Usable
  <2>2. t \in Nat
    BY <1>1, <2>1
  <2> DEFINE tail == /\ ~IsNest(p, t) /\ EndOf(p, t) = EndOf(p, p.up[t])
                     /\ KeyOf(p, t) \in Reserved
  <2>3. Judge(r.ms) = IF ~Holds(p, t) THEN AGAIN ELSE IF tail THEN FIND ELSE OK
    BY <1>2, <2>1, JudgeIs
  <2> HIDE DEF t, tail
  <2>4. CASE Known(p, t) /\ Holds(p, t)
    <3>1. t \in Good(from) /\ \A j \in Good(from) : t <= j
      BY <2>1, <2>4 DEF Good
    <3>2. t = Promise!First(Good(from))
      <4>1. Good(from) \subseteq Nat
        BY <1>1, <1>3 DEF Good
      <4> QED
        BY <3>1, <4>1, FirstIs
    <3>3. verdict = IF tail THEN FIND ELSE OK
      BY <2>1, <2>3, <2>4
    <3>4. CASE tail
      <4>1. SeekEnds(i, from, i, FIND)
        BY <1>4, <3>1, <3>2, <3>4 DEF SeekEnds, tail
      <4> HIDE DEF verdict
      <4> QED
        BY <1>7, <3>3, <3>4, <4>1 DEF FIND, OK, AGAIN
    <3>5. CASE ~tail
      <4>1. SeekEnds(i, from, t, OK)
        BY <1>4, <3>1, <3>2, <3>5 DEF SeekEnds, tail
      <4> HIDE DEF verdict
      <4>2. Finish(OK, r.ms, "live")
        BY <1>6, <3>3, <3>5
      <4>3. Promise!Move(t, OK) /\ KeptInv'
        BY <1>2, <4>2, MoveOf DEF Spot, t
      <4> QED
        BY <1>2, <4>1, <4>3, SeekAnswers
    <3> QED
      BY <3>4, <3>5
  <2>5. CASE ~(Known(p, t) /\ Holds(p, t))
    <3> DEFINE next == [call EXCEPT !.ms = r.ms]
    <3>1. GoOn(next)
      <4>1. verdict = AGAIN
        BY <2>1, <2>3, <2>5 DEF OK, AGAIN
      <4> HIDE DEF verdict
      <4> QED
        BY <1>6, <4>1
    <3>2. /\ next \in Call /\ next.ms = r.ms /\ next.phase = call.phase
          /\ Asking(next) = Asking(call) /\ next.op = call.op
      BY <1>2, <2>1, CallWith
    <3> HIDE DEF next, verdict
    <3>3. \A j \in route : j <= t => ~(Known(p, j) /\ Holds(p, j))
      <4> SUFFICES ASSUME NEW j \in route, j <= t PROVE ~(Known(p, j) /\ Holds(p, j))
        OBVIOUS
      <4>1. j <= pos \/ j = t
        BY <1>1, <1>3, <2>1, <2>2
      <4> QED
        BY <2>5, <4>1
    <3>4. SeekKept(p, i, next)
      <4>1. /\ Entered(p, i, from) /\ OnWay(p, from, next.ms.pos, Onwards)
            /\ \A j \in Ahead(p, from, Onwards) : j <= next.ms.pos => ~(Known(p, j) /\ Holds(p, j))
        BY <2>1, <3>2, <3>3 DEF t
      <4>2. from \in p.items
        BY <4>1 DEF Entered
      <4> QED
        BY <1>1, <3>2, <4>1, <4>2 DEF SeekKept
    <3>5. Kept(p, i, next)
      BY <1>1, <1>2, <3>2, <3>4 DEF Kept
    <3> QED
      BY <1>2, <3>1, <3>2, <3>5, GoOnPromised
  <2> QED
    BY <2>4, <2>5
<1> QED
  BY <1>5, <1>8, <1>9, <1>10, <1>11

-----------------------------------------------------------------------------
(* GPMF_FindPrev.                                                           *)
LEMMA FindPrevAnswers ==
  ASSUME PromiseInv, Sound(payload), call.op = "findprev", NEW place, NEW code,
         Promise!Move(place, code),
         LET i      == cur[call.on].pos
             behind == Preceding(payload, i)
             keyed  == {j \in behind : KeyOf(payload, j) = call.key}
             hits   == {j \in keyed : Known(payload, j) \/ j = Promise!First(behind)}
             walls  == IF TOLERANT \in call.flags THEN {}
                       ELSE {j \in behind \ {k \in behind : Known(payload, k)} :
                               j # Promise!First(behind)}
             clear  == hits # {} /\ \A w \in walls : Promise!First(hits) < w
         IN IF i = payload.longs \/ payload.lev[i] = 0
            THEN place = i /\ code = BUFFER_END
            ELSE \/ clear /\ place = Promise!First(hits) /\ code = OK
                 \/ ~clear /\ place = i /\ code = FIND
                 \/ ~clear /\ RECURSE \in call.flags /\ place = 0 - 2 /\ code = OK
  PROVE  Promise!FindPrev
<1> DEFINE i      == cur[call.on].pos
           behind == Preceding(payload, i)
           keyed  == {j \in behind : KeyOf(payload, j) = call.key}
           hits   == {j \in keyed : Known(payload, j) \/ j = Promise!First(behind)}
           walls  == IF TOLERANT \in call.flags THEN {}
                     ELSE {j \in behind \ {k \in behind : Known(payload, k)} :
                             j # Promise!First(behind)}
           clear  == hits # {} /\ \A w \in walls : Promise!First(hits) < w
           spot   == [d \in Cursors |-> Place(d)][Promise!c]
           before == {j \in Promise!Siblings(spot) : j < spot}
           ends   == {j \in Promise!Keyed(before, Promise!key) :
                        Promise!Known(Promise!p, j) \/ j = Promise!First(before)}
           stops  == IF Promise!TOLERANT \in Promise!flags THEN {}
                     ELSE {j \in before \ Promise!KnownOf(before) : j # Promise!First(before)}
           goes   == ends # {} /\ \A w \in stops : Promise!First(ends) < w
<1>1. spot = i /\ Promise!Asked("findprev") /\ Promise!Placed
  BY AtPlace, AskedIs, PlacedIs
<1>2. before = behind
  <2> HIDE DEF spot, i
  <2> QED
    BY <1>1, RoutesAgree DEF Preceding
<1>3. ends = hits
  <2> HIDE DEF before, behind
  <2> QED
    BY <1>2, RoutesAgree, EntriesAgree, KnownAgrees, AskedIs
<1>4. stops = walls
  <2> HIDE DEF before, behind
  <2> QED
    BY <1>2, RoutesAgree, CodesAgree, AskedIs
<1>5. goes <=> clear
  <2> HIDE DEF ends, hits, stops, walls
  <2> QED
    BY <1>3, <1>4
<1>6. IF spot = Promise!p.longs \/ Promise!p.lev[spot] = 0
      THEN Promise!Move(spot, Promise!BUFFER_END)
      ELSE \/ goes /\ Promise!Move(Promise!First(ends), Promise!OK)
           \/ ~goes /\ Promise!Move(spot, Promise!FIND)
           \/ ~goes /\ Promise!RECURSE \in Promise!flags
                    /\ Promise!Move(Promise!Lost, Promise!OK)
  <2>1. IF i = payload.longs \/ payload.lev[i] = 0
        THEN place = i /\ code = BUFFER_END
        ELSE \/ clear /\ place = Promise!First(hits) /\ code = OK
             \/ ~clear /\ place = i /\ code = FIND
             \/ ~clear /\ RECURSE \in call.flags /\ place = 0 - 2 /\ code = OK
    OBVIOUS
  <2> HIDE DEF ends, hits, clear, goes, spot, i
  <2> QED
    BY <1>1, <1>3, <1>5, <2>1, EntriesAgree, CodesAgree, AskedIs DEF Promise!Lost
<1> QED
  BY <1>1, <1>6, Zenon DEF Promise!FindPrev, Promise!Stay

(* The nest of an entry below level 0, from its first entry on.             *)
LEMMA PrecedingIs ==
  ASSUME NEW p, Outlined(p), NEW i \in p.items, ~IsDevice(p, i)
  PROVE  LET first == p.up[i] + 2
         IN /\ first \in Peers(p, i) /\ first \in Nat /\ i \in Nat
            /\ \A j \in Peers(p, i) : /\ j \in p.items /\ j \in Nat /\ first <= j
                                      /\ ~IsDevice(p, j) /\ Peers(p, j) = Peers(p, i)
            /\ Preceding(p, i) # {} => Promise!First(Preceding(p, i)) = first
<1> DEFINE first == p.up[i] + 2
<1>1. /\ first \in p.items /\ p.up[first] = p.up[i] /\ ~IsDevice(p, first)
      /\ i \in Nat /\ first \in Nat
  BY FirstOfNest, ItemFacts
<1>2. first \in Peers(p, i)
  BY <1>1 DEF Peers
<1>3. ASSUME NEW j \in Peers(p, i)
      PROVE  /\ j \in p.items /\ j \in Nat /\ first <= j
             /\ ~IsDevice(p, j) /\ Peers(p, j) = Peers(p, i)
  <2>1. j \in p.items /\ ~IsDevice(p, j) /\ p.up[j] = p.up[i]
    BY DEF Peers
  <2>2. j \in Nat /\ p.up[j] + 2 <= j
    BY <2>1, InnerFacts, ItemFacts
  <2>3. Peers(p, j) = Peers(p, i)
    BY <2>1 DEF Peers
  <2> QED
    BY <2>1, <2>2, <2>3
<1>4. ASSUME Preceding(p, i) # {} PROVE Promise!First(Preceding(p, i)) = first
  <2>1. PICK j \in Peers(p, i) : j < i
    BY <1>4 DEF Preceding
  <2> HIDE DEF first
  <2>2. first < i
    BY <1>1, <1>3, <2>1
  <2>3. first \in Preceding(p, i) /\ \A k \in Preceding(p, i) : first <= k
    BY <1>2, <1>3, <2>2 DEF Preceding
  <2>4. Preceding(p, i) \subseteq Nat
    BY <1>3 DEF Preceding
  <2> QED
    BY <2>3, <2>4, FirstIs
<1> QED
  BY <1>1, <1>2, <1>3, <1>4

(* The answers in the terms of the search.                                  *)
LEMMA FindPrevEnds ==
  ASSUME PromiseInv, Sound(payload), call.op = "findprev", NEW place, NEW code,
         Promise!Move(place, code), NEW i, i = cur[call.on].pos,
         i \in payload.items, ~IsDevice(payload, i), payload.lev[i] # 0,
         \/ /\ place \in Preceding(payload, i) /\ Hit(payload, i, call.key, place)
            /\ \A j \in Preceding(payload, i) : Hit(payload, i, call.key, j) => place <= j
            /\ \A j \in Preceding(payload, i) : Wall(payload, i, call.flags, j) => place < j
            /\ code = OK
         \/ /\ Missed(payload, i, call.key, call.flags)
            /\ \/ place = i /\ code = FIND
               \/ RECURSE \in call.flags /\ place = 0 - 2 /\ code = OK
  PROVE  Promise!FindPrev
<1> DEFINE p      == payload
           first  == p.up[i] + 2
           behind == Preceding(p, i)
           keyed  == {j \in behind : KeyOf(p, j) = call.key}
           hits   == {j \in keyed : Known(p, j) \/ j = Promise!First(behind)}
           walls  == IF TOLERANT \in call.flags THEN {}
                     ELSE {j \in behind \ {k \in behind : Known(p, k)} :
                             j # Promise!First(behind)}
           clear  == hits # {} /\ \A w \in walls : Promise!First(hits) < w
<1>1. Outlined(p) /\ TypeInv
  BY SoundOutlined DEF PromiseInv
<1>2. /\ first \in Peers(p, i) /\ first \in Nat /\ i \in Nat
      /\ \A j \in Peers(p, i) : j \in p.items /\ j \in Nat
      /\ behind # {} => Promise!First(behind) = first
  BY <1>1, PrecedingIs
<1>3. i # p.longs
  BY <1>1, AheadNats
<1>4. behind \subseteq Nat
  BY <1>2 DEF Preceding
<1> HIDE DEF behind, first
<1>5. hits = {j \in behind : Hit(p, i, call.key, j)}
  BY <1>2 DEF Hit, first
<1>6. walls = {j \in behind : Wall(p, i, call.flags, j)}
  BY <1>2 DEF Wall, first
<1>7. CASE /\ place \in behind /\ Hit(p, i, call.key, place)
           /\ \A j \in behind : Hit(p, i, call.key, j) => place <= j
           /\ \A j \in behind : Wall(p, i, call.flags, j) => place < j
           /\ code = OK
  <2>1. place \in hits /\ \A j \in hits : place <= j
    BY <1>5, <1>7
  <2>2. hits \subseteq Nat
    BY <1>4
  <2>3. \A w \in walls : place < w
    BY <1>6, <1>7
  <2> HIDE DEF hits, walls
  <2>4. place = Promise!First(hits)
    BY <2>1, <2>2, FirstIs
  <2>5. clear
    BY <2>1, <2>3, <2>4
  <2> QED
    BY <1>3, <1>7, <2>4, <2>5, FindPrevAnswers DEF hits, walls, behind
<1>8. CASE /\ Missed(p, i, call.key, call.flags)
           /\ \/ place = i /\ code = FIND
              \/ RECURSE \in call.flags /\ place = 0 - 2 /\ code = OK
  <2>1. ~clear
    <3> SUFFICES ASSUME clear PROVE FALSE
      OBVIOUS
    <3> DEFINE h == Promise!First(hits)
    <3>1. h \in hits
      <4>1. hits \subseteq Nat /\ hits # {}
        BY <1>4
      <4> HIDE DEF hits
      <4> QED
        BY <4>1, FirstOf
    <3>2. \A w \in walls : h < w
      OBVIOUS
    <3> HIDE DEF h, hits, walls
    <3>3. h \in behind /\ Hit(p, i, call.key, h)
      BY <1>5, <3>1
    <3>4. PICK w \in behind : Wall(p, i, call.flags, w) /\ w <= h
      BY <1>8, <3>3 DEF Missed, behind
    <3>5. w \in walls
      BY <1>6, <3>4
    <3>6. h \in Nat /\ w \in Nat
      BY <1>4, <3>3
    <3> QED
      BY <3>2, <3>4, <3>5, <3>6
  <2> HIDE DEF hits, walls
  <2> QED
    BY <1>3, <1>8, <2>1, FindPrevAnswers DEF hits, walls, behind
<1> QED
  BY <1>7, <1>8 DEF behind

FindPrevIs(p, i) ==
  /\ call.op = "findprev" /\ TypeInv /\ Placed(p, i) /\ Outlined(p) /\ call \in Call
  /\ FindPrevKept(p, i, call) /\ call.level \in Nat /\ Usable(call.ms)
  /\ call.ms.bound = p.longs /\ call.ms.nest_level \in Nat
  /\ call.phase # "start" => call.level > 0
  /\ \/ InItsNest(call) /\ call.phase # "open" /\ OnKlv(p, call.ms)
     \/ ~InItsNest(call) /\ call.phase # "start" /\ Climbed(p, call.ms, call.level)

LEMMA FindPrevGoing ==
  ASSUME PromiseInv, Sound(payload), call.op = "findprev"
  PROVE  FindPrevIs(payload, cur[call.on].pos)
<1>1. /\ TypeInv /\ Placed(payload, cur[call.on].pos) /\ Outlined(payload) /\ call \in Call
      /\ FindPrevKept(payload, cur[call.on].pos, call)
      /\ call.ms.bound = payload.longs
      /\ \/ InItsNest(call) /\ call.phase # "open" /\ OnKlv(payload, call.ms)
         \/ call.phase # "start" /\ Climbed(payload, call.ms, call.level)
  BY AtPlace, SoundOutlined
     DEF PromiseInv, TypeInv, TypeOK, KlvInv, KlvCall, KeptInv, Kept, InItsNest
<1>2. /\ Usable(call.ms) /\ call.level \in Nat /\ call.ms.nest_level \in Nat
      /\ call.phase # "start" => call.level > 0
  BY <1>1, UsableFields DEF TypeInv, CallFits, Call
<1>3. Climbed(payload, call.ms, call.level) => ~InItsNest(call)
  BY <1>2 DEF Climbed, InItsNest
<1> QED
  BY <1>1, <1>2, <1>3 DEF FindPrevIs

LEMMA FindPrevRefusePromised ==
  ASSUME PromiseInv, Sound(payload), FindPrevRefuse
  PROVE  KeptInv' /\ Promise!FindPrev
<1> DEFINE p == payload
           i == cur[call.on].pos
<1>1. /\ FindPrevIs(p, i) /\ call.op = "findprev" /\ call.phase = "start" /\ NothingBehind
      /\ Restore(BUFFER_END)
  BY FindPrevGoing DEF FindPrevRefuse, Running
<1>2. /\ TypeInv /\ Outlined(p) /\ call.ms.pos = i /\ OnKlv(p, call.ms)
      /\ call.level = call.ms.nest_level /\ call.ms.bound = p.longs
  BY <1>1 DEF FindPrevIs, FindPrevKept, InItsNest
<1>3. i = p.longs \/ p.lev[i] = 0
  <2> SUFFICES ASSUME i # p.longs PROVE p.lev[i] = 0
    OBVIOUS
  <2>1. i \in p.items
    BY <1>2 DEF OnKlv
  <2>2. i \in Nat /\ p.longs \in Nat /\ i + 1 < p.longs
    BY <1>2, <2>1, ItemFacts
  <2>3. ~AtEnd(call.ms)
    BY <1>2, <2>2 DEF AtEnd
  <2>4. call.ms.nest_level = 0
    BY <1>1, <1>2, <2>3 DEF NothingBehind
  <2> QED
    BY <1>2, <2>1, <2>2, <2>4, DeviceFacts DEF OnKlv, InNest
<1>4. Promise!Move(i, BUFFER_END) /\ KeptInv'
  BY <1>1, AtPlace, AskedIs, StayOf DEF Promise!Stay
<1> QED
  BY <1>1, <1>3, <1>4, FindPrevAnswers

(* A search that leaves its nest has missed what it looks for there.        *)
LEMMA LeaveNestPromised ==
  ASSUME PromiseInv, Sound(payload), call.op = "findprev", call.phase # "start",
         NEW ms \in Stream, ms.nest_level \in Nat, call.level <= ms.nest_level, LeaveNest(ms),
         Missed(payload, cur[call.on].pos, call.key, call.flags)
  PROVE  KeptInv' /\ (Promise!FindPrev \/ UNCHANGED Promise!avars)
<1> DEFINE p == payload
           i == cur[call.on].pos
<1>1. /\ FindPrevIs(p, i) /\ i \in p.items /\ ~IsDevice(p, i) /\ p.lev[i] # 0
      /\ call \in Call /\ call.level \in Nat
  BY FindPrevGoing DEF FindPrevIs, FindPrevKept
<1>2. CASE RECURSE \in call.flags /\ call.level > 1
  <2> DEFINE next == [call EXCEPT !.phase = "open", !.level = call.level - 1, !.ms = ms]
  <2>1. next \in Call
    <3>1. call.level - 1 \in Nat
      BY <1>1, <1>2
    <3> QED
      BY <1>1, <3>1, Zenon DEF Call
  <2>2. /\ next.ms = ms /\ next.level = call.level - 1 /\ next.phase = "open"
        /\ Asking(next) = Asking(call) /\ next.op = call.op /\ next.flags = call.flags
        /\ next.key = call.key
    BY <1>1 DEF Call, Asking
  <2>3. GoOn(next)
    BY <1>2 DEF LeaveNest
  <2> HIDE DEF next
  <2>4. ~InItsNest(next)
    BY <1>1, <2>2 DEF InItsNest
  <2>5. FindPrevKept(p, i, next)
    BY <1>1, <1>2, <2>2, <2>4 DEF FindPrevKept
  <2>6. Kept(p, i, next)
    BY <2>2, <2>5 DEF Kept
  <2> QED
    BY <2>1, <2>2, <2>3, <2>6, GoOnPromised
<1>3. CASE ~(RECURSE \in call.flags /\ call.level > 1)
  <2>1. Restore(FIND)
    BY <1>3 DEF LeaveNest
  <2>2. Promise!Move(i, FIND) /\ KeptInv'
    BY <2>1, AtPlace, AskedIs, StayOf DEF Promise!Stay
  <2> QED
    BY <1>1, <2>2, FindPrevEnds
<1> QED
  BY <1>2, <1>3

(* The running search with another stream and phase.                        *)
LEMMA SearchGoesOn ==
  ASSUME PromiseInv, Sound(payload), call.op = "findprev", call.phase # "start",
         NEW ms \in Stream, NEW phase \in {"scan", "tail"},
         GoOn([call EXCEPT !.phase = phase, !.ms = ms]),
         LET i == cur[call.on].pos
         IN \/ call.level # ms.nest_level /\ ~InItsNest(call)
            \/ /\ InItsNest(call) /\ call.mark = i /\ ms.pos \in Peers(payload, i)
               /\ call.level = ms.nest_level
               /\ \A j \in Preceding(payload, i) : j < ms.pos =>
                    ~Hit(payload, i, call.key, j) /\ ~Wall(payload, i, call.flags, j)
               /\ IF phase = "scan" THEN Known(payload, ms.pos)
                  ELSE /\ ms.pos # payload.up[i] + 2 /\ ~Known(payload, ms.pos)
                       /\ TOLERANT \in call.flags
  PROVE  KeptInv' /\ UNCHANGED Promise!avars
<1> DEFINE p    == payload
           i    == cur[call.on].pos
           next == [call EXCEPT !.phase = phase, !.ms = ms]
<1>1. FindPrevKept(p, i, call) /\ TypeInv
  BY FindPrevGoing DEF FindPrevIs
<1>2. /\ next \in Call /\ next.ms = ms /\ next.phase = phase
      /\ Asking(next) = Asking(call) /\ next.op = call.op /\ next.key = call.key
      /\ next.flags = call.flags /\ next.level = call.level /\ next.mark = call.mark
  <2>1. call \in Call /\ phase \in {"start", "open", "scan", "tail"}
    BY <1>1 DEF TypeInv, TypeOK
  <2>2. next \in Call
    BY <2>1, Zenon DEF Call
  <2> QED
    BY <2>1, <2>2 DEF Call, Asking
<1> HIDE DEF next
<1>3. FindPrevKept(p, i, next)
  BY <1>1, <1>2 DEF FindPrevKept, InItsNest
<1>4. Kept(p, i, next)
  BY <1>2, <1>3 DEF Kept
<1> QED
  BY <1>2, <1>4, GoOnPromised DEF next

(* The entries of a sound payload stay below level NestLimit.               *)
LEMMA NoOverrun == ASSUME PromiseInv, Sound(payload) PROVE ~FindPrevOverrun
<1> SUFFICES ASSUME FindPrevOverrun PROVE FALSE
  OBVIOUS
<1> DEFINE p     == payload
           i     == cur[call.on].pos
           ms    == call.ms
           level == call.level
<1>1. /\ FindPrevIs(p, i) /\ level = NestLimit
      /\ (call.phase = "start" /\ ~NothingBehind) \/ call.phase = "open"
  BY FindPrevGoing DEF FindPrevOverrun, Rewinds, Running
<1>2. /\ Outlined(p) /\ level \in Nat /\ Usable(ms) /\ ms.nest_level \in Nat
      /\ ms.nest_level <= NestLimit /\ NestLimit \in Nat /\ NestLimit # 0
  BY <1>1, UsableFields, LimitAssumption DEF FindPrevIs
<1>3. CASE OnKlv(p, ms) /\ level = ms.nest_level
  <2>1. ms.pos \in p.items /\ (IsDevice(p, ms.pos) \/ p.lev[ms.pos] = NestLimit)
    BY <1>1, <1>2, <1>3 DEF OnKlv, InNest
  <2>2. ms.pos \in p.items /\ p.lev[ms.pos] < NestLimit
    BY <2>1 DEF Outlined, Sound, LevelsCount
  <2>3. ~IsDevice(p, ms.pos)
    BY <1>1, <1>2, <1>3, <2>1 DEF OnKlv, OnDevice
  <2> HIDE DEF p, ms
  <2> QED
    BY <1>2, <2>1, <2>2, <2>3
<1>4. CASE Climbed(p, ms, level)
  BY <1>1, <1>2, <1>4 DEF Climbed
<1> QED
  BY <1>1, <1>3, <1>4 DEF FindPrevIs, InItsNest

(* To the start of the nest, and to the one around when it has climbed.     *)
LEMMA FindPrevRewindPromised ==
  ASSUME PromiseInv, Sound(payload), FindPrevRewind
  PROVE  KeptInv' /\ UNCHANGED Promise!avars
<1> DEFINE p     == payload
           i     == cur[call.on].pos
           ms    == call.ms
           level == call.level
           first == ms.last_level_pos[level - 1] + 2
           size  == (ms.nest_size[level] + ms.pos - first) % Modulus
           back  == [ms EXCEPT !.pos = first, !.nest_size[level] = size]
           next  == [call EXCEPT !.phase = "scan", !.mark = ms.pos, !.ms = back]
<1>1. /\ FindPrevIs(p, i) /\ call.op = "findprev" /\ GoOn(next)
      /\ (call.phase = "start" /\ ~NothingBehind) \/ call.phase = "open"
  BY FindPrevGoing DEF FindPrevRewind, Rewinds, Running
<1>2. /\ Outlined(p) /\ FindPrevKept(p, i, call) /\ call \in Call /\ level \in Nat
      /\ Usable(ms) /\ ms \in Stream /\ ms.bound = p.longs /\ ms.nest_level \in Nat /\ ms.pos \in Nat
      /\ ms.last_level_pos \in [Slots -> Nat] /\ ms.nest_size \in [Levels -> Nat]
      /\ TypeInv
  BY <1>1, UsableFields DEF FindPrevIs, Usable
<1>3. level > 0 /\ level \in Levels /\ level - 1 \in Slots
  <2>1. level # 0 /\ level \in Levels
    BY <1>1, <1>2 DEF NothingBehind, TypeInv, CallFits, FindPrevIs
  <2> QED
    BY <1>2, <2>1, LimitAssumption DEF Levels, Slots
<1>4. first \in Nat /\ size \in Nat
  <2>1. first \in Nat /\ ms.nest_size[level] \in Nat
    BY <1>2, <1>3
  <2>2. ms.nest_size[level] + ms.pos - first \in Int
    BY <1>2, <2>1
  <2> HIDE DEF first, level
  <2> QED
    BY <2>1, <2>2, LimitAssumption
<1> HIDE DEF size, first
<1>5. back.pos = first /\ back.nest_level = ms.nest_level /\ back \in Stream
  BY <1>2, <1>3, <1>4 DEF Stream
<1> HIDE DEF back
<1>6. next \in Call
  BY <1>2, <1>5, Zenon DEF Call
<1>7. /\ next.ms = back /\ next.phase = "scan" /\ next.mark = ms.pos /\ next.level = level
      /\ Asking(next) = Asking(call) /\ next.op = call.op /\ next.key = call.key
      /\ next.flags = call.flags
  BY <1>2 DEF Call, Asking
<1> HIDE DEF next
<1>8. CASE call.phase = "start" /\ ~NothingBehind
  <2>1. ms.pos = i /\ InItsNest(call) /\ OnKlv(p, ms) /\ ms.nest_level = level
    BY <1>1, <1>2, <1>8 DEF FindPrevIs, FindPrevKept, InItsNest
  <2>2. /\ i \in p.items /\ ~IsDevice(p, i) /\ InNest(p, ms)
    BY <1>3, <2>1 DEF OnKlv, OnDevice
  <2>3. p.lev[i] # 0 /\ first = p.up[i] + 2
    BY <1>3, <2>1, <2>2 DEF InNest, first
  <2>4. /\ first \in Peers(p, i)
        /\ \A j \in Peers(p, i) : j \in Nat /\ first <= j
    BY <1>2, <2>2, <2>3, PrecedingIs
  <2>5. \A j \in Preceding(p, i) : ~(j < first)
    BY <1>4, <2>4 DEF Preceding
  <2>6. InItsNest(next)
    BY <1>5, <1>7, <2>1 DEF InItsNest
  <2>7. FindPrevKept(p, i, next)
    BY <1>5, <1>7, <2>1, <2>2, <2>3, <2>4, <2>5, <2>6 DEF FindPrevKept
  <2>8. Kept(p, i, next)
    BY <1>1, <1>7, <2>7 DEF Kept
  <2> QED
    BY <1>1, <1>6, <1>7, <2>8, GoOnPromised
<1>9. CASE call.phase = "open"
  <2>1. ~InItsNest(call)
    BY <1>1, <1>9 DEF FindPrevIs
  <2>2. ~InItsNest(next)
    BY <1>5, <1>7, <2>1 DEF InItsNest
  <2>3. FindPrevKept(p, i, next)
    BY <1>2, <1>7, <1>9, <2>1, <2>2 DEF FindPrevKept
  <2>4. Kept(p, i, next)
    BY <1>1, <1>7, <2>3 DEF Kept
  <2> QED
    BY <1>1, <1>6, <1>7, <2>4, GoOnPromised
<1> QED
  BY <1>1, <1>8, <1>9

(* The entry found is the first of the nest that the search hits.           *)
LEMMA FindPrevFoundPromised ==
  ASSUME PromiseInv, Sound(payload), FindPrevFound
  PROVE  KeptInv' /\ Promise!FindPrev
<1> DEFINE p   == payload
           i   == cur[call.on].pos
           pos == call.ms.pos
<1>1. /\ FindPrevIs(p, i) /\ call.op = "findprev" /\ call.phase = "scan" /\ Behind
      /\ words[pos].key = call.key
      /\ Finish(OK, call.ms, IF InItsNest(call) THEN "live" ELSE "spent")
  BY FindPrevGoing DEF FindPrevFound, Running, InItsNest
<1>2. /\ Outlined(p) /\ FindPrevKept(p, i, call) /\ TypeInv
      /\ i \in p.items /\ ~IsDevice(p, i) /\ p.lev[i] # 0
  BY <1>1 DEF FindPrevIs, FindPrevKept
<1>3. CASE InItsNest(call)
  <2>1. /\ call.mark = i /\ pos \in Peers(p, i)
        /\ \A j \in Preceding(p, i) : j < pos =>
             ~Hit(p, i, call.key, j) /\ ~Wall(p, i, call.flags, j)
        /\ pos = p.up[i] + 2 \/ Known(p, pos)
    BY <1>1, <1>2, <1>3 DEF FindPrevKept
  <2>2. pos \in Preceding(p, i)
    BY <1>1, <1>2, <2>1, PrecedingIs DEF Behind, Preceding
  <2>3. Hit(p, i, call.key, pos) /\ ~Wall(p, i, call.flags, pos)
    BY <1>1, <2>1 DEF Hit, Wall, KeyOf, words
  <2>4. \A j \in Preceding(p, i) : j \in Nat /\ pos \in Nat
    BY <1>2, <2>1, PrecedingIs DEF Preceding
  <2>5. /\ \A j \in Preceding(p, i) : Hit(p, i, call.key, j) => pos <= j
        /\ \A j \in Preceding(p, i) : Wall(p, i, call.flags, j) => pos < j
    BY <2>1, <2>3, <2>4
  <2>6. Promise!Move(pos, OK) /\ KeptInv'
    BY <1>1, <1>2, <1>3, MoveOf DEF Spot
  <2> QED
    BY <1>1, <1>2, <2>2, <2>3, <2>5, <2>6, FindPrevEnds
<1>4. CASE ~InItsNest(call)
  <2>1. Missed(p, i, call.key, call.flags) /\ RECURSE \in call.flags
    BY <1>2, <1>4 DEF FindPrevKept
  <2>2. Promise!Move(0 - 2, OK) /\ KeptInv'
    BY <1>1, <1>2, <1>4, MoveOf DEF Spot
  <2> QED
    BY <1>1, <1>2, <2>1, <2>2, FindPrevEnds
<1> QED
  BY <1>3, <1>4

(* A search that has come to the entry of the call leaves the nest.         *)
LEMMA FindPrevExhaustedPromised ==
  ASSUME PromiseInv, Sound(payload), FindPrevExhausted
  PROVE  KeptInv' /\ (Promise!FindPrev \/ UNCHANGED Promise!avars)
<1> DEFINE p == payload
           i == cur[call.on].pos
<1>1. /\ FindPrevIs(p, i) /\ call.op = "findprev" /\ call.phase = "scan" /\ ~Behind
      /\ LeaveNest(call.ms)
  BY FindPrevGoing DEF FindPrevExhausted, Running
<1>2. /\ Outlined(p) /\ FindPrevKept(p, i, call) /\ i \in p.items /\ ~IsDevice(p, i)
      /\ call.ms \in Stream /\ call.ms.nest_level \in Nat /\ call.level <= call.ms.nest_level
  BY <1>1 DEF FindPrevIs, FindPrevKept, Usable, Climbed, InItsNest
<1>3. Missed(p, i, call.key, call.flags)
  <2>1. CASE InItsNest(call)
    <3>1. /\ call.mark = i /\ call.ms.pos \in Peers(p, i)
          /\ \A j \in Preceding(p, i) : j < call.ms.pos => ~Hit(p, i, call.key, j)
      BY <1>1, <1>2, <2>1 DEF FindPrevKept
    <3>2. i <= call.ms.pos
      BY <1>1, <1>2, <3>1, PrecedingIs DEF Behind
    <3>3. \A j \in Preceding(p, i) : j < call.ms.pos
      <4>1. i \in Nat /\ call.ms.pos \in Nat /\ \A j \in Peers(p, i) : j \in Nat
        BY <1>2, <3>1, PrecedingIs
      <4> QED
        BY <3>2, <4>1 DEF Preceding
    <3> QED
      BY <3>1, <3>3 DEF Missed
  <2>2. CASE ~InItsNest(call)
    BY <1>2, <2>2 DEF FindPrevKept
  <2> QED
    BY <2>1, <2>2
<1> QED
  BY <1>1, <1>2, <1>3, LeaveNestPromised

(* A pass on the way back to the entry of the call.                         *)
LEMMA FindPrevPassPromised ==
  ASSUME PromiseInv, Sound(payload), FindPrevPass
  PROVE  KeptInv' /\ (Promise!FindPrev \/ UNCHANGED Promise!avars)
<1> DEFINE p     == payload
           i     == cur[call.on].pos
           pos   == call.ms.pos
           level == call.level
           how   == call.flags \ {RECURSE}
           first == p.up[i] + 2
<1> PICK r \in GPMF_Next(words, call.ms, how) :
      CASE r.ret = OK    -> GoOn([call EXCEPT !.phase = "scan", !.ms = r.ms])
        [] r.ret = AGAIN -> GoOn([call EXCEPT !.phase = "tail", !.ms = r.ms])
        [] OTHER         -> LeaveNest(r.ms)
  BY DEF FindPrevPass
<1>1. /\ FindPrevIs(p, i) /\ call.op = "findprev"
      /\ call.phase = "tail" \/ (call.phase = "scan" /\ Behind /\ words[pos].key # call.key)
  BY FindPrevGoing DEF FindPrevPass, Running
<1>2. /\ Outlined(p) /\ FindPrevKept(p, i, call) /\ TypeInv /\ call.phase \in {"scan", "tail"}
      /\ call.phase # "start" /\ words = p.words
      /\ i \in p.items /\ ~IsDevice(p, i) /\ level \in Nat /\ level > 0
      /\ Usable(call.ms) /\ call.ms.bound = p.longs
  BY <1>1 DEF FindPrevIs, FindPrevKept, words
<1>3. r.ms \in Stream /\ r.ms.nest_level \in Nat
  <2>1. Usable(r.ms) /\ RECURSE \notin how
    BY <1>2, PassTyped
  <2> QED
    BY <2>1, UsableFields DEF Usable
<1>4. RECURSE \notin how /\ (TOLERANT \in how <=> TOLERANT \in call.flags)
  BY DEF RECURSE, TOLERANT
<1>5. /\ r.ret = OK => GoOn([call EXCEPT !.phase = "scan", !.ms = r.ms])
      /\ r.ret = AGAIN => GoOn([call EXCEPT !.phase = "tail", !.ms = r.ms])
      /\ r.ret \notin {OK, AGAIN} => LeaveNest(r.ms)
  BY DEF OK, AGAIN
<1> HIDE DEF how
<1>6. CASE ~InItsNest(call)
  <2>1. Missed(p, i, call.key, call.flags) /\ Climbed(p, call.ms, level)
    BY <1>1, <1>2, <1>6 DEF FindPrevKept, FindPrevIs
  <2>2. Climbed(p, r.ms, level)
    BY <1>2, <1>4, <2>1, ClimbedPass
  <2>3. level # r.ms.nest_level /\ level <= r.ms.nest_level
    BY <1>2, <1>3, <2>2 DEF Climbed
  <2>4. CASE r.ret = OK
    BY <1>1, <1>2, <1>3, <1>5, <1>6, <2>3, <2>4, SearchGoesOn
  <2>5. CASE r.ret = AGAIN
    BY <1>1, <1>2, <1>3, <1>5, <1>6, <2>3, <2>5, SearchGoesOn
  <2>6. CASE r.ret \notin {OK, AGAIN}
    BY <1>1, <1>2, <1>3, <1>5, <2>1, <2>3, <2>6, LeaveNestPromised
  <2> QED
    BY <2>4, <2>5, <2>6
<1>7. CASE InItsNest(call)
  <2>1. /\ call.mark = i /\ pos \in Peers(p, i) /\ OnKlv(p, call.ms)
        /\ level = call.ms.nest_level
        /\ \A j \in Preceding(p, i) : j < pos =>
             ~Hit(p, i, call.key, j) /\ ~Wall(p, i, call.flags, j)
        /\ call.phase = "scan" => pos = first \/ Known(p, pos)
        /\ call.phase = "tail" => pos # first /\ ~Known(p, pos) /\ TOLERANT \in call.flags
    BY <1>1, <1>2, <1>7 DEF FindPrevKept, FindPrevIs, InItsNest, Climbed
  <2>2. /\ \A j \in Peers(p, i) : j \in p.items /\ j \in Nat /\ first <= j
        /\ pos \in p.items /\ pos \in Nat /\ first <= pos /\ first \in Nat /\ i \in Nat
        /\ ~IsDevice(p, pos) /\ Peers(p, pos) = Peers(p, i)
    BY <1>2, <2>1, PrecedingIs
  <2>3. ~Hit(p, i, call.key, pos) /\ ~Wall(p, i, call.flags, pos)
    BY <1>1, <1>2, <2>1 DEF Hit, Wall, KeyOf
  <2>4. \A j \in Preceding(p, i) : j <= pos =>
          ~Hit(p, i, call.key, j) /\ ~Wall(p, i, call.flags, j)
    <3> SUFFICES ASSUME NEW j \in Preceding(p, i), j <= pos
                 PROVE  ~Hit(p, i, call.key, j) /\ ~Wall(p, i, call.flags, j)
      OBVIOUS
    <3>1. j < pos \/ j = pos
      BY <2>2 DEF Preceding
    <3> QED
      BY <2>1, <2>3, <3>1
  <2>5. \A j \in Preceding(p, i) : j > pos => j \in Ahead(p, pos, how)
    <3>1. pos # p.longs
      BY <1>2, <2>2, AheadNats
    <3> QED
      BY <1>4, <2>2, <3>1 DEF Preceding, Ahead
  <2>6. r.ret # BAD /\ r.ms.nest_level = level
    BY <1>2, <1>4, <2>1, PassKlv
  <2>7. \/ NestEnds(p, pos, pos, how, r, call.ms)
        \/ WalkGoes(p, pos, pos, how, r)
    <3>1. OnWay(p, pos, pos, how)
      BY <1>2, <2>2, WayStarts DEF Placed
    <3>2. \/ WalkEnds(p, pos, pos, how, r)
          \/ NestEnds(p, pos, pos, how, r, call.ms)
          \/ WalkGoes(p, pos, pos, how, r)
          \/ WalkRefused(p, pos, pos, how, r)
      BY <2>1, <3>1, CallWalks
    <3>3. pos # p.longs
      BY <1>2, <2>2, AheadNats
    <3> QED
      BY <1>4, <2>2, <2>6, <3>2, <3>3 DEF WalkEnds, WalkRefused
  <2>8. CASE NestEnds(p, pos, pos, how, r, call.ms)
    <3>1. r.ret = LAST /\ r.ms = call.ms /\ \A j \in Ahead(p, pos, how) : j <= pos
      BY <2>8 DEF NestEnds, Result
    <3>2. \A j \in Preceding(p, i) : j <= pos
      <4> SUFFICES ASSUME NEW j \in Preceding(p, i), ~(j <= pos) PROVE FALSE
        OBVIOUS
      <4>1. j > pos
        BY <2>2 DEF Preceding
      <4> QED
        BY <2>5, <3>1, <4>1
    <3>3. Missed(p, i, call.key, call.flags)
      BY <2>4, <3>2 DEF Missed
    <3>4. LeaveNest(r.ms)
      BY <1>5, <3>1 DEF LAST, OK, AGAIN
    <3>5. level <= r.ms.nest_level
      BY <1>2, <2>6
    <3> QED
      BY <1>1, <1>2, <1>3, <3>3, <3>4, <3>5, LeaveNestPromised
  <2>9. CASE WalkGoes(p, pos, pos, how, r)
    <3> DEFINE t == r.ms.pos
    <3>1. /\ t \in Ahead(p, pos, how) /\ pos < t
          /\ r.ret = IF Known(p, t) THEN OK ELSE IF TOLERANT \in how THEN AGAIN ELSE UNKNOWN_TYPE
          /\ \A j \in Ahead(p, pos, how) : j <= pos \/ t <= j
      BY <2>9 DEF WalkGoes
    <3>2. t \in Peers(p, i) /\ t \in Nat /\ t # first
      <4>1. t \in Peers(p, i)
        BY <1>4, <2>2, <3>1 DEF Ahead
      <4> QED
        BY <2>2, <3>1, <4>1
    <3> HIDE DEF t
    <3>3. \A j \in Preceding(p, i) : j < t =>
            ~Hit(p, i, call.key, j) /\ ~Wall(p, i, call.flags, j)
      <4> SUFFICES ASSUME NEW j \in Preceding(p, i), j < t
                   PROVE  ~Hit(p, i, call.key, j) /\ ~Wall(p, i, call.flags, j)
        OBVIOUS
      <4>1. j \in Nat
        BY <2>2 DEF Preceding
      <4>2. j <= pos
        BY <2>2, <2>5, <3>1, <3>2, <4>1
      <4> QED
        BY <2>4, <4>2
    <3>4. CASE r.ret = OK
      <4>1. Known(p, t)
        BY <3>1, <3>4 DEF OK, AGAIN, UNKNOWN_TYPE
      <4> QED
        BY <1>1, <1>2, <1>3, <1>5, <1>7, <2>1, <2>6, <3>2, <3>3, <3>4, <4>1, SearchGoesOn DEF t
    <3>5. CASE r.ret = AGAIN
      <4>1. ~Known(p, t) /\ TOLERANT \in call.flags
        BY <1>4, <3>1, <3>5 DEF OK, AGAIN, UNKNOWN_TYPE
      <4> QED
        BY <1>1, <1>2, <1>3, <1>5, <1>7, <2>1, <2>6, <3>2, <3>3, <3>5, <4>1, SearchGoesOn DEF t
    <3>6. CASE r.ret \notin {OK, AGAIN}
      <4>1. ~Known(p, t) /\ TOLERANT \notin call.flags
        BY <1>4, <3>1, <3>6
      <4>2. Wall(p, i, call.flags, t)
        BY <3>2, <4>1 DEF Wall
      <4>3. Missed(p, i, call.key, call.flags)
        <5> SUFFICES ASSUME NEW h \in Preceding(p, i), Hit(p, i, call.key, h)
                     PROVE  \E w \in Preceding(p, i) : Wall(p, i, call.flags, w) /\ w <= h
          BY DEF Missed
        <5>1. h \in Nat /\ h < i /\ t <= h
          BY <2>2, <3>2, <3>3 DEF Preceding
        <5>2. t \in Preceding(p, i)
          BY <2>2, <3>2, <5>1 DEF Preceding
        <5> QED
          BY <4>2, <5>1, <5>2
      <4>4. level <= r.ms.nest_level
        BY <1>2, <2>6
      <4> QED
        BY <1>1, <1>2, <1>3, <1>5, <3>6, <4>3, <4>4, LeaveNestPromised
    <3> QED
      BY <3>4, <3>5, <3>6
  <2> QED
    BY <2>7, <2>8, <2>9
<1> QED
  BY <1>6, <1>7

-----------------------------------------------------------------------------
(* The calls start, GPMF_Init, and the two calls of one step.               *)
LEMMA StartPromised ==
  ASSUME PromiseInv, Sound(payload), Start
  PROVE  KeptInv' /\ (\/ Promise!Ask
                      \/ \E d \in Cursors : Promise!Rewind(d)
                      \/ \E src, dst \in Cursors : src # dst /\ Promise!Copy(src, dst))
<1> PICK c \in Cursors :
      \/ StartInit(c)
      \/ ResetState(c)
      \/ \E d \in Cursors \ {c} : CopyState(c, d)
      \/ StartSeek(c)
      \/ StartCount(c)
      \/ \E flags \in Flags :
           \/ StartNext(c, flags)
           \/ \E key \in FindKeys :
                StartFindNext(c, key, flags) \/ StartFindPrev(c, key, flags)
  BY DEF Start
<1> DEFINE p  == payload
           i  == cur[c].pos
           at == [d \in Cursors |-> Place(d)]
<1>1. /\ TypeInv /\ Outlined(p) /\ DEVC \in FourCC /\ {} \in Flags /\ Onwards \in Flags
      /\ cur \in [Cursors -> Stream] /\ life \in [Cursors -> {"raw", "live", "spent"}]
  BY SoundOutlined, KeyAssumption DEF PromiseInv, TypeInv, TypeOK, Flags, Onwards
<1>2. ASSUME life[c] = "live"
      PROVE  /\ OnKlv(p, cur[c])
             /\ \A flags : OnWay(p, i, i, flags) /\ \A j \in Ahead(p, i, flags) : ~(j <= i)
  <2>1. OnKlv(p, cur[c])
    BY <1>2 DEF PromiseInv, KlvInv, KlvAt
  <2>2. Placed(p, i)
    BY <2>1 DEF OnKlv, Placed
  <2>3. p.items \subseteq Nat /\ i \in Nat
    BY <1>1, <2>2, AheadNats DEF Placed
  <2> SUFFICES ASSUME NEW flags
               PROVE  OnWay(p, i, i, flags) /\ \A j \in Ahead(p, i, flags) : ~(j <= i)
    BY <2>1
  <2>4. OnWay(p, i, i, flags) /\ \A j \in Ahead(p, i, flags) : j \in p.items /\ i < j
    BY <1>1, <2>2, WayStarts
  <2> QED
    BY <2>3, <2>4
<1>3. CASE StartInit(c)
  <2>1. \A cl : cl.op = "init" => Kept(p, i, cl)
    BY DEF Kept
  <2> QED
    BY <1>1, <1>3, <2>1, BeginPromised DEF StartInit, Ops
<1>4. CASE ResetState(c)
  <2>1. /\ cur' = [cur EXCEPT ![c] = Rewound(cur[c])]
        /\ life' = [life EXCEPT ![c] = "live"] /\ call.op = "none" /\ life[c] # "raw"
        /\ answer' = [code |-> OK, count |-> 0] /\ buffer' = buffer /\ call' = call
    BY <1>4 DEF ResetState, Running
  <2>2. Rewound(cur[c]).pos = 0
    BY <1>1 DEF Rewound, Stream
  <2>3. ASSUME NEW d \in Cursors PROVE Place(d)' = IF d = c THEN 0 ELSE Place(d)
    BY <1>1, <2>1, <2>2 DEF Place
  <2>4. at' = [at EXCEPT ![c] = 0]
    BY <2>3
  <2>5. at[c] # Promise!Unopened
    BY <1>1, <2>1 DEF Place, Promise!Unopened, Stream
  <2>6. Asking(call) = Promise!Nothing /\ KeptInv'
    <3>1. call = Idle
      BY <2>1 DEF PromiseInv, KeptInv
    <3> QED
      BY <2>1, <3>1, IdleCall DEF Idle, Promise!Nothing, DEVC, Promise!DEVC, Asking, KeptInv, Kept
  <2>7. Promise!Rewind(c)
    BY <2>1, <2>4, <2>5, <2>6, CodesAgree DEF Promise!Rewind, Asking
  <2> QED
    BY <2>6, <2>7
<1>5. CASE \E d \in Cursors \ {c} : CopyState(c, d)
  <2> PICK b \in Cursors \ {c} : CopyState(c, b)
    BY <1>5
  <2>1. /\ cur' = [cur EXCEPT ![b] = cur[c]]
        /\ life' = [life EXCEPT ![b] = life[c]] /\ call.op = "none"
        /\ answer' = [code |-> OK, count |-> 0] /\ buffer' = buffer /\ call' = call
    BY DEF CopyState, Running
  <2>2. ASSUME NEW d \in Cursors PROVE Place(d)' = IF d = b THEN Place(c) ELSE Place(d)
    BY <1>1, <2>1 DEF Place
  <2>3. at' = [at EXCEPT ![b] = at[c]]
    BY <2>2
  <2>4. Asking(call) = Promise!Nothing /\ KeptInv'
    <3>1. call = Idle
      BY <2>1 DEF PromiseInv, KeptInv
    <3> QED
      BY <2>1, <3>1, IdleCall DEF Idle, Promise!Nothing, DEVC, Promise!DEVC, Asking, KeptInv, Kept
  <2>5. Promise!Copy(c, b)
    BY <2>1, <2>3, <2>4, CodesAgree DEF Promise!Copy, Asking
  <2> QED
    BY <2>4, <2>5
<1>6. CASE StartSeek(c)
  <2>1. \A cl : cl.op = "seek" /\ cl.ms = cur[c] /\ cl.phase = "start" => Kept(p, i, cl)
    BY DEF Kept, SeekKept
  <2> QED
    BY <1>1, <1>6, <2>1, BeginPromised DEF StartSeek, Ops
<1>7. CASE StartCount(c)
  <2>1. /\ life[c] = "live" /\ ~AtEnd(cur[c])
        /\ Begin("count", c, words[i].key, Onwards, cur[c], 0)
    BY <1>7 DEF StartCount, Onwards
  <2>2. i \in p.items /\ OnKlv(p, cur[c])
    BY <1>1, <1>2, <2>1, AheadNats DEF OnKlv, AtEnd
  <2>3. words[i].key = KeyOf(p, i) /\ words[i].key \in FourCC
    BY <1>1, <2>2, ItemFacts DEF KeyOf, words
  <2>4. Met(p, i, i) = {}
    BY <1>2, <2>1 DEF Met
  <2>5. OnWay(p, i, i, Onwards)
    BY <1>2, <2>1
  <2>6. \A cl : /\ cl.op = "count" /\ cl.key = KeyOf(p, i) /\ cl.flags = Onwards
                /\ cl.ms = cur[c] /\ cl.count = 0
                => Kept(p, i, cl)
    BY <2>2, <2>4, <2>5 DEF Kept, CountKept
  <2> QED
    BY <1>1, <2>1, <2>3, <2>6, BeginPromised DEF Ops
<1>8. ASSUME NEW flags \in Flags, StartNext(c, flags) PROVE KeptInv' /\ Promise!Ask
  <2>1. \A cl : cl.op = "next" /\ cl.flags = flags /\ cl.ms = cur[c] => Kept(p, i, cl)
    BY <1>2, <1>8 DEF StartNext, Kept, NextKept
  <2> QED
    BY <1>1, <1>8, <2>1, BeginPromised DEF StartNext, Ops
<1>9. ASSUME NEW flags \in Flags, NEW key \in FindKeys, StartFindNext(c, key, flags)
      PROVE  KeptInv' /\ Promise!Ask
  <2>1. \A cl : cl.op = "findnext" /\ cl.key = key /\ cl.flags = flags /\ cl.ms = cur[c]
                => Kept(p, i, cl)
    BY <1>2, <1>9 DEF StartFindNext, Kept, FindNextKept
  <2> QED
    BY <1>1, <1>9, <2>1, FindKeysAssumption, BeginPromised DEF StartFindNext, Ops
<1>10. ASSUME NEW flags \in Flags, NEW key \in FindKeys, StartFindPrev(c, key, flags)
       PROVE  KeptInv' /\ Promise!Ask
  <2>1. \A cl : /\ cl.op = "findprev" /\ cl.phase = "start" /\ cl.ms = cur[c]
                /\ cl.level = cur[c].nest_level
                => Kept(p, i, cl)
    BY DEF Kept, FindPrevKept, InItsNest
  <2> QED
    BY <1>1, <1>10, <2>1, FindKeysAssumption, BeginPromised DEF StartFindPrev, Ops
<1> QED
  BY <1>3, <1>4, <1>5, <1>6, <1>7, <1>8, <1>9, <1>10

(* A sound payload is a chain of DEVCs: GPMF_Init opens it at the first.    *)
LEMMA InitPromised ==
  ASSUME PromiseInv, Sound(payload), InitHop \/ InitEnd
  PROVE  KeptInv' /\ (Promise!Open \/ UNCHANGED Promise!avars)
<1> DEFINE p == payload
           i == call.mark
<1>1. /\ Outlined(p) /\ 0 \in p.items /\ p.longs \in Nat /\ TypeInv
      /\ words = p.words /\ call \in Call /\ call.op = "init"
      /\ i = p.longs \/ (i \in p.items /\ IsDevice(p, i))
  BY SoundOutlined, PayloadReads
     DEF PromiseInv, KlvInv, KlvCall, words, TypeInv, TypeOK, InitHop, InitEnd, Running
<1>2. i \in p.items => i \in Nat /\ i + 1 < p.longs /\ SizeAt(words, i) \in Nat /\ ChainGoesOn
  BY <1>1, ItemFacts, DeviceFacts, AheadNats DEF ChainGoesOn
<1>3. CASE InitHop
  <2> DEFINE to   == i + 2 + SizeAt(words, i)
             next == [call EXCEPT !.mark = to]
  <2>1. to \in Nat
    <3>1. i \in p.items
      BY <1>1, <1>3 DEF InitHop, ChainGoesOn
    <3> QED
      BY <1>2, <3>1
  <2>2. GoOn(next)
    BY <1>3 DEF InitHop
  <2> HIDE DEF to
  <2>3. next \in Call /\ next.op = "init" /\ Asking(next) = Asking(call)
    BY <1>1, <2>1 DEF Call, Asking
  <2> HIDE DEF next
  <2>4. Kept(p, cur[call.on].pos, next)
    BY <2>3 DEF Kept
  <2> QED
    BY <1>1, <2>2, <2>3, <2>4, GoOnPromised
<1>4. CASE InitEnd
  <2>1. i = p.longs /\ 0 < p.longs
    <3>1. i \notin p.items
      BY <1>2, <1>4 DEF InitEnd
    <3>2. 0 + 1 < p.longs
      BY <1>1, ItemFacts
    <3> QED
      BY <1>1, <3>1, <3>2
  <2>2. Finish(OK, Opened(p.longs), "live")
    BY <1>1, <1>4, <2>1 DEF InitEnd
  <2>3. Opened(p.longs).pos = 0
    BY DEF Opened, Blank
  <2>4. Promise!Move(0, OK) /\ KeptInv'
    BY <1>1, <2>2, <2>3, MoveOf DEF Spot
  <2> QED
    BY <1>1, <2>4, AskedIs, CodesAgree DEF Promise!Open
<1> QED
  BY <1>3, <1>4

-----------------------------------------------------------------------------
(* Every step keeps the invariant and is a step of KlvCursor or a stutter.  *)
LEMMA StepsPromised ==
  ASSUME PromiseInv, Sound(payload), [Next]_vars
  PROVE  PromiseInv' /\ [Promise!Next]_Promise!avars
<1>1. TypeInv' /\ KlvInv'
  BY NextTyped, NextKlv DEF PromiseInv
<1>2. CASE Start
  <2>1. KeptInv' /\ Promise!Next
    BY <1>2, StartPromised DEF Promise!Next
  <2> QED
    BY <1>1, <2>1 DEF PromiseInv
<1>3. CASE Step
  <2>1. ASSUME InitHop \/ InitEnd PROVE KeptInv' /\ (Promise!Open \/ UNCHANGED Promise!avars)
    BY <2>1, InitPromised
  <2>2. ASSUME NextPass PROVE KeptInv' /\ (Promise!Step \/ UNCHANGED Promise!avars)
    BY <2>2, NextPassPromised
  <2>3. ASSUME FindNextAtEnd \/ FindNextPass
        PROVE  KeptInv' /\ (Promise!FindNext \/ UNCHANGED Promise!avars)
    BY <2>3, FindNextAtEndPromised, FindNextPassPromised
  <2>4. ASSUME \/ FindPrevRefuse \/ FindPrevRewind \/ FindPrevFound
               \/ FindPrevExhausted \/ FindPrevPass
        PROVE  KeptInv' /\ (Promise!FindPrev \/ UNCHANGED Promise!avars)
    BY <2>4, FindPrevRefusePromised, FindPrevRewindPromised, FindPrevFoundPromised,
       FindPrevExhaustedPromised, FindPrevPassPromised
  <2>5. ASSUME SeekStart \/ SeekOpen \/ SeekPass
        PROVE  KeptInv' /\ (Promise!Seek \/ UNCHANGED Promise!avars)
    BY <2>5, SeekStartPromised, SeekOpenPromised, SeekPassPromised
  <2>6. ASSUME CountPass PROVE KeptInv' /\ (Promise!Count \/ UNCHANGED Promise!avars)
    BY <2>6, CountPassPromised
  <2>7. ~FindPrevOverrun
    BY NoOverrun
  <2>8. KeptInv' /\ (Promise!Next \/ UNCHANGED Promise!avars)
    BY <1>3, <2>1, <2>2, <2>3, <2>4, <2>5, <2>6, <2>7, Zenon DEF Step, Promise!Next
  <2> QED
    BY <1>1, <2>8 DEF PromiseInv
<1>4. CASE UNCHANGED vars
  <2>1. KeptInv'
    BY <1>4 DEF vars, PromiseInv, KeptInv, payload
  <2>2. [d \in Cursors |-> Place(d)]' = [d \in Cursors |-> Place(d)]
    BY <1>4 DEF vars, Place
  <2>3. UNCHANGED Promise!avars
    BY <1>4, <2>2 DEF vars, Promise!avars
  <2> QED
    BY <1>1, <2>1, <2>3 DEF PromiseInv
<1> QED
  BY <1>2, <1>3, <1>4 DEF Next

(* On a sound payload, of any shape and depth and under any flags, every    *)
(* call of Init, Next, FindNext, FindPrev, SeekToSamples and the count of   *)
(* samples, passes and interleavings of other cursors included, answers as  *)
(* KlvCursor promises: GpmfNav implements it.                               *)
THEOREM PromiseKept == Spec => (Sound(payload) => KeepsPromise)
<1>1. Init /\ Sound(payload) => PromiseInv /\ Promise!Init
  <2> SUFFICES ASSUME Init, Sound(payload) PROVE PromiseInv /\ Promise!Init
    OBVIOUS
  <2>1. TypeInv
    BY InitTyped
  <2>2. KlvInv /\ KeptInv
    BY IdleCall DEF Init, KlvInv, KlvAt, KlvCall, KeptInv, Kept
  <2>3. Promise!Init
    BY DEF Init, Promise!Init, Place, Idle, Promise!Nothing, Promise!Unopened,
           Promise!OK, OK, Promise!DEVC, DEVC
  <2> QED
    BY <2>1, <2>2, <2>3 DEF PromiseInv
<1>2. /\ PromiseInv /\ Sound(payload) /\ [Next]_vars
      => PromiseInv' /\ Sound(payload)' /\ [Promise!Next]_Promise!avars
  BY StepsPromised, BufferKept
<1> QED
  BY <1>1, <1>2, PTL DEF Spec, KeepsPromise, Promise!Spec
=============================================================================
