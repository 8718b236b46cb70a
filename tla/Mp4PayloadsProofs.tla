------------------------- MODULE Mp4PayloadsProofs --------------------------
(***************************************************************************)
(* The payload buffers keep their promises for every index, every number   *)
(* of clients and every size of the file, of the slack and of the integers *)
(* the sizes are kept in.                                                  *)
(*                                                                         *)
(* RoomForRead is not inductive on its own: a buffer that is grown keeps   *)
(* the payload that is in it, so the size it had must be known to be a     *)
(* number, and the room that is asked for must not wrap.  HandleLive needs *)
(* in addition that the room a client asked for is still there when it     *)
(* reads (RoomAsked).  ReadBack needs the index to be one in which no two  *)
(* payloads overlap.                                                       *)
(***************************************************************************)
EXTENDS Mp4Payloads, TLAPS

(* The index is one of those files may have, and every client has a handle: *)
(* none, one whose resource is gone, or a live one.                         *)
IndexKept == index \in {Indexes[n] : n \in DOMAIN Indexes}

Live(h) == h \notin {None, Dangling}

HandleShape(h) ==
  Live(h) =>
    /\ h = Resource(h.size, h.of, h.bytes)
    /\ h.size \in 0..(Modulus - 1)
    /\ h.of \in Payloads \union {0}

HandlesKept ==
  /\ held = [c \in Clients |-> held[c]]
  /\ \A c \in Clients : HandleShape(held[c])

BytesKept ==
  /\ disk \in [0..(FileSize - 1) -> Versions]
  /\ latest \in [Payloads -> Versions]

TypeInv ==
  /\ IndexKept
  /\ memory \in {"ample", "short"}
  /\ HandlesKept
  /\ BytesKept
  /\ asked \in [Clients -> Payloads \union {0}]

(* The room a client asked for is there until it reads.                     *)
RoomAsked ==
  Roomy => \A c \in Clients :
    asked[c] # 0 /\ Live(held[c]) => GetPayloadSize(asked[c]) <= held[c].size

IInv == TypeInv /\ RoomForRead /\ RoomAsked /\ HandleLive /\ ReadBack

-----------------------------------------------------------------------------
(* Arithmetic: what fits the width of sizes does not wrap.                  *)
LEMMA NoWrap ==
  ASSUME NEW m \in Nat \ {0}, NEW n \in Nat, n < m
  PROVE  n % m = n
BY Z3

(* The remainder of a sum of sizes is a size.                               *)
LEMMA WrapInRange ==
  ASSUME NEW m \in Nat \ {0}, NEW n \in Nat
  PROVE  n % m \in 0..(m - 1)
BY Z3

(* The whole words of a payload are no more than its bytes.                 *)
LEMMA WholeWords ==
  ASSUME NEW n \in Nat
  PROVE  /\ 4 * (n \div 4) \in Nat
         /\ 4 * (n \div 4) <= n
         /\ n % 4 = 0 => 4 * (n \div 4) = n
BY Z3

(* The payloads of an index have sizes and offsets, and do not overlap.     *)
LEMMA IndexShape ==
  ASSUME IndexKept
  PROVE  /\ 0 \notin Payloads
         /\ \A i \in Payloads : index[i].size \in 0..(Modulus - 1) /\ index[i].off \in Nat
         /\ \A i, j \in Payloads : i # j =>
              \/ index[i].off + index[i].size <= index[j].off
              \/ index[j].off + index[j].size <= index[i].off
<1>1. PICK n \in DOMAIN Indexes : index = Indexes[n]
  BY DEF IndexKept
<1> QED
  BY <1>1, IndexAssumption, NumberAssumption DEF Payloads

(* What the payloads of an index are to the code that reads them.           *)
LEMMA SizesOfPayloads ==
  ASSUME IndexKept, NEW i \in Payloads
  PROVE  /\ index[i].size \in Nat
         /\ GetPayloadSize(i) \in Nat
         /\ GetPayloadSize(i) <= index[i].size
         /\ Aligned => GetPayloadSize(i) = index[i].size
         /\ Roomy => index[i].size + Slack < Modulus
<1>1. index[i].size \in Nat
  BY IndexShape, SizeAssumption
<1>2. /\ 4 * (index[i].size \div 4) \in Nat
      /\ 4 * (index[i].size \div 4) <= index[i].size
      /\ index[i].size % 4 = 0 => 4 * (index[i].size \div 4) = index[i].size
  BY <1>1, WholeWords
<1> QED
  BY <1>1, <1>2 DEF GetPayloadSize, Aligned, Roomy

(* GetPayloadResource gives back a handle of the same payload whose buffer  *)
(* is no smaller than it was, and has the room asked for unless that wraps; *)
(* or none, if memory is refused and the buffer was too small.              *)
LEMMA ResourceRoom ==
  ASSUME NEW h, HandleShape(h), h # Dangling, NEW n \in Nat,
         NEW r \in GetPayloadResource(h, n)
  PROVE  /\ r # Dangling
         /\ HandleShape(r)
         /\ r # None /\ n + Slack < Modulus => n <= r.size
         /\ r # None /\ h = None => r.of = 0
         /\ r # None /\ h # None => r.of = h.of
         /\ r # None /\ h # None /\ n + Slack < Modulus => h.size <= r.size
         /\ r = None => memory = "short" /\ (h = None \/ n > h.size)
<1> DEFINE room == (n + Slack) % Modulus
<1>1. room \in 0..(Modulus - 1) /\ (n + Slack < Modulus => room = n + Slack)
  <2>1. n + Slack \in Nat /\ Modulus \in Nat \ {0}
    BY SizeAssumption
  <2>2. room \in 0..(Modulus - 1)
    BY <2>1, WrapInRange
  <2>3. n + Slack < Modulus => room = n + Slack
    BY <2>1, NoWrap
  <2> QED
    BY <2>2, <2>3
<1> HIDE DEF room
<1>2. CASE r = None
  BY <1>2 DEF GetPayloadResource, Refused, HandleShape, Live, None, Dangling, Resource
<1>3. CASE r # None /\ h = None
  <2>1. r = Resource(room, 0, << >>)
    BY <1>3 DEF GetPayloadResource, Refused, room
  <2> QED
    BY <2>1, <1>1, <1>3, SizeAssumption DEF HandleShape, Live, None, Dangling, Resource
<1>4. CASE r # None /\ h # None /\ n > h.size
  <2>1. r = [h EXCEPT !.size = room]
    BY <1>4 DEF GetPayloadResource, Refused, room
  <2>2. h = Resource(h.size, h.of, h.bytes) /\ h.size \in 0..(Modulus - 1)
        /\ h.of \in Payloads \union {0}
    BY <1>4 DEF HandleShape, Live
  <2>3. r = Resource(room, h.of, h.bytes)
    BY <2>1, <2>2 DEF Resource
  <2> QED
    BY <2>2, <2>3, <1>1, <1>4, SizeAssumption DEF HandleShape, Live, None, Dangling, Resource
<1>5. CASE r # None /\ h # None /\ ~(n > h.size)
  <2>1. r = h
    BY <1>5 DEF GetPayloadResource
  <2> QED
    BY <2>1, <1>5, SizeAssumption DEF HandleShape, Live, None, Dangling, Resource
<1> QED
  BY <1>2, <1>3, <1>4, <1>5

-----------------------------------------------------------------------------
(* No client has a handle at first, and the file is as it was.              *)
LEMMA InitKept == Init => IInv
<1> SUFFICES ASSUME Init PROVE IInv
  OBVIOUS
<1>1. IndexKept /\ memory \in {"ample", "short"}
  BY DEF Init, IndexKept
<1>2. \A c \in Clients : held[c] = None /\ asked[c] = 0
  BY DEF Init
<1>3. HandlesKept
  BY <1>2 DEF Init, HandlesKept, HandleShape, Live
<1>4. BytesKept
  BY VersionAssumption DEF Init, BytesKept
<1>5. asked \in [Clients -> Payloads \union {0}]
  BY DEF Init
<1>6. RoomForRead /\ RoomAsked /\ HandleLive
  BY <1>2 DEF RoomForRead, Holding, RoomAsked, Live, HandleLive, Handle, None, Dangling
<1>7. ReadBack
  <2> SUFFICES ASSUME NEW i \in Payloads, Readable(i), NEW b \in Span(i)
               PROVE  disk[b] = latest[i]
    BY DEF ReadBack
  <2>1. b \in 0..(FileSize - 1)
    BY <1>1, IndexShape, SizeAssumption DEF Readable, Span
  <2> QED
    BY <2>1 DEF Init
<1> QED
  BY <1>1, <1>3, <1>4, <1>5, <1>6, <1>7 DEF IInv, TypeInv

(* What a step must know of the handle h it leaves a client, and of the     *)
(* payload k the client then has room for, when the file is not written.    *)
LEMMA HandleStep ==
  ASSUME IInv, NEW c \in Clients, NEW h, NEW k \in Payloads \union {0},
         UNCHANGED <<index, memory, disk, latest>>,
         held' = [held EXCEPT ![c] = h],
         asked' = [asked EXCEPT ![c] = k],
         HandleShape(h),
         Roomy /\ Live(h) /\ h.of # 0 => index[h.of].size <= h.size,
         Roomy /\ Live(h) /\ k # 0 => GetPayloadSize(k) <= h.size,
         Roomy /\ (memory = "ample" \/ (c \in Careful /\ Aligned)) => h # Dangling
  PROVE  IInv'
<1>1. held = [d \in Clients |-> held[d]] /\ asked \in [Clients -> Payloads \union {0}]
  BY DEF IInv, TypeInv, HandlesKept
<1>2. /\ held' = [d \in Clients |-> held'[d]]
      /\ \A d \in Clients : held'[d] = IF d = c THEN h ELSE held[d]
      /\ asked' \in [Clients -> Payloads \union {0}]
      /\ \A d \in Clients : asked'[d] = IF d = c THEN k ELSE asked[d]
  BY <1>1
<1>3. IndexKept' /\ (memory \in {"ample", "short"})'
  BY DEF IInv, TypeInv, IndexKept
<1>4. HandlesKept'
  BY <1>2 DEF IInv, TypeInv, HandlesKept, HandleShape, Payloads
<1>5. BytesKept'
  BY DEF IInv, TypeInv, BytesKept, Payloads
<1>6. (asked \in [Clients -> Payloads \union {0}])'
  BY <1>2 DEF Payloads
<1>7. (Roomy' <=> Roomy) /\ (Aligned' <=> Aligned)
  BY DEF Roomy, Aligned, Payloads
<1>8. RoomForRead'
  BY <1>2, <1>7 DEF IInv, RoomForRead, Holding, Live
<1>9. RoomAsked'
  BY <1>2, <1>7 DEF IInv, RoomAsked, GetPayloadSize
<1>10. HandleLive'
  BY <1>2, <1>7 DEF IInv, HandleLive, Handle
<1>11. ReadBack'
  BY DEF IInv, ReadBack, Readable, Span, Payloads
<1> QED
  BY <1>3, <1>4, <1>5, <1>6, <1>8, <1>9, <1>10, <1>11 DEF IInv, TypeInv

-----------------------------------------------------------------------------
(* Asking for room leaves the payload in the buffer, and room for the next. *)
LEMMA AskKeeps ==
  ASSUME IInv, NEW c \in Clients, NEW i \in Payloads, Ask(c, i)
  PROVE  IInv'
<1> DEFINE n == GetPayloadSize(i)
<1>1. PICK h \in GetPayloadResource(held[c], n) : held' = [held EXCEPT ![c] = h]
  BY DEF Ask
<1>2. n \in Nat /\ (Roomy => n + Slack < Modulus)
  BY SizesOfPayloads, SizeAssumption DEF IInv, TypeInv
<1>3. HandleShape(held[c]) /\ held[c] # Dangling
  BY DEF Ask, Handle, IInv, TypeInv, HandlesKept
<1> HIDE DEF n
<1>4. /\ h # Dangling
      /\ HandleShape(h)
      /\ h # None /\ n + Slack < Modulus => n <= h.size
      /\ h # None /\ held[c] = None => h.of = 0
      /\ h # None /\ held[c] # None => h.of = held[c].of
      /\ h # None /\ held[c] # None /\ n + Slack < Modulus => held[c].size <= h.size
  BY <1>2, <1>3, ResourceRoom
<1>5. Roomy /\ Live(h) /\ h.of # 0 => index[h.of].size <= h.size
  <2> SUFFICES ASSUME Roomy, Live(h), h.of # 0 PROVE index[h.of].size <= h.size
    OBVIOUS
  <2>1. Live(held[c]) /\ h.of = held[c].of /\ held[c].size <= h.size
    BY <1>2, <1>3, <1>4 DEF Live
  <2>2. index[held[c].of].size <= held[c].size
    BY <2>1 DEF IInv, RoomForRead, Holding, Live
  <2>3. index[h.of].size \in Nat
    BY <1>4, SizesOfPayloads DEF IInv, TypeInv, HandleShape
  <2> QED
    BY <2>1, <2>2, <2>3, <1>3, <1>4, SizeAssumption DEF HandleShape
<1>6. Roomy /\ Live(h) => GetPayloadSize(i) <= h.size
  BY <1>2, <1>4 DEF Live, n
<1> QED
  BY <1>1, <1>4, <1>5, <1>6, HandleStep DEF Ask

(* A payload is read into a buffer that has the room, or there is none and  *)
(* the client is left with a handle to nothing.                             *)
LEMMA GetPayloadKeeps ==
  ASSUME IInv, NEW c \in Clients, NEW i \in Payloads, GetPayload(c, i)
  PROVE  IInv'
<1> DEFINE n == index[i].size
<1>1. PICK h \in GetPayloadResource(held[c], n) :
        held' = [held EXCEPT ![c] = IF h = None THEN Dangling ELSE Resource(h.size, i, Read(i))]
  BY DEF GetPayload
<1>2. n \in Nat /\ (Roomy => n + Slack < Modulus)
  BY SizesOfPayloads, SizeAssumption DEF IInv, TypeInv
<1>3. HandleShape(held[c]) /\ Live(held[c])
  BY DEF GetPayload, Live, IInv, TypeInv, HandlesKept
<1> HIDE DEF n
<1>4. /\ h # Dangling
      /\ HandleShape(h)
      /\ h # None /\ n + Slack < Modulus => n <= h.size
      /\ h = None => memory = "short" /\ (held[c] = None \/ n > held[c].size)
  BY <1>2, <1>3, ResourceRoom DEF Live
<1> DEFINE r == IF h = None THEN Dangling ELSE Resource(h.size, i, Read(i))
<1>5. HandleShape(r)
  BY <1>4 DEF HandleShape, Live, Resource, Dangling
<1>6. Roomy /\ Live(r) /\ r.of # 0 => index[r.of].size <= r.size
  BY <1>2, <1>4 DEF Live, Resource, n
<1>7. Roomy /\ (memory = "ample" \/ (c \in Careful /\ Aligned)) => r # Dangling
  <2> SUFFICES ASSUME Roomy, r = Dangling, c \in Careful, Aligned PROVE FALSE
    BY <1>4 DEF Dangling, Resource
  <2>1. h = None
    BY DEF Dangling, Resource
  <2>2. asked[c] = i /\ i # 0
    BY IndexShape DEF GetPayload, IInv, TypeInv
  <2>3. GetPayloadSize(i) <= held[c].size /\ GetPayloadSize(i) = n
    BY <2>2, <1>3, SizesOfPayloads DEF IInv, TypeInv, RoomAsked, n
  <2> QED
    BY <2>1, <2>3, <1>2, <1>3, <1>4, SizeAssumption DEF HandleShape, Live
<1>8. asked' = [asked EXCEPT ![c] = 0] /\ UNCHANGED <<index, memory, disk, latest>>
  BY DEF GetPayload
<1>9. held' = [held EXCEPT ![c] = r]
  BY <1>1
<1> HIDE DEF r
<1> QED
  BY <1>5, <1>6, <1>7, <1>8, <1>9, HandleStep

(* A resource that is given back takes no other with it.                    *)
LEMMA FreeKeeps ==
  ASSUME IInv, NEW c \in Clients, FreePayloadResource(c)
  PROVE  IInv'
<1>1. HandleShape(None) /\ ~Live(None) /\ None # Dangling
  BY DEF HandleShape, Live, None, Dangling
<1>2. /\ held' = [held EXCEPT ![c] = None] /\ asked' = [asked EXCEPT ![c] = 0]
      /\ UNCHANGED <<index, memory, disk, latest>>
  BY DEF FreePayloadResource
<1> QED
  BY <1>1, <1>2, HandleStep

(* A write of the size of the payload covers it, and no other.              *)
LEMMA WriteKeeps ==
  ASSUME IInv, NEW i \in Payloads, NEW n \in Nat, NEW v \in Versions, WritePayload(i, n, v)
  PROVE  IInv'
<1>1. /\ n = index[i].size /\ Readable(i)
      /\ disk' = [b \in DOMAIN disk |-> IF b \in index[i].off..(index[i].off + n - 1) THEN v
                                       ELSE disk[b]]
      /\ latest' = [latest EXCEPT ![i] = v]
      /\ UNCHANGED <<index, memory, held, asked>>
  BY DEF WritePayload, Fits
<1>2. disk \in [0..(FileSize - 1) -> Versions] /\ latest \in [Payloads -> Versions]
  BY DEF IInv, TypeInv, BytesKept
<1>3. IndexKept' /\ (memory \in {"ample", "short"})'
  BY <1>1 DEF IInv, TypeInv, IndexKept
<1>4. HandlesKept'
  BY <1>1 DEF IInv, TypeInv, HandlesKept, HandleShape, Payloads
<1>5. BytesKept'
  BY <1>1, <1>2 DEF BytesKept, Payloads
<1>6. (asked \in [Clients -> Payloads \union {0}])'
  BY <1>1 DEF Payloads, IInv, TypeInv
<1>7. (Roomy' <=> Roomy) /\ (Aligned' <=> Aligned)
  BY <1>1 DEF Roomy, Aligned, Payloads
<1>8. RoomForRead' /\ RoomAsked' /\ HandleLive'
  BY <1>1, <1>7 DEF IInv, RoomForRead, Holding, RoomAsked, GetPayloadSize, HandleLive, Handle
<1>9. ReadBack'
  <2> SUFFICES ASSUME NEW j \in Payloads, Readable(j), NEW b \in Span(j)
               PROVE  disk'[b] = latest'[j]
    BY <1>1 DEF ReadBack, Payloads, Readable, Span
  <2>1. /\ \A k \in Payloads : index[k].size \in Nat /\ index[k].off \in Nat
        /\ i # j => \/ index[i].off + index[i].size <= index[j].off
                    \/ index[j].off + index[j].size <= index[i].off
    BY IndexShape, SizeAssumption DEF IInv, TypeInv
  <2>2. b \in 0..(FileSize - 1) /\ b \in index[j].off..(index[j].off + index[j].size - 1)
    BY <2>1, SizeAssumption DEF Readable, Span
  <2>3. CASE j = i
    BY <1>1, <1>2, <2>2, <2>3
  <2>4. CASE j # i
    <3>1. b \notin index[i].off..(index[i].off + n - 1)
      BY <1>1, <2>1, <2>2, <2>4
    <3>2. disk'[b] = disk[b] /\ latest'[j] = latest[j]
      BY <1>1, <1>2, <2>2, <2>4, <3>1
    <3> QED
      BY <3>2 DEF IInv, ReadBack
  <2> QED
    BY <2>3, <2>4
<1> QED
  BY <1>3, <1>4, <1>5, <1>6, <1>8, <1>9 DEF IInv, TypeInv

(* Nothing changes when the program does something else.                    *)
LEMMA StutterKeeps ==
  ASSUME IInv, UNCHANGED vars
  PROVE  IInv'
BY DEF vars, IInv, TypeInv, IndexKept, HandlesKept, HandleShape, BytesKept, RoomForRead,
       RoomAsked, HandleLive, ReadBack, Roomy, Aligned, Holding, Handle, GetPayloadSize,
       Readable, Span, Payloads

(* Every operation on the payloads of an open file keeps the invariant.     *)
LEMMA StepKeeps == IInv /\ [Next]_vars => IInv'
<1> SUFFICES ASSUME IInv, [Next]_vars PROVE IInv'
  OBVIOUS
<1>1. CASE \E c \in Clients, i \in Payloads : Ask(c, i)
  BY <1>1, AskKeeps
<1>2. CASE \E c \in Clients, i \in Payloads : GetPayload(c, i)
  BY <1>2, GetPayloadKeeps
<1>3. CASE \E c \in Clients : FreePayloadResource(c)
  BY <1>3, FreeKeeps
<1>4. CASE \E i, j \in Payloads, v \in Versions : WritePayload(i, index[j].size, v)
  BY <1>4, WriteKeeps, IndexShape, SizesOfPayloads DEF IInv, TypeInv
<1>5. CASE UNCHANGED vars
  BY <1>5, StutterKeeps
<1> QED
  BY <1>1, <1>2, <1>3, <1>4, <1>5 DEF Next

(* The invariant holds of every sequence of reads and writes.               *)
THEOREM SpecKept == Spec => []IInv
<1>1. Init => IInv
  BY InitKept
<1>2. IInv /\ [Next]_vars => IInv'
  BY StepKeeps
<1> QED
  BY <1>1, <1>2, PTL DEF Spec

(* Type correctness: in particular every buffer's size fits its width.      *)
THEOREM BuffersTyped == Spec => []TypeOK
<1>1. IInv => TypeOK
  BY DEF IInv, TypeInv, BytesKept, HandlesKept, HandleShape, Live, TypeOK
<1> QED
  BY <1>1, SpecKept, PTL

(* GetPayload never reads more than the buffer holds, in an index whose     *)
(* sizes leave room for the slack.                                          *)
THEOREM BuffersRoomy == Spec => []RoomForRead
<1>1. IInv => RoomForRead
  BY DEF IInv
<1> QED
  BY <1>1, SpecKept, PTL

(* GetPayload, refused memory, frees the resource of a client that did not  *)
(* ask before, or whose payloads are not of whole words, and of no other.   *)
THEOREM HandlesLive == Spec => []HandleLive
<1>1. IInv => HandleLive
  BY DEF IInv
<1> QED
  BY <1>1, SpecKept, PTL

(* WritePayload overwrites one payload and no byte of another.              *)
THEOREM WritesKept == Spec => []ReadBack
<1>1. IInv => ReadBack
  BY DEF IInv
<1> QED
  BY <1>1, SpecKept, PTL
=============================================================================
