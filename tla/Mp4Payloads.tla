---------------------------- MODULE Mp4Payloads -----------------------------
(***************************************************************************)
(* The payload buffers of an open MP4.  A client holds a handle to a       *)
(* resource, a buffer that grows with the payloads read into it and is     *)
(* used for all of them.  The parser's streams point into it.              *)
(*                                                                         *)
(* A careful client (the demo, the exporter) asks for room before every    *)
(* payload and keeps the handle it is given; the others (the sample rate)  *)
(* ask for the first payload only, and GetPayload grows the buffer behind  *)
(* their handle.  The bytes of the file are versions of the payloads.      *)
(***************************************************************************)
EXTENDS Integers, Sequences, FiniteSets

CONSTANTS
  Indexes,    (* tables of the size and the offset of payloads, by name     *)
  FileSize,   (* the size of the file                                       *)
  Slack,      (* 256: the bytes a buffer is granted beyond what is asked    *)
  Modulus,    (* 2^32: the sizes of buffers are kept in 32 bits             *)
  Versions,   (* what is written; the file begins with 0                    *)
  Clients, Careful

ASSUME SizeAssumption == Slack \in Nat /\ FileSize \in Nat /\ Modulus \in Nat \ {0}

ASSUME VersionAssumption == 0 \in Versions

ASSUME ClientAssumption == Careful \subseteq Clients

(* Payloads are numbered from 1 here: 0 is no payload.                      *)
ASSUME NumberAssumption == \A n \in DOMAIN Indexes : 0 \notin DOMAIN Indexes[n]

ASSUME IndexAssumption ==
  \A n \in DOMAIN Indexes : \A i, j \in DOMAIN Indexes[n] :
    LET a == Indexes[n][i]
        b == Indexes[n][j]
    IN /\ a.size \in 0..(Modulus - 1) /\ a.off \in Nat
       /\ i # j => a.off + a.size <= b.off \/ b.off + b.size <= a.off

VARIABLES
  index,    (* the payloads of the open file                                *)
  memory,   (* "ample", or "short" when a request may be refused            *)
  disk,     (* the version each byte of the file belongs to                 *)
  held,     (* the resource of each client                                  *)
  asked,    (* the payload a client asked room for, 0 if none               *)
  latest    (* the version of each payload last written; no one reads it    *)

vars == <<index, memory, disk, held, asked, latest>>

Payloads == DOMAIN index

None == [is |-> "none"]

(* The handle of a resource that was freed behind the client's back.        *)
Dangling == [is |-> "dangling"]

Resource(n, of, bytes) == [is |-> "live", size |-> n, of |-> of, bytes |-> bytes]

Init ==
  /\ \E n \in DOMAIN Indexes : index = Indexes[n]
  /\ memory \in {"ample", "short"}
  /\ disk = [b \in 0..(FileSize - 1) |-> 0]
  /\ held = [c \in Clients |-> None]
  /\ asked = [c \in Clients |-> 0]
  /\ latest = [i \in Payloads |-> 0]

-----------------------------------------------------------------------------
Refused == IF memory = "short" THEN {None} ELSE {}

(* Mutants: the buffer is taken as it is, and sizes have no width.          *)
GetPayloadResourceFixed(h, n) ==
  IF h = None THEN {Resource((n + Slack) % Modulus, 0, << >>)} \union Refused ELSE {h}

GetPayloadResourceWide(h, n) ==
  IF h = None THEN {Resource(n + Slack, 0, << >>)} \union Refused
  ELSE IF n > h.size THEN {[h EXCEPT !.size = n + Slack]} \union Refused
  ELSE {h}

(* What GetPayloadResource may return: the handle as it is, a new or larger *)
(* buffer, or none, with the resource and its old buffer gone.              *)
GetPayloadResource(h, n) ==
  LET room == (n + Slack) % Modulus
  IN IF h = None THEN {Resource(room, 0, << >>)} \union Refused
     ELSE IF n > h.size THEN {[h EXCEPT !.size = room]} \union Refused
     ELSE {h}

(* GetPayloadSize: the whole words of a payload.                            *)
GetPayloadSize(i) == 4 * (index[i].size \div 4)

Handle(c) == held[c] # Dangling

(* Mutant: the handle that is returned is dropped.                          *)
AskDropping(c, i) ==
  /\ Handle(c)
  /\ c \notin Careful => held[c] = None
  /\ \E h \in GetPayloadResource(held[c], GetPayloadSize(i)) :
       held' = [held EXCEPT ![c] = IF h = None /\ @ # None THEN Dangling ELSE h]
  /\ asked' = [asked EXCEPT ![c] = i]
  /\ UNCHANGED <<index, memory, disk, latest>>

Ask(c, i) ==
  /\ Handle(c)
  /\ c \notin Careful => held[c] = None
  /\ \E h \in GetPayloadResource(held[c], GetPayloadSize(i)) :
       held' = [held EXCEPT ![c] = h]
  /\ asked' = [asked EXCEPT ![c] = i]
  /\ UNCHANGED <<index, memory, disk, latest>>

Span(i) == index[i].off..(index[i].off + index[i].size - 1)

Readable(i) == index[i].off + index[i].size <= FileSize /\ index[i].size > 0

Read(i) == [k \in 1..index[i].size |-> disk[index[i].off + k - 1]]

(* Without the resource, or past the end of the file, there is no payload.  *)
(* The handle that GetPayload is given stays the client's, whatever becomes *)
(* of the resource.                                                         *)
GetPayload(c, i) ==
  /\ held[c] \notin {None, Dangling}
  /\ c \in Careful => asked[c] = i
  /\ Readable(i)
  /\ \E h \in GetPayloadResource(held[c], index[i].size) :
       held' = [held EXCEPT ![c] =
                  IF h = None THEN Dangling ELSE Resource(h.size, i, Read(i))]
  /\ asked' = [asked EXCEPT ![c] = 0]
  /\ UNCHANGED <<index, memory, disk, latest>>

FreePayloadResource(c) ==
  /\ Handle(c)
  /\ held' = [held EXCEPT ![c] = None]
  /\ asked' = [asked EXCEPT ![c] = 0]
  /\ UNCHANGED <<index, memory, disk, latest>>

(* Mutant: a payload of another size is written as well.                    *)
FitsLoosely(i, n) == Readable(i) /\ n > 0

Fits(i, n) == Readable(i) /\ n = index[i].size

(* A program rewrites a payload in place, with n bytes of version v.        *)
WritePayload(i, n, v) ==
  /\ Fits(i, n)
  /\ disk' = [b \in DOMAIN disk |-> IF b \in index[i].off..(index[i].off + n - 1) THEN v
                                    ELSE disk[b]]
  /\ latest' = [latest EXCEPT ![i] = v]
  /\ UNCHANGED <<index, memory, held, asked>>

Next ==
  \/ \E c \in Clients, i \in Payloads : Ask(c, i)
  \/ \E c \in Clients, i \in Payloads : GetPayload(c, i)
  \/ \E c \in Clients : FreePayloadResource(c)
  \/ \E i, j \in Payloads, v \in Versions : WritePayload(i, index[j].size, v)

Spec == Init /\ [][Next]_vars

-----------------------------------------------------------------------------
(* What every variable holds.                                               *)
TypeOK ==
  /\ memory \in {"ample", "short"}
  /\ disk \in [0..(FileSize - 1) -> Versions]
  /\ \A c \in Clients :
       held[c] \notin {None, Dangling} =>
         held[c].of \in Payloads \union {0} /\ held[c].size \in 0..(Modulus - 1)
  /\ asked \in [Clients -> Payloads \union {0}]
  /\ latest \in [Payloads -> Versions]

Holding(c) == held[c] \notin {None, Dangling} /\ held[c].of # 0

(* No payload is so large that its room does not fit 32 bits.               *)
Roomy == \A i \in Payloads : index[i].size + Slack < Modulus

(* A payload is never read into a buffer that is too small for it.          *)
RoomForRead == Roomy => \A c \in Clients : Holding(c) => index[held[c].of].size <= held[c].size

Aligned == \A i \in Payloads : index[i].size % 4 = 0

(* The handle of a client never outlives its resource, if memory is granted *)
(* or if the client asks before every payload, and payloads are of whole    *)
(* words: then GetPayload has no need to grow the buffer.                   *)
HandleLive ==
  Roomy => \A c \in Clients : memory = "ample" \/ (c \in Careful /\ Aligned) => Handle(c)

(* The file holds what was last written to each payload, and no write       *)
(* touches another: what is read next is what was written last.             *)
ReadBack ==
  \A i \in Payloads : Readable(i) => \A b \in Span(i) : disk[b] = latest[i]
=============================================================================
