----------------------------- MODULE KlvCursor ------------------------------
(***************************************************************************)
(* What the navigation calls promise on a sound payload, in the terms the  *)
(* header and the README use: a cursor is at an entry of a forest of nests *)
(* (or at its end), a call takes it to an entry that depends on the forest *)
(* alone, or leaves it where it is and says why.  There are no positions   *)
(* to keep in step, no sizes and no passes here: a call is asked and then  *)
(* answered in one step, and Route says which entries it may come to.      *)
(*                                                                         *)
(* GpmfNav implements this.  Three departures from the ideal that the code *)
(* really makes are in it as choices: CURRENT_LEVEL over a DEVC may refuse *)
(* the next DEVC; a recursive search backwards may lose its place or miss  *)
(* what is there; and GPMF_SeekToSamples does not give what the header     *)
(* says of it where the samples are where it starts from, are repeated, or *)
(* share their nest with another (SeekAhead).                              *)
(***************************************************************************)
EXTENDS GpmfCursor, FiniteSets

CONSTANTS Payloads, Cursors

VARIABLES
  buffer,   (* the name of the payload                                       *)
  at,       (* where each cursor is                                          *)
  asked,    (* the call being made                                           *)
  answer    (* what the last call returned                                   *)

avars == <<buffer, at, asked, answer>>

p == Payloads[buffer]

Request == [op: Ops, on: Cursors, key: FourCC, flags: Flags]

Nothing == [op |-> "none", on |-> CHOOSE d \in Cursors : TRUE, key |-> DEVC,
            flags |-> {}]

Unopened == 0 - 1   \* never initialised
Lost     == 0 - 2   \* left where only a rewind helps

Place == p.items \union {p.longs, Unopened, Lost}

First(S) == CHOOSE i \in S : \A j \in S : i <= j
Final(S) == CHOOSE i \in S : \A j \in S : j <= i

(* The entries ahead of entry i: all of them, or those of its own nest.     *)
Siblings(i) == {j \in p.items : IF IsDevice(p, i) THEN IsDevice(p, j)
                                ELSE ~IsDevice(p, j) /\ p.up[j] = p.up[i]}

Route(i, how) ==
  IF i = p.longs THEN {}
  ELSE {j \in IF RECURSE \in how THEN p.items ELSE Siblings(i) : j > i}

KnownOf(S)      == {j \in S : Known(p, j)}
Keyed(S, k)     == {j \in S : KeyOf(p, j) = k}
OverDevices(i, how) == i \in p.items /\ IsDevice(p, i) /\ RECURSE \notin how

Init ==
  /\ buffer \in DOMAIN Payloads
  /\ at = [d \in Cursors |-> Unopened]
  /\ asked = Nothing
  /\ answer = [code |-> OK, count |-> 0]

-----------------------------------------------------------------------------
Ask ==
  /\ asked = Nothing
  /\ asked' \in Request
  /\ UNCHANGED <<buffer, at, answer>>

(* The call asked for is answered, with its cursor c at place.              *)
Asked(op) == asked.op = op

c     == asked.on
flags == asked.flags
key   == asked.key

Move(place, code) ==
  /\ at' = [at EXCEPT ![c] = place]
  /\ answer' = [code |-> code, count |-> 0]
  /\ asked' = Nothing
  /\ UNCHANGED buffer

Stay(code) == Move(at[c], code)

Placed == at[c] \in p.items \union {p.longs}

Open == Asked("init") /\ Move(0, OK)

(* Calls of one step.                                                       *)
Rewind(d) ==
  /\ asked = Nothing
  /\ at[d] # Unopened
  /\ at' = [at EXCEPT ![d] = 0]
  /\ answer' = [code |-> OK, count |-> 0]
  /\ UNCHANGED <<buffer, asked>>

Copy(src, dst) ==
  /\ asked = Nothing
  /\ at' = [at EXCEPT ![dst] = at[src]]
  /\ answer' = [code |-> OK, count |-> 0]
  /\ UNCHANGED <<buffer, asked>>

(* One entry ahead; tolerance passes over the types the parser does not     *)
(* know.  At the end of its nest the cursor stays with LAST (on the last    *)
(* entry it was tolerant of), at the end of the payload it leaves the items.*)
Step ==
  LET route == Route(at[c], flags)
      seen  == IF TOLERANT \in flags THEN KnownOf(route) ELSE route
      there == First(seen)
  IN /\ Asked("next") /\ Placed
     /\ \/ /\ seen # {}
           /\ Move(there, IF Known(p, there) THEN OK ELSE UNKNOWN_TYPE)
        \/ /\ seen = {}
           /\ IF at[c] = p.longs \/ RECURSE \in flags \/ OverDevices(at[c], flags)
              THEN Move(p.longs, BUFFER_END)
              ELSE Move(Final(route \union {at[c]}), LAST)
        \/ OverDevices(at[c], flags) /\ route # {} /\ Move(Lost, BAD)

(* The first entry ahead with the key, unless an unknown type that is not   *)
(* tolerated comes before it.                                               *)
FindNext ==
  LET route == Route(at[c], flags)
      hits  == KnownOf(Keyed(route, key))
      walls == IF TOLERANT \in flags THEN {} ELSE route \ KnownOf(route)
      clear == hits # {} /\ \A w \in walls : First(hits) < w
  IN /\ Asked("findnext") /\ Placed
     /\ \/ clear /\ Move(First(hits), OK)
        \/ ~clear /\ walls # {} /\ Stay(UNKNOWN_TYPE)
        \/ /\ ~clear /\ walls = {}
           /\ Stay(IF \/ at[c] = p.longs \/ RECURSE \in flags
                      \/ OverDevices(at[c], flags)
                   THEN BUFFER_END ELSE LAST)
        \/ OverDevices(at[c], flags) /\ route # {} /\ Stay(BAD)

(* The first entry with the key from the start of the nest up to here.  It  *)
(* is not the nearest one.                                                  *)
FindPrev ==
  LET behind == {j \in Siblings(at[c]) : j < at[c]}
      hits   == {j \in Keyed(behind, key) : Known(p, j) \/ j = First(behind)}
      walls  == IF TOLERANT \in flags THEN {}
                ELSE {j \in behind \ KnownOf(behind) : j # First(behind)}
      clear  == hits # {} /\ \A w \in walls : First(hits) < w
  IN /\ Asked("findprev") /\ Placed
     /\ IF at[c] = p.longs \/ p.lev[at[c]] = 0 THEN Stay(BUFFER_END)
        ELSE \/ clear /\ Move(First(hits), OK)
             \/ ~clear /\ Stay(FIND)
             \/ ~clear /\ RECURSE \in flags /\ Move(Lost, OK)

(* GPMF_parser.h:74: "find the last FourCC in the current level, this is    *)
(* raw data for any STRM".                                                  *)
SeekLast(from) == Move(Final(Siblings(from)), OK)

(* What the code looks for instead: the first entry later than from that is *)
(* a nest, is followed by its own key, or is the last of its nest and not   *)
(* reserved.  It never judges from itself: a STRM that holds its samples    *)
(* and nothing else, or a cursor already on them, is answered LAST.         *)
HoldsSamples(i) ==
  \/ IsNest(p, i)
  \/ EndOf(p, i) = EndOf(p, p.up[i])
  \/ KeyOf(p, i) = KeyOf(p, EndOf(p, i))

SeekAhead(from) ==
  LET good  == {j \in KnownOf(Route(from, {})) : HoldsSamples(j)}
      found == First(good)
  IN \/ /\ good # {}
        /\ IF ~IsNest(p, found) /\ EndOf(p, found) = EndOf(p, p.up[found])
              /\ KeyOf(p, found) \in Reserved
           THEN Stay(FIND) ELSE Move(found, OK)
     \/ good = {} /\ Stay(IF IsDevice(p, from) THEN BUFFER_END ELSE LAST)
     \/ IsDevice(p, from) /\ Route(from, {}) # {} /\ Stay(BAD)

(* From the first entry of the nest at the cursor, or from the cursor.      *)
Seek ==
  LET inside == KnownOf(Route(at[c], {RECURSE}))
      from   == IF IsNest(p, at[c]) THEN First(inside) ELSE at[c]
  IN /\ Asked("seek") /\ Placed
     /\ IF \/ at[c] = p.longs
           \/ IsNest(p, at[c]) /\ inside = {}
        THEN Stay(BUFFER_END)
        ELSE SeekLast(from) \/ SeekAhead(from)

(* How many entries with this key from here on, or the repeat of a single   *)
(* one.  On a DEVC the count stops at one the walk refuses.                 *)
Count ==
  LET i    == at[c]
      hits == KnownOf(Keyed(Route(i, {}), KeyOf(p, i)))
      desc == p.words[i + 1]
      rpt  == IF desc.type = COMPRESSED /\ i + 2 < p.longs
              THEN p.words[i + 2].rpt ELSE desc.rpt
      alone == IF rpt = 0 THEN 1 ELSE rpt
  IN /\ Asked("count") /\ i \in p.items
     /\ answer'.code = OK
     /\ \/ answer'.count = IF hits = {} THEN alone
                           ELSE Cardinality(hits) + 1
        \/ IsDevice(p, i) /\ answer'.count \in {alone} \union 2..Cardinality(hits)
     /\ asked' = Nothing
     /\ UNCHANGED <<buffer, at>>

Next ==
  \/ Ask
  \/ Open \/ Step \/ FindNext \/ FindPrev \/ Seek \/ Count
  \/ \E d \in Cursors : Rewind(d)
  \/ \E src, dst \in Cursors : src # dst /\ Copy(src, dst)

Spec == Init /\ [][Next]_avars
=============================================================================
