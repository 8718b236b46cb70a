----------------------------- MODULE GpmfOnKlv ------------------------------
(***************************************************************************)
(* What the books of a stream should say on a sound payload, in terms of   *)
(* the outline: the stream is on an entry, or at the end, nest_level is    *)
(* the level of the entry, nest_size what its nest holds from here on,     *)
(* last_level_pos the nests around it, and nest_size of the outer levels   *)
(* what follows those nests.  A stream that stands on a DEVC may still     *)
(* carry the remainder of the DEVC it stepped over.                        *)
(***************************************************************************)
EXTENDS GpmfCursor

(* Level l of the books, outside the nest that the stream is in.            *)
Outer(p, ms, l) ==
  LET u == ms.last_level_pos[l]
  IN /\ u \in p.items /\ ~IsDevice(p, u) /\ IsNest(p, u)
     /\ p.lev[u] = l
     /\ ms.nest_size[l] = EndOf(p, p.up[u]) - EndOf(p, u)
     /\ l > 0 => p.up[u] = ms.last_level_pos[l - 1]

InNest(p, ms) ==
  LET level == ms.nest_level
  IN /\ p.lev[ms.pos] = level
     /\ ms.nest_size[level] = EndOf(p, p.up[ms.pos]) - ms.pos
     /\ level > 0 => p.up[ms.pos] = ms.last_level_pos[level - 1]
     /\ \A l \in 0..(level - 1) : Outer(p, ms, l)

OnDevice(p, ms) ==
  /\ ms.nest_level = 0
  /\ ms.nest_size[0] = 0 \/ SizeAt(p.words, ms.pos) + 2 <= ms.nest_size[0]

OnKlv(p, ms) ==
  /\ ms.bound = p.longs
  /\ \/ ms.pos = p.longs /\ ms.nest_level = 0
     \/ ms.pos \in p.items /\ IF IsDevice(p, ms.pos) THEN OnDevice(p, ms)
                              ELSE InNest(p, ms)
=============================================================================
