---------------------------- MODULE GpmfValidate ----------------------------
(***************************************************************************)
(* GPMF_Validate, and the walk of GPMF_Next a program makes before and     *)
(* after it on the same stream.  The function calls itself on every nest,  *)
(* on the stream itself; its activations are the stack frames here, the    *)
(* innermost last, and a step is a turn of the innermost loop or a return. *)
(***************************************************************************)
EXTENDS GpmfCursor, FiniteSets, SequencesExt

CONSTANTS
  Payloads,     (* the payloads the program may be handed, by name          *)
  MaxDevices    (* a bound on device_count, which only a rewind resets      *)

ASSUME PayloadAssumption == \A b \in DOMAIN Payloads : PayloadShape(Payloads[b])

VARIABLES
  buffer,        (* the name of the payload                                 *)
  ms,            (* the stream, less its device_count                       *)
  device_count,
  lost,          (* GPMF_Next or GPMF_Validate left it at a bad structure   *)
  flags,         (* of the running GPMF_Validate                            *)
  frames,        (* its activations; none runs when it is empty             *)
  before,        (* the stream and the count when it was called             *)
  answer,        (* what the last call returned                             *)
  vetted,        (* a recursive validation from the start has accepted      *)
  deep           (* all walks since the stream was at the start: recursive  *)

vars == <<buffer, ms, device_count, lost, flags, frames, before, answer, vetted, deep>>

payload == Payloads[buffer]

words == payload.words

(* An activation: its currpos, what is left of nestsize, its ret, and the   *)
(* size of the nest it has an inner activation for.                         *)
Frame == [from: Nat, left: Nat, ret: {OK, UNKNOWN_TYPE}, inner: Nat]

Answer == [by: {"reset", "validate", "next"}, code: Codes]

Top == frames[Len(frames)]

Nowhere == [ms |-> Blank, devices |-> 0]

(* Where the chain of DEVCs at the start of the buffer ends: the words that *)
(* GPMF_Init opens a stream on.                                             *)
ChainEnd ==
  LET end[i \in Nat] == IF i + 1 < payload.longs /\ words[i].key = DEVC
                        THEN end[i + 2 + SizeAt(words, i)] ELSE i
  IN end[0]

(* The stream is one that GPMF_Init has just opened.                        *)
Init ==
  /\ buffer \in DOMAIN Payloads
  /\ words[0].key = DEVC /\ ChainEnd \in 1..payload.longs
  /\ ms = Opened(ChainEnd)
  /\ device_count = 0
  /\ lost = FALSE
  /\ flags = {}
  /\ frames = << >>
  /\ before = Nowhere
  /\ answer = [by |-> "reset", code |-> OK]
  /\ vetted = FALSE
  /\ deep = TRUE

-----------------------------------------------------------------------------
Fresh(s) == s.pos = 0 /\ s.nest_level = 0 /\ s.nest_size[0] = 0

NewFrame(s) ==
  [from |-> s.pos, ret |-> OK, inner |-> 0,
   left |-> IF Remaining(s) = 0 /\ s.nest_level = 0 THEN s.bound ELSE Remaining(s)]

StartValidate(how) ==
  /\ frames = << >> /\ ~lost
  /\ device_count < MaxDevices
  /\ flags' = how
  /\ before' = [ms |-> ms, devices |-> device_count]
  /\ frames' = <<NewFrame(ms)>>
  /\ UNCHANGED <<buffer, ms, device_count, lost, answer, vetted, deep>>

key  == words[ms.pos].key
desc == words[ms.pos + 1]
size == DataLongs(desc)

InLoop == frames # << >> /\ ms.pos + 1 < ms.bound /\ Top.left > 0

NoDevice == ms.nest_level = 0 /\ key # DEVC /\ device_count = 0 /\ ms.pos = 0

AtEntry == InLoop /\ ~NoDevice /\ key \in FourCC

(* Mutant: an entry of structures of no size is let through.                *)
FaultyLax == size + 2 > Top.left

(* Mutant: the size is not held against the nest.                           *)
FaultyFree == desc.ssize = 0

Faulty == desc.ssize = 0 \/ size + 2 > Top.left

Descends == desc.type = NEST /\ flags = {RECURSE}

(* Every activation on the way out gives its level back and returns the     *)
(* error; the place is kept.                                                *)
Refuse(inner) ==
  /\ ms' = [inner EXCEPT !.nest_level = @ - (Len(frames) - 1)]
  /\ frames' = << >>
  /\ lost' = TRUE
  /\ answer' = [by |-> "validate", code |-> BAD]
  /\ flags' = {} /\ before' = Nowhere
  /\ UNCHANGED <<buffer, device_count, vetted, deep>>

Foreign == key \notin FourCC \union {END}

(* NoDevice is of a stream GPMF_Init has not opened.                        *)
Misplaced ==
  \/ NoDevice
  \/ key \in FourCC /\ Faulty
  \/ Foreign /\ ~(ms.nest_level = 0 /\ device_count > 0)

RefuseEntry == InLoop /\ Misplaced /\ Refuse(ms)

RefuseDepth ==
  /\ AtEntry /\ ~Faulty /\ Descends
  /\ ms.nest_level = NestLimit
  /\ Refuse([ms EXCEPT !.pos = @ + 2, !.nest_level = @ + 1])

Noted == IF KnownType(desc.type) THEN Top.ret ELSE UNKNOWN_TYPE

StepOverEntry ==
  /\ AtEntry /\ ~Faulty /\ ~Descends
  /\ ms' = [ms EXCEPT !.pos = @ + 2 + size]
  /\ frames' = [frames EXCEPT ![Len(frames)] = [Top EXCEPT !.left = @ - (2 + size), !.ret = Noted]]
  /\ UNCHANGED <<buffer, device_count, lost, flags, before, answer, vetted, deep>>

EnterNest ==
  /\ AtEntry /\ ~Faulty /\ Descends
  /\ ms.nest_level < NestLimit
  /\ LET inside == [ms EXCEPT !.pos = @ + 2, !.nest_level = @ + 1,
                              !.nest_size[ms.nest_level + 1] = size]
     IN /\ ms' = inside
        /\ frames' = Append([frames EXCEPT ![Len(frames)].inner = size], NewFrame(inside))
  /\ UNCHANGED <<buffer, device_count, lost, flags, before, answer, vetted, deep>>

SkipEnds ==
  /\ InLoop /\ ~NoDevice
  /\ key = END
  /\ LET k == PaddingAt(words, ms.pos, Top.left, ms.bound)
     IN /\ ms' = [ms EXCEPT !.pos = @ + k]
        /\ frames' = [frames EXCEPT ![Len(frames)].left = @ - k]
  /\ UNCHANGED <<buffer, device_count, lost, flags, before, answer, vetted, deep>>

(* The loop is over, or foreign words follow the devices: the activation    *)
(* puts pos back to where it began.                                         *)
Over ==
  /\ frames # << >>
  /\ InLoop => Foreign /\ ~Misplaced

Accept ==
  /\ Over /\ Len(frames) = 1
  /\ ms' = [ms EXCEPT !.pos = Top.from]
  /\ frames' = << >>
  /\ answer' = [by |-> "validate", code |-> Top.ret]
  /\ vetted' = (vetted \/ (Fresh(before.ms) /\ flags = {RECURSE}))
  /\ flags' = {} /\ before' = Nowhere
  /\ UNCHANGED <<buffer, device_count, lost, deep>>

(* The outer activation goes on behind the nest and the padding after it.   *)
Resumed(outer, level, behind) ==
  LET left == outer.left - (2 + outer.inner)
      k    == PaddingAt(words, behind, left, ms.bound)
  IN /\ ms' = [ms EXCEPT !.pos = behind + k, !.nest_level = level]
     /\ frames' = [Front(frames) EXCEPT ![Len(frames) - 1] =
                     [outer EXCEPT !.left = left - k,
                                   !.ret = IF Top.ret = UNKNOWN_TYPE THEN Top.ret ELSE @]]
     /\ device_count' = IF level = 0 THEN device_count + 1 ELSE device_count
     /\ UNCHANGED <<buffer, lost, flags, before, answer, vetted, deep>>

(* Mutant: the level of the nest is kept.                                   *)
ReturnDeep ==
  /\ Over /\ Len(frames) > 1
  /\ LET outer == frames[Len(frames) - 1]
     IN Resumed(outer, ms.nest_level, Top.from + outer.inner)

Return ==
  /\ Over /\ Len(frames) > 1
  /\ LET outer == frames[Len(frames) - 1]
     IN Resumed(outer, ms.nest_level - 1, Top.from + outer.inner)

-----------------------------------------------------------------------------
(* The walk: GPMF_Next without tolerance, and GPMF_ResetState.              *)

Walk(how) ==
  /\ frames = << >> /\ ~lost
  /\ \E r \in GPMF_Next(words, ms, how) :
       /\ ms' = r.ms
       /\ lost' = (r.ret = BAD)
       /\ answer' = [by |-> "next", code |-> r.ret]
  /\ deep' = (deep /\ how = {RECURSE})
  /\ UNCHANGED <<buffer, device_count, flags, frames, before, vetted>>

ResetState ==
  /\ frames = << >>
  /\ ms' = Rewound(ms)
  /\ device_count' = 0
  /\ lost' = FALSE
  /\ answer' = [by |-> "reset", code |-> OK]
  /\ deep' = TRUE
  /\ UNCHANGED <<buffer, flags, frames, before, vetted>>

Next ==
  \/ \E how \in Flags : StartValidate(how)
  \/ RefuseEntry \/ RefuseDepth
  \/ StepOverEntry \/ EnterNest \/ SkipEnds \/ Accept \/ Return
  \/ \E how \in {{}, {RECURSE}} : Walk(how)
  \/ ResetState

Spec == Init /\ [][Next]_vars

-----------------------------------------------------------------------------
(* What every variable holds.  That left is a natural number says that      *)
(* nestsize, unsigned in the code, is never taken below zero.               *)
TypeOK ==
  /\ buffer \in DOMAIN Payloads
  /\ ms \in Stream /\ before \in [ms: Stream, devices: Nat]
  /\ device_count \in Nat
  /\ lost \in BOOLEAN /\ vetted \in BOOLEAN /\ deep \in BOOLEAN
  /\ flags \in Flags
  /\ frames \in Seq(Frame)
  /\ answer \in Answer

Validated == frames # << >> /\ frames' = << >>

(* Sound, but for GPMF_KEY_END padding between and behind entries.          *)
SoundOrPadded(p) ==
  /\ WholeEntries(p) /\ DeviceChain(p) /\ LevelsCount(p) /\ Laminar(p)
  /\ \A i \in p.items : IsNest(p, i) =>
       LET inside == {k \in p.items \ {i} : p.up[k] = i}
           covered == UNION {k..(EndOf(p, k) - 1) : k \in inside}
           body == (i + 2)..(EndOf(p, i) - 1)
       IN /\ covered \subseteq body /\ \A w \in body \ covered : p.words[w].key = END
          /\ \A j, k \in inside : j < k => EndOf(p, j) <= k

(* A payload as a writer produces it is accepted, and the verdict and the   *)
(* count of devices are right: UNKNOWN_TYPE exactly when an entry the       *)
(* validation visits has a type the parser does not know.                   *)
VerdictOnSound ==
  [][ Validated /\ Fresh(before.ms) /\ SoundOrPadded(payload) =>
        LET odd     == {i \in payload.items : ~Known(payload, i)}
            devices == {i \in payload.items : IsDevice(payload, i)}
        IN IF flags = {RECURSE}
           THEN /\ answer'.code = IF odd = {} THEN OK ELSE UNKNOWN_TYPE
                /\ device_count' = before.devices + Cardinality(devices)
           ELSE answer'.code = OK /\ device_count' = before.devices ]_vars

(* A stream that passes is as it was: the next GPMF_Next goes on from the   *)
(* place the call was made, with the books of that place.  Only sizes of    *)
(* levels not open are overwritten.                                         *)
StreamKept ==
  [][ Validated /\ answer'.code # BAD =>
        /\ [ms' EXCEPT !.nest_size = before.ms.nest_size] = before.ms
        /\ \A l \in 0..ms'.nest_level : ms'.nest_size[l] = before.ms.nest_size[l] ]_vars

(* A nest below the level of a DEVC that ends in padding behind an inner    *)
(* nest: GPMF_Next leaves the levels that are used up before it skips the   *)
(* padding, not after it, and measures what follows against a nest of no    *)
(* size.                                                                    *)
PaddedOut ==
  /\ ms.nest_level > 0 /\ Remaining(ms) = 0
  /\ ms.pos > 0 /\ words[ms.pos - 1].key = END

(* What validation accepts can be walked: a recursive walk from the start   *)
(* of a payload that was accepted recursively meets a bad structure nowhere *)
(* else.                                                                    *)
WalksOn == vetted /\ deep /\ answer = [by |-> "next", code |-> BAD] => PaddedOut

(* Validation has no eye for DEVC: only GPMF_Next treats it as a nest that  *)
(* starts level 0 again.  So the DEVCs have to be a row of nests.           *)
VettedWalks == WholeDevices(words, ms.bound) => WalksOn
=============================================================================
