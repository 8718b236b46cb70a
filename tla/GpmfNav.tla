------------------------------ MODULE GpmfNav -------------------------------
(***************************************************************************)
(* The navigation calls of GPMF_parser.c on a set of GPMF_stream cursors   *)
(* over one payload, made one after the other by the single thread that    *)
(* uses the library: GPMF_Init, GPMF_ResetState, GPMF_CopyState, GPMF_Next,*)
(* GPMF_FindNext, GPMF_FindPrev, GPMF_SeekToSamples and                    *)
(* GPMF_PayloadSampleCount.                                                *)
(*                                                                         *)
(* A call is a sequence of steps, one per pass of GPMF_Next or turn of a   *)
(* loop.  While it runs, call.ms is the stream it works on and cur keeps   *)
(* the caller's stream as it was at the call: that is prevstate, which the *)
(* finders copy back when they fail.                                       *)
(*                                                                         *)
(* A cursor is raw until GPMF_Init succeeds on it, and again once a search *)
(* backwards has overrun its books.  It is spent when GPMF_Next reported a *)
(* bad structure, which leaves it where the damage was found, or when      *)
(* GPMF_FindPrev climbed out of the nest it is in: callers then rewind it  *)
(* or throw the copy away before they walk on.                             *)
(***************************************************************************)
EXTENDS GpmfOnKlv

CONSTANTS
  Payloads,   (* the payloads the program may be handed, by name            *)
  Cursors,    (* the streams of the program                                 *)
  FindKeys    (* the keys its finders look for                              *)

ASSUME PayloadAssumption == \A b \in DOMAIN Payloads : PayloadShape(Payloads[b])

ASSUME CursorsAssumption == Cursors # {}

ASSUME FindKeysAssumption == FindKeys \subseteq FourCC

VARIABLES
  buffer,     (* the name of the payload in use; no call here writes it     *)
  cur,        (* the stream of each cursor, as of its last finished call    *)
  life,       (* raw, live or spent                                         *)
  call,       (* the running call                                           *)
  answer      (* what the last finished call returned                       *)

vars == <<buffer, cur, life, call, answer>>

payload == Payloads[buffer]

words == payload.words

Call ==
  [op: Ops \union {"none"}, on: Cursors, key: FourCC \union {END, JUNK}, flags: Flags,
   phase: {"start", "open", "scan", "tail"}, ms: Stream, level: Nat, mark: Nat,
   count: Nat, turn: 0..1]

Idle ==
  [op |-> "none", on |-> CHOOSE c \in Cursors : TRUE, key |-> DEVC,
   flags |-> {}, phase |-> "start", ms |-> Blank, level |-> 0, mark |-> 0,
   count |-> 0, turn |-> 0]

Answer == [code: Codes, count: Nat]

Init ==
  /\ buffer \in DOMAIN Payloads
  /\ cur = [c \in Cursors |-> Blank]
  /\ life = [c \in Cursors |-> "raw"]
  /\ call = Idle
  /\ answer = [code |-> OK, count |-> 0]

-----------------------------------------------------------------------------
(* How a call starts, goes on and ends.                                     *)

Running(op) == call.op = op

Begin(op, c, key, flags, ms, level) ==
  /\ Running("none")
  /\ call' = [Idle EXCEPT !.op = op, !.on = c, !.key = key, !.flags = flags,
                          !.ms = ms, !.level = level]
  /\ UNCHANGED <<buffer, cur, life, answer>>

(* The turn of the loop: one that changes nothing else is still a step, and *)
(* a call that takes it forever is seen not to end.                         *)
GoOn(next) ==
  /\ call' = [next EXCEPT !.turn = 1 - @]
  /\ UNCHANGED <<buffer, cur, life, answer>>

Finish(code, ms, state) ==
  /\ cur' = [cur EXCEPT ![call.on] = ms]
  /\ life' = [life EXCEPT ![call.on] = state]
  /\ answer' = [code |-> code, count |-> 0]
  /\ call' = Idle
  /\ UNCHANGED buffer

(* Mutants: the failed finder leaves the stream where the search ended, or  *)
(* puts only the place back.                                                *)
RestoreNothing(code) == Finish(code, call.ms, "live")

RestorePlace(code) ==
  Finish(code, [cur[call.on] EXCEPT !.device_id = call.ms.device_id,
                                    !.device_name = call.ms.device_name], "live")

(* A failed finder copies prevstate back.                                   *)
Restore(code) == Finish(code, cur[call.on], "live")

AtEnd(ms) == ms.pos >= ms.bound

-----------------------------------------------------------------------------
(* GPMF_Init walks the DEVC chain (call.mark is its local pos) and keeps    *)
(* the part of the buffer the chain covers.                                 *)

StartInit(c) == Begin("init", c, DEVC, {}, Blank, 0)

ChainGoesOn == call.mark + 1 < payload.longs /\ words[call.mark].key = DEVC

InitHop ==
  /\ Running("init")
  /\ ChainGoesOn
  /\ GoOn([call EXCEPT !.mark = @ + 2 + SizeAt(words, call.mark)])

(* Mutant: a chain cut short by the end of the buffer is taken as whole.    *)
InitEndTrusting ==
  /\ Running("init")
  /\ ~ChainGoesOn
  /\ IF 0 < call.mark THEN Finish(OK, Opened(call.mark), "live")
     ELSE Finish(BAD, Blank, "raw")

InitEnd ==
  /\ Running("init")
  /\ ~ChainGoesOn
  /\ IF 0 < call.mark /\ call.mark <= payload.longs
     THEN Finish(OK, Opened(call.mark), "live")
     ELSE Finish(BAD, Blank, "raw")

-----------------------------------------------------------------------------
ResetState(c) ==
  /\ Running("none")
  /\ life[c] # "raw"
  /\ cur' = [cur EXCEPT ![c] = Rewound(cur[c])]
  /\ life' = [life EXCEPT ![c] = "live"]
  /\ answer' = [code |-> OK, count |-> 0]
  /\ UNCHANGED <<buffer, call>>

CopyState(src, dst) ==
  /\ Running("none")
  /\ cur' = [cur EXCEPT ![dst] = cur[src]]
  /\ life' = [life EXCEPT ![dst] = life[src]]
  /\ answer' = [code |-> OK, count |-> 0]
  /\ UNCHANGED <<buffer, call>>

-----------------------------------------------------------------------------
(* GPMF_Next.                                                               *)

StartNext(c, flags) ==
  /\ life[c] = "live"
  /\ Begin("next", c, DEVC, flags, cur[c], 0)

NextPass ==
  /\ Running("next")
  /\ \E r \in GPMF_Next(words, call.ms, call.flags) :
       IF r.ret = AGAIN THEN GoOn([call EXCEPT !.ms = r.ms])
       ELSE Finish(r.ret, r.ms, IF r.ret = BAD THEN "spent" ELSE "live")

-----------------------------------------------------------------------------
(* GPMF_FindNext: passes until the key is met or one fails.                 *)

StartFindNext(c, key, flags) ==
  /\ life[c] = "live"
  /\ Begin("findnext", c, key, flags, cur[c], 0)

(* Whether the entry reached has the key.  SkipLevel may have ended past    *)
(* the buffer, where any key can be read.                                   *)
Found(r, key) ==
  IF r.ret # OK THEN {FALSE}
  ELSE IF r.ms.pos \in DOMAIN words THEN {words[r.ms.pos].key = key}
  ELSE BOOLEAN

(* The code tests for the end before its loop only; a pass of GPMF_Next in  *)
(* the loop answers the same.                                               *)
FindNextAtEnd ==
  /\ Running("findnext")
  /\ AtEnd(call.ms)
  /\ Restore(BUFFER_END)

FindNextPass ==
  /\ Running("findnext")
  /\ ~AtEnd(call.ms)
  /\ \E r \in GPMF_Next(words, call.ms, call.flags) : \E found \in Found(r, call.key) :
       IF found THEN Finish(OK, r.ms, "live")
       ELSE IF r.ret \in {OK, AGAIN} THEN GoOn([call EXCEPT !.ms = r.ms])
       ELSE Restore(r.ret)

-----------------------------------------------------------------------------
(* GPMF_FindPrev.  call.level is curr_level and call.mark is                *)
(* last_seek[curr_level]; nest_level of the stream does not follow          *)
(* curr_level out of the nest.                                              *)

StartFindPrev(c, key, flags) ==
  /\ life[c] = "live"
  /\ Begin("findprev", c, key, flags, cur[c], cur[c].nest_level)

NothingBehind == AtEnd(call.ms) \/ call.level = 0

FindPrevRefuse ==
  /\ Running("findprev")
  /\ call.phase = "start"
  /\ NothingBehind
  /\ Restore(BUFFER_END)

Rewinds ==
  \/ call.phase = "start" /\ ~NothingBehind
  \/ call.phase = "open"

(* At level NestLimit last_seek[curr_level] is nest_level, and the passes   *)
(* that follow take their books from wherever a position points to: what    *)
(* the code does is undefined.  The model follows it no further than the    *)
(* answer, which may be either, and says nothing of the stream after it.    *)
FindPrevOverrun ==
  /\ Running("findprev")
  /\ Rewinds
  /\ call.level = NestLimit
  /\ \E code \in {OK, FIND} : Finish(code, Blank, "raw")

(* To the first entry of the nest at curr_level.                            *)
FindPrevRewind ==
  /\ Running("findprev")
  /\ Rewinds
  /\ call.level < NestLimit
  /\ LET ms    == call.ms
         first == ms.last_level_pos[call.level - 1] + 2
     IN GoOn([call EXCEPT
                !.phase = "scan",
                !.mark = ms.pos,
                !.ms = [ms EXCEPT !.pos = first,
                                  !.nest_size[call.level] =
                                    (@ + ms.pos - first) % Modulus]])

(* Mutant: the entry the search started from counts as one before it.       *)
BehindOrAt == call.mark >= call.ms.pos

Behind == call.mark > call.ms.pos

FindPrevFound ==
  /\ Running("findprev")
  /\ call.phase = "scan"
  /\ Behind
  /\ words[call.ms.pos].key = call.key
  /\ Finish(OK, call.ms,
            IF call.level = call.ms.nest_level THEN "live" ELSE "spent")

(* The nest is searched: on to the one around it, or give up.               *)
LeaveNest(ms) ==
  IF RECURSE \in call.flags /\ call.level > 1
  THEN GoOn([call EXCEPT !.phase = "open", !.level = @ - 1, !.ms = ms])
  ELSE Restore(FIND)

FindPrevExhausted ==
  /\ Running("findprev")
  /\ call.phase = "scan"
  /\ ~Behind
  /\ LeaveNest(call.ms)

(* The tail call of a tolerant pass is made before the key is looked at.    *)
FindPrevPass ==
  /\ Running("findprev")
  /\ \/ call.phase = "tail"
     \/ call.phase = "scan" /\ Behind /\ words[call.ms.pos].key # call.key
  /\ \E r \in GPMF_Next(words, call.ms, call.flags \ {RECURSE}) :
       CASE r.ret = OK    -> GoOn([call EXCEPT !.phase = "scan", !.ms = r.ms])
         [] r.ret = AGAIN -> GoOn([call EXCEPT !.phase = "tail", !.ms = r.ms])
         [] OTHER         -> LeaveNest(r.ms)

-----------------------------------------------------------------------------
(* GPMF_SeekToSamples: into the nest at the cursor, if there is one, then   *)
(* along its entries to the one that holds samples.                         *)

StartSeek(c) ==
  /\ life[c] = "live"
  /\ Begin("seek", c, DEVC, {}, cur[c], 0)

SeekStart ==
  /\ Running("seek")
  /\ call.phase = "start"
  /\ IF call.ms.pos + 1 >= call.ms.bound THEN Restore(BUFFER_END)
     ELSE GoOn([call EXCEPT
                  !.phase = IF words[call.ms.pos + 1].type = NEST
                            THEN "open" ELSE "scan"])

SeekOpen ==
  /\ Running("seek")
  /\ call.phase = "open"
  /\ \E r \in GPMF_Next(words, call.ms, {RECURSE, TOLERANT}) :
       CASE r.ret = OK    -> GoOn([call EXCEPT !.phase = "scan", !.ms = r.ms])
         [] r.ret = AGAIN -> GoOn([call EXCEPT !.ms = r.ms])
         [] OTHER         -> Restore(r.ret)

(* What the scan makes of the entry it stands on: go on, or answer.         *)
Judge(ms) ==
  LET size  == SizeAt(words, ms.pos)
      after == ms.pos + size + 2
  IN IF ms.pos + 1 >= ms.bound \/ ~IsValidSize(ms, size) THEN BAD
     ELSE IF words[ms.pos + 1].type = NEST THEN OK
     ELSE IF size + 2 = Remaining(ms)
          THEN IF words[ms.pos].key \in Reserved THEN FIND ELSE OK
     ELSE IF after >= ms.bound THEN BAD
     ELSE IF words[ms.pos].key = words[after].key THEN OK
     ELSE AGAIN

SeekPass ==
  /\ Running("seek")
  /\ call.phase = "scan"
  /\ \E r \in GPMF_Next(words, call.ms, {TOLERANT}) :
       LET verdict == IF r.ret = OK THEN Judge(r.ms) ELSE r.ret
       IN CASE verdict = OK    -> Finish(OK, r.ms, "live")
            [] verdict = AGAIN -> GoOn([call EXCEPT !.ms = r.ms])
            [] OTHER           -> Restore(verdict)

-----------------------------------------------------------------------------
(* GPMF_PayloadSampleCount counts on a copy of the stream; callers ask only *)
(* for the entry they stand on.                                             *)

StartCount(c) ==
  /\ life[c] = "live"
  /\ ~AtEnd(cur[c])
  /\ Begin("count", c, words[cur[c].pos].key, {TOLERANT}, cur[c], 0)

Repeat(ms) ==
  IF ms.pos + 1 >= ms.bound THEN 0
  ELSE IF words[ms.pos + 1].type = COMPRESSED /\ ms.pos + 2 < ms.bound
       THEN words[ms.pos + 2].rpt
  ELSE words[ms.pos + 1].rpt

CountOf(ms) ==
  IF call.count > 0 THEN call.count ELSE IF Repeat(ms) = 0 THEN 1 ELSE Repeat(ms)

CountPass ==
  /\ Running("count")
  /\ \E r \in GPMF_Next(words, call.ms, call.flags) : \E found \in Found(r, call.key) :
       IF found
       THEN GoOn([call EXCEPT !.ms = r.ms,
                              !.count = IF @ = 0 THEN 2 ELSE @ + 1])
       ELSE IF r.ret \in {OK, AGAIN} THEN GoOn([call EXCEPT !.ms = r.ms])
       ELSE /\ answer' = [code |-> OK, count |-> CountOf(cur[call.on])]
            /\ call' = Idle
            /\ UNCHANGED <<buffer, cur, life>>

-----------------------------------------------------------------------------
(* The program may make any call when none runs; a call runs to its end.    *)

Start ==
  \E c \in Cursors :
    \/ StartInit(c)
    \/ ResetState(c)
    \/ \E d \in Cursors \ {c} : CopyState(c, d)
    \/ StartSeek(c)
    \/ StartCount(c)
    \/ \E flags \in Flags :
         \/ StartNext(c, flags)
         \/ \E key \in FindKeys :
              StartFindNext(c, key, flags) \/ StartFindPrev(c, key, flags)

Step ==
  \/ InitHop
  \/ InitEnd
  \/ NextPass
  \/ FindNextAtEnd
  \/ FindNextPass
  \/ FindPrevRefuse
  \/ FindPrevOverrun
  \/ FindPrevRewind
  \/ FindPrevFound
  \/ FindPrevExhausted
  \/ FindPrevPass
  \/ SeekStart
  \/ SeekOpen
  \/ SeekPass
  \/ CountPass

Next == Start \/ Step

Spec == Init /\ [][Next]_vars

(* The thread in a call keeps executing it: weak fairness of Step, which is *)
(* enabled exactly while a call runs (else the deadlock check fails), with  *)
(* ENABLED written out so that TLC need not evaluate it.  No step leaves    *)
(* every variable as it was: call.turn changes.                             *)
FairSpec == Spec /\ ([]<>Running("none") \/ []<><<Step>>_vars)

-----------------------------------------------------------------------------
(* What every variable holds.  That nest_size is a natural number says that *)
(* no subtraction of GPMF_Next goes below zero in its unsigned arithmetic.  *)
TypeOK ==
  /\ buffer \in DOMAIN Payloads
  /\ cur \in [Cursors -> Stream]
  /\ life \in [Cursors -> {"raw", "live", "spent"}]
  /\ call \in Call
  /\ answer \in Answer

(* A live cursor on a sound payload is on an entry, or at the end, and its  *)
(* books are those of that place.  Everything the calls answer on a sound   *)
(* payload rests on this.                                                   *)
CursorOnKlv ==
  Sound(payload) => \A c \in Cursors : life[c] = "live" => OnKlv(payload, cur[c])

(* On any payload a stream is bounded by the payload, and as long as its    *)
(* DEVCs are whole, whatever is damaged inside them, a live cursor is not   *)
(* past its bound.  A DEVC inside another is beyond this: it starts         *)
(* nest_size[0] afresh, and what follows it is then measured against the    *)
(* whole stream, so stepping over it may end anywhere.  The passes after    *)
(* that answer BUFFER_END.                                                  *)
CursorInBuffer ==
  \A c \in Cursors : life[c] = "live" =>
    /\ cur[c].bound <= payload.longs
    /\ WholeDevices(words, cur[c].bound) => cur[c].pos <= cur[c].bound

(***************************************************************************)
(* The device a cursor names is the one it is in: inside a DEVC and past   *)
(* its DVID (DVNM), device_id (device_name) holds what that entry says.    *)
(* The stream notes both when it walks over them, keeps them through       *)
(* failed searches that may have walked into other devices, and hands them *)
(* to every copy.                                                          *)
(***************************************************************************)
DeviceAround(p, i) == CHOOSE d \in p.items :
  /\ IsDevice(p, d) /\ d <= i
  /\ \A e \in p.items : IsDevice(p, e) /\ e <= i => e <= d

Passed(p, key, i) ==
  {j \in p.items : /\ p.up[j] = DeviceAround(p, i) /\ j # p.up[j] /\ j <= i
                   /\ KeyOf(p, j) = key /\ Known(p, j)}

Latest(S) == CHOOSE j \in S : \A k \in S : k <= j

(* An entry names a device only as part of it: DVID and DVNM are direct    *)
(* entries of a DEVC, and the DVID has its number.  A DVID deeper in the   *)
(* device would overwrite device_id too, and for one without data the code *)
(* takes the first word of the entry behind it.                            *)
NamesItself(p) == \A i \in p.items :
  /\ KeyOf(p, i) \in {DVID, DVNM} => IsDevice(p, p.up[i])
  /\ KeyOf(p, i) = DVID => SizeAt(p.words, i) # 0

DeviceNamed ==
  Sound(payload) /\ NamesItself(payload) => \A c \in Cursors :
    LET ms == cur[c]
        ids == Passed(payload, DVID, ms.pos)
        names == Passed(payload, DVNM, ms.pos)
    IN life[c] = "live" /\ ms.pos \in payload.items =>
         /\ ids # {} => ms.device_id = words[Latest(ids) + 2]
         /\ names # {} => ms.device_name = NameAt(words, Latest(names))

(***************************************************************************)
(* On a sound payload the calls do what KlvCursor promises: the position   *)
(* of a cursor is its place in the forest, and the passes and loops of a   *)
(* call show only in its end.                                              *)
(***************************************************************************)
Place(c) ==
  CASE life[c] = "raw"   -> 0 - 1
    [] life[c] = "spent" -> 0 - 2
    [] life[c] = "live"  -> cur[c].pos

Promise == INSTANCE KlvCursor WITH
  at    <- [c \in Cursors |-> Place(c)],
  asked <- [op |-> call.op, on |-> call.on, key |-> call.key, flags |-> call.flags]

KeepsPromise == Promise!Spec

(* Every call ends.                                                         *)
CallsEnd == ~Running("none") ~> Running("none")
=============================================================================
