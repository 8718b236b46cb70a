---------------------------- MODULE GpmfNavProofs ----------------------------
(***************************************************************************)
(* TypeOK for every set of payloads, damaged ones too, every number of     *)
(* cursors and every nest limit.  The type of a stream is preserved by a   *)
(* pass only if the pass reads inside the payload and nest_level has a     *)
(* slot, so the invariant says that too, of the cursors that may be walked *)
(* on and of the stream of the running call.  CursorOnKlv, CursorInBuffer  *)
(* and DeviceNamed each have an invariant of their own on top of it.       *)
(***************************************************************************)
EXTENDS GpmfNav, GpmfKlvProofs

Fits(ms) == ms.bound <= payload.longs

CursorsFit ==
  \A c \in Cursors :
    /\ Fits(cur[c])
    /\ life[c] = "live" => Usable(cur[c])

CallFits ==
  /\ Usable(call.ms) /\ Fits(call.ms)
  /\ call.level \in Levels
  /\ call.op \notin {"none", "init"} => life[call.on] = "live"
  /\ call.op = "findprev" /\ call.phase # "start" => call.level > 0

TypeInv == TypeOK /\ CursorsFit /\ CallFits

-----------------------------------------------------------------------------
LEMMA PayloadReads ==
  ASSUME TypeOK
  PROVE  payload.longs \in Nat /\ words \in [0..(payload.longs - 1) -> Word]
BY PayloadAssumption DEF TypeOK, payload, words, PayloadShape

LEMMA IdleCall == Idle \in Call /\ Idle.ms = Blank /\ Idle.level = 0 /\ Idle.op = "none"
<1>1. (CHOOSE c \in Cursors : TRUE) \in Cursors
  BY CursorsAssumption
<1>2. Blank \in Stream
  BY BlankUsable DEF Usable
<1>3. DEVC \in FourCC
  BY KeyAssumption
<1>4. {} \in Flags
  BY DEF Flags
<1> QED
  BY <1>1, <1>2, <1>3, <1>4 DEF Idle, Call

THEOREM InitTyped == Init => TypeInv
<1> SUFFICES ASSUME Init PROVE TypeInv
  OBVIOUS
<1>1. Blank \in Stream /\ Usable(Blank) /\ Blank.bound = 0
  BY BlankUsable DEF Usable
<1>2. TypeOK
  BY <1>1, IdleCall DEF Init, TypeOK, Answer, Codes
<1>3. payload.longs \in Nat
  BY <1>2, PayloadReads
<1>4. CursorsFit
  BY <1>1, <1>3 DEF Init, CursorsFit, Fits
<1>5. CallFits
  BY <1>1, <1>3, IdleCall, LimitAssumption DEF Init, CallFits, Fits, Levels
<1> QED
  BY <1>2, <1>4, <1>5 DEF TypeInv

-----------------------------------------------------------------------------
(* The four ways a step ends.                                               *)
LEMMA BeginTyped ==
  ASSUME TypeInv, NEW op \in Ops, NEW c \in Cursors,
         NEW key \in FourCC \union {END, JUNK}, NEW flags \in Flags,
         NEW ms, Usable(ms), Fits(ms), NEW level \in Levels,
         op = "init" \/ life[c] = "live",
         Begin(op, c, key, flags, ms, level)
  PROVE  TypeInv'
<1>1. level \in Nat
  BY LimitAssumption DEF Levels, Slots
<1>2. call' = [Idle EXCEPT !.op = op, !.on = c, !.key = key, !.flags = flags,
                           !.ms = ms, !.level = level]
  BY DEF Begin
<1>3. call' \in Call
  BY <1>1, <1>2, IdleCall, Zenon DEF Call, Usable
<1>4. /\ call'.op = op /\ call'.on = c /\ call'.ms = ms /\ call'.level = level
      /\ call'.phase = "start"
  BY <1>2, IdleCall DEF Call, Idle
<1>5. UNCHANGED <<buffer, cur, life, answer>>
  BY DEF Begin
<1>6. TypeOK' /\ CursorsFit'
  BY <1>3, <1>5 DEF TypeInv, TypeOK, CursorsFit, Fits, payload
<1>7. CallFits'
  BY <1>4, <1>5 DEF CallFits, Fits, payload
<1> QED
  BY <1>6, <1>7 DEF TypeInv

LEMMA GoOnTyped ==
  ASSUME TypeInv, NEW next \in Call, Usable(next.ms), Fits(next.ms),
         next.level \in Levels, next.op = call.op, next.on = call.on,
         next.op = "findprev" /\ next.phase # "start" => next.level > 0,
         GoOn(next)
  PROVE  TypeInv'
<1> DEFINE turned == [next EXCEPT !.turn = 1 - next.turn]
<1>1. call' = turned /\ UNCHANGED <<buffer, cur, life, answer>>
  BY DEF GoOn
<1>4. next.turn \in 0..1
  BY DEF Call
<1>5. 1 - next.turn \in 0..1
  BY <1>4
<1>6. turned \in Call
  BY <1>5, Zenon DEF Call
<1>7. /\ turned.ms = next.ms /\ turned.level = next.level /\ turned.op = next.op
      /\ turned.on = next.on /\ turned.phase = next.phase
  BY DEF Call
<1> HIDE DEF turned
<1>2. TypeOK' /\ CursorsFit'
  BY <1>1, <1>6 DEF TypeInv, TypeOK, CursorsFit, Fits, payload
<1>3. CallFits'
  BY <1>1, <1>7 DEF TypeInv, CallFits, Fits, payload
<1> QED
  BY <1>2, <1>3 DEF TypeInv

LEMMA FinishTyped ==
  ASSUME TypeInv, NEW code \in Codes, NEW ms \in Stream, Fits(ms),
         NEW state \in {"raw", "live", "spent"}, state = "live" => Usable(ms),
         Finish(code, ms, state)
  PROVE  TypeInv'
<1>1. /\ cur' = [cur EXCEPT ![call.on] = ms]
      /\ life' = [life EXCEPT ![call.on] = state]
      /\ answer' = [code |-> code, count |-> 0]
      /\ call' = Idle
      /\ buffer' = buffer
  BY DEF Finish
<1>2. TypeOK'
  BY <1>1, IdleCall DEF TypeInv, TypeOK, Answer
<1>3. CursorsFit'
  BY <1>1 DEF TypeInv, TypeOK, CursorsFit, Fits, payload
<1>4. CallFits'
  BY <1>1, IdleCall, BlankUsable, LimitAssumption, PayloadReads
     DEF TypeInv, TypeOK, CallFits, Fits, payload, Levels
<1> QED
  BY <1>2, <1>3, <1>4 DEF TypeInv

LEMMA RestoreTyped ==
  ASSUME TypeInv, call.op \notin {"none", "init"}, NEW code \in Codes, Restore(code)
  PROVE  TypeInv'
<1>1. call.on \in Cursors /\ life[call.on] = "live"
  BY DEF TypeInv, TypeOK, Call, CallFits
<1>2. Usable(cur[call.on]) /\ Fits(cur[call.on]) /\ cur[call.on] \in Stream
  BY <1>1 DEF TypeInv, CursorsFit, Usable
<1> QED
  BY <1>2, FinishTyped DEF Restore

-----------------------------------------------------------------------------
(* What a pass made on the stream of the running call leaves.               *)
LEMMA PassTyped ==
  ASSUME TypeInv, NEW flags, NEW r \in GPMF_Next(words, call.ms, flags)
  PROVE  /\ r.ret \in Codes \union {AGAIN}
         /\ r.ms \in Stream /\ Fits(r.ms)
         /\ r.ret # BAD \/ RECURSE \notin flags => Usable(r.ms)
<1>1. /\ payload.longs \in Nat
      /\ words \in [0..(payload.longs - 1) -> Word]
      /\ Usable(call.ms) /\ call.ms.bound <= payload.longs
  BY PayloadReads DEF TypeInv, CallFits, Fits
<1>2. /\ r.ret \in Codes \union {AGAIN}
      /\ r.ms \in Stream
      /\ r.ms.bound = call.ms.bound
      /\ r.ret # BAD \/ RECURSE \notin flags => Usable(r.ms)
  BY <1>1, NextUsable
<1> QED
  BY <1>1, <1>2 DEF Fits

(* The running call with another stream.                                    *)
LEMMA CarryOn ==
  ASSUME TypeInv, NEW ms, Usable(ms), Fits(ms), GoOn([call EXCEPT !.ms = ms])
  PROVE  TypeInv'
<1> DEFINE next == [call EXCEPT !.ms = ms]
<1>1. call \in Call /\ CallFits
  BY DEF TypeInv, TypeOK
<1>2. next \in Call
  BY <1>1 DEF Call, Usable
<1>3. /\ next.ms = ms /\ next.op = call.op /\ next.on = call.on
      /\ next.level = call.level /\ next.phase = call.phase
  BY <1>1 DEF Call
<1>4. next.level \in Levels /\ (next.op = "findprev" /\ next.phase # "start" => next.level > 0)
  BY <1>1, <1>3 DEF CallFits
<1> HIDE DEF next
<1> QED
  BY <1>2, <1>3, <1>4, GoOnTyped DEF next

LEMMA CarryOnIn ==
  ASSUME TypeInv, NEW ms, Usable(ms), Fits(ms),
         NEW phase \in {"start", "open", "scan", "tail"},
         call.op = "findprev" => call.level > 0,
         GoOn([call EXCEPT !.phase = phase, !.ms = ms])
  PROVE  TypeInv'
<1> DEFINE next == [call EXCEPT !.phase = phase, !.ms = ms]
<1>1. call \in Call /\ CallFits
  BY DEF TypeInv, TypeOK
<1>2. next \in Call
  BY <1>1, Zenon DEF Call, Usable
<1>3. /\ next.ms = ms /\ next.op = call.op /\ next.on = call.on
      /\ next.level = call.level
  BY <1>1 DEF Call
<1>4. next.level \in Levels /\ (next.op = "findprev" => next.level > 0)
  BY <1>1, <1>3 DEF CallFits
<1> HIDE DEF next
<1> QED
  BY <1>2, <1>3, <1>4, GoOnTyped DEF next

LEMMA LeaveNestTyped ==
  ASSUME TypeInv, call.op = "findprev", NEW ms, Usable(ms), Fits(ms), LeaveNest(ms)
  PROVE  TypeInv'
<1> DEFINE next == [call EXCEPT !.phase = "open", !.level = @ - 1, !.ms = ms]
<1>1. call \in Call /\ CallFits
  BY DEF TypeInv, TypeOK
<1>2. CASE RECURSE \in call.flags /\ call.level > 1
  <2>1. call.level - 1 \in Levels /\ call.level - 1 > 0 /\ call.level - 1 \in Nat
    BY <1>1, <1>2, LimitAssumption DEF CallFits, Levels
  <2>2. next \in Call
    BY <1>1, <2>1, Zenon DEF Call, Usable
  <2>3. next.ms = ms /\ next.op = call.op /\ next.on = call.on /\ next.level = call.level - 1
    BY <1>1 DEF Call
  <2>4. GoOn(next)
    BY <1>2 DEF LeaveNest
  <2> HIDE DEF next
  <2> QED
    BY <2>1, <2>2, <2>3, <2>4, GoOnTyped
<1>3. CASE ~(RECURSE \in call.flags /\ call.level > 1)
  BY <1>3, RestoreTyped DEF LeaveNest, Codes
<1> QED
  BY <1>2, <1>3

-----------------------------------------------------------------------------
(* The steps that start a call.                                             *)
LEMMA StartTyped == ASSUME TypeInv, Start PROVE TypeInv'
<1> PICK c \in Cursors :
      \/ StartInit(c)
      \/ ResetState(c)
      \/ \E d \in Cursors \ {c} : CopyState(c, d)
      \/ StartSeek(c)
      \/ StartCount(c)
      \/ \E flags \in Flags :
           \/ StartNext(c, flags)
           \/ \E key \in FindKeys :
                StartFindNext(c, key, flags) \/ StartFindPrev(c, key, flags)
  BY DEF Start
<1>1. /\ cur[c] \in Stream /\ Fits(cur[c])
      /\ life[c] = "live" => Usable(cur[c]) /\ cur[c].nest_level \in Levels
      /\ payload.longs \in Nat /\ words \in [0..(payload.longs - 1) -> Word]
  BY PayloadReads DEF TypeInv, TypeOK, CursorsFit, Usable
<1>2. /\ DEVC \in FourCC \union {END, JUNK} /\ 0 \in Levels
      /\ {} \in Flags /\ {TOLERANT} \in Flags
  BY KeyAssumption, LimitAssumption DEF Levels, Slots, Flags
<1>3. CASE StartInit(c)
  <2>1. Usable(Blank) /\ Fits(Blank)
    BY <1>1, BlankUsable DEF Fits
  <2> QED
    BY <1>2, <1>3, <2>1, BeginTyped DEF StartInit, Ops
<1>4. CASE ResetState(c)
  <2>1. Rewound(cur[c]) \in Stream /\ Usable(Rewound(cur[c])) /\ Fits(Rewound(cur[c]))
    BY <1>1, RewoundUsable DEF Usable, Fits
  <2> HIDE DEF Usable
  <2> QED
    BY <1>4, <2>1 DEF ResetState, TypeInv, TypeOK, CursorsFit, CallFits, Fits, payload,
                      Answer, Codes
<1>5. CASE \E d \in Cursors \ {c} : CopyState(c, d)
  <2> PICK d \in Cursors : CopyState(c, d)
    BY <1>5
  <2>1. /\ cur' = [cur EXCEPT ![d] = cur[c]]
        /\ life' = [life EXCEPT ![d] = life[c]]
        /\ answer' = [code |-> OK, count |-> 0]
        /\ UNCHANGED <<buffer, call>> /\ Running("none")
    BY DEF CopyState
  <2>2. TypeOK'
    BY <2>1 DEF TypeInv, TypeOK, Answer, Codes
  <2>3. CursorsFit'
    BY <2>1 DEF TypeInv, TypeOK, CursorsFit, Fits, payload
  <2>4. CallFits'
    BY <2>1 DEF TypeInv, CallFits, Fits, payload, Running
  <2> QED
    BY <2>2, <2>3, <2>4 DEF TypeInv
<1>6. CASE StartSeek(c)
  BY <1>1, <1>2, <1>6, BeginTyped DEF StartSeek, Ops
<1>7. CASE StartCount(c)
  <2>1. words[cur[c].pos].key \in FourCC \union {END, JUNK}
    <3>1. cur[c].pos \in 0..(payload.longs - 1)
      BY <1>1, <1>7 DEF StartCount, AtEnd, Stream, Fits
    <3>2. words[cur[c].pos] \in Word
      BY <1>1, <3>1
    <3> QED
      BY <3>2 DEF Word
  <2> QED
    BY <1>1, <1>2, <1>7, <2>1, BeginTyped DEF StartCount, Ops
<1>8. ASSUME NEW flags \in Flags, StartNext(c, flags) PROVE TypeInv'
  BY <1>1, <1>2, <1>8, BeginTyped DEF StartNext, Ops
<1>9. ASSUME NEW flags \in Flags, NEW key \in FindKeys, StartFindNext(c, key, flags)
      PROVE  TypeInv'
  BY <1>1, <1>2, <1>9, FindKeysAssumption, BeginTyped DEF StartFindNext, Ops
<1>10. ASSUME NEW flags \in Flags, NEW key \in FindKeys, StartFindPrev(c, key, flags)
       PROVE  TypeInv'
  BY <1>1, <1>2, <1>10, FindKeysAssumption, BeginTyped DEF StartFindPrev, Ops
<1> QED
  BY <1>3, <1>4, <1>5, <1>6, <1>7, <1>8, <1>9, <1>10

(* The steps of a running call.                                             *)
LEMMA InitHopTyped == ASSUME TypeInv, InitHop PROVE TypeInv'
<1> DEFINE mark == call.mark + 2 + SizeAt(words, call.mark)
           next == [call EXCEPT !.mark = mark]
<1>1. /\ call \in Call /\ CallFits
      /\ payload.longs \in Nat /\ words \in [0..(payload.longs - 1) -> Word]
  BY PayloadReads DEF TypeInv, TypeOK
<1>2. call.mark \in Nat /\ call.mark + 1 < payload.longs
  BY <1>1 DEF InitHop, ChainGoesOn, Call
<1>3. mark \in Nat
  <2>1. SizeAt(words, call.mark) \in Nat
    BY <1>1, <1>2, SizeNat
  <2> QED
    BY <1>2, <2>1
<1>4. GoOn(next) /\ Running("init")
  BY DEF InitHop
<1> HIDE DEF mark
<1>5. next \in Call
  BY <1>1, <1>3 DEF Call
<1>6. /\ next.ms = call.ms /\ next.op = call.op /\ next.on = call.on
      /\ next.level = call.level /\ next.phase = call.phase
  BY <1>1 DEF Call
<1> HIDE DEF next
<1>7. /\ Usable(next.ms) /\ Fits(next.ms) /\ next.level \in Levels
      /\ (next.op = "findprev" /\ next.phase # "start" => next.level > 0)
  BY <1>1, <1>6 DEF CallFits
<1> QED
  BY <1>4, <1>5, <1>6, <1>7, GoOnTyped

LEMMA InitEndTyped == ASSUME TypeInv, InitEnd PROVE TypeInv'
<1>1. call.mark \in Nat /\ payload.longs \in Nat
  BY PayloadReads DEF TypeInv, TypeOK, Call
<1>2. CASE 0 < call.mark /\ call.mark <= payload.longs
  <2>1. Opened(call.mark) \in Stream /\ Opened(call.mark).nest_level = 0
        /\ Opened(call.mark).bound = call.mark
    BY <1>1, BlankUsable DEF Opened, Usable, Stream, Blank
  <2>2. Usable(Opened(call.mark)) /\ Fits(Opened(call.mark))
    BY <1>2, <2>1, LimitAssumption DEF Usable, Levels, Fits
  <2>3. Finish(OK, Opened(call.mark), "live")
    BY <1>2 DEF InitEnd
  <2> QED
    BY <2>1, <2>2, <2>3, FinishTyped DEF Codes
<1>3. CASE ~(0 < call.mark /\ call.mark <= payload.longs)
  <2>1. Blank \in Stream /\ Fits(Blank)
    BY <1>1, BlankUsable DEF Usable, Fits
  <2>2. Finish(BAD, Blank, "raw")
    BY <1>3 DEF InitEnd
  <2> QED
    BY <2>1, <2>2, FinishTyped DEF Codes
<1> QED
  BY <1>2, <1>3

LEMMA NextPassTyped == ASSUME TypeInv, NextPass PROVE TypeInv'
<1> PICK r \in GPMF_Next(words, call.ms, call.flags) :
      IF r.ret = AGAIN THEN GoOn([call EXCEPT !.ms = r.ms])
      ELSE Finish(r.ret, r.ms, IF r.ret = BAD THEN "spent" ELSE "live")
  BY DEF NextPass
<1>1. /\ r.ret \in Codes \union {AGAIN} /\ r.ms \in Stream /\ Fits(r.ms)
      /\ r.ret # BAD => Usable(r.ms)
  BY PassTyped
<1>2. CASE r.ret = AGAIN
  BY <1>1, <1>2, CarryOn DEF AGAIN, BAD
<1>3. CASE r.ret # AGAIN
  BY <1>1, <1>3, FinishTyped
<1> QED
  BY <1>2, <1>3

LEMMA FindNextPassTyped == ASSUME TypeInv, FindNextPass PROVE TypeInv'
<1> PICK r \in GPMF_Next(words, call.ms, call.flags) : \E hit \in Found(r, call.key) :
      IF hit THEN Finish(OK, r.ms, "live")
      ELSE IF r.ret \in {OK, AGAIN} THEN GoOn([call EXCEPT !.ms = r.ms])
      ELSE Restore(r.ret)
  BY DEF FindNextPass
<1> PICK found \in Found(r, call.key) :
      IF found THEN Finish(OK, r.ms, "live")
      ELSE IF r.ret \in {OK, AGAIN} THEN GoOn([call EXCEPT !.ms = r.ms])
      ELSE Restore(r.ret)
  OBVIOUS
<1>1. /\ r.ret \in Codes \union {AGAIN} /\ r.ms \in Stream /\ Fits(r.ms)
      /\ r.ret # BAD => Usable(r.ms)
  BY PassTyped
<1>2. call.op \notin {"none", "init"}
  BY DEF FindNextPass, Running
<1>3. found => r.ret = OK
  BY DEF Found
<1>4. CASE found
  BY <1>1, <1>3, <1>4, FinishTyped DEF OK, BAD, Codes
<1>5. CASE ~found /\ r.ret \in {OK, AGAIN}
  BY <1>1, <1>5, CarryOn DEF OK, AGAIN, BAD
<1>6. CASE ~found /\ r.ret \notin {OK, AGAIN}
  BY <1>1, <1>2, <1>6, RestoreTyped
<1> QED
  BY <1>4, <1>5, <1>6

LEMMA FindPrevOverrunTyped == ASSUME TypeInv, FindPrevOverrun PROVE TypeInv'
<1>1. PICK code \in {OK, FIND} : Finish(code, Blank, "raw")
  BY DEF FindPrevOverrun
<1>2. Blank \in Stream /\ Fits(Blank)
  BY BlankUsable, PayloadReads DEF Usable, Fits, TypeInv
<1> QED
  BY <1>1, <1>2, FinishTyped DEF Codes

LEMMA FindPrevRewindTyped == ASSUME TypeInv, FindPrevRewind PROVE TypeInv'
<1> DEFINE ms    == call.ms
           first == ms.last_level_pos[call.level - 1] + 2
           size  == (ms.nest_size[call.level] + ms.pos - first) % Modulus
           back  == [ms EXCEPT !.pos = first, !.nest_size[call.level] = size]
           next  == [call EXCEPT !.phase = "scan", !.mark = ms.pos, !.ms = back]
<1>1. call \in Call /\ CallFits /\ call.op = "findprev"
  BY DEF TypeInv, TypeOK, FindPrevRewind, Running
<1>2. call.level > 0 /\ call.level \in Levels /\ call.level - 1 \in Slots
  <2>1. call.level # 0
    BY <1>1 DEF FindPrevRewind, Rewinds, NothingBehind, CallFits
  <2> QED
    BY <1>1, <2>1, LimitAssumption DEF CallFits, Levels, Slots
<1>3. Usable(ms) /\ ms \in Stream /\ Fits(ms)
  BY <1>1 DEF CallFits, Usable
<1>4. first \in Nat
  BY <1>2, <1>3, UsableFields
<1>5. size \in Nat
  <2>1. ms.nest_size[call.level] + ms.pos - first \in Int
    BY <1>2, <1>3, <1>4, UsableFields
  <2> HIDE DEF first
  <2> QED
    BY <2>1, LimitAssumption
<1>6. GoOn(next)
  BY DEF FindPrevRewind
<1> HIDE DEF first, size
<1>7. Usable(back) /\ Fits(back)
  <2> DEFINE sizes == [ms.nest_size EXCEPT ![call.level] = size]
  <2>1. back = Booked(ms, first, ms.nest_level, ms.last_level_pos, sizes)
    BY <1>3 DEF Booked, Stream
  <2>2. /\ sizes \in [Levels -> Nat] /\ ms.nest_level \in Levels
        /\ ms.last_level_pos \in [Slots -> Nat]
    BY <1>3, <1>5, UsableFields
  <2> HIDE DEF sizes, back, ms
  <2>3. Usable(back) /\ back.bound = ms.bound
    BY <1>3, <1>4, <2>1, <2>2, BookedUsable
  <2> QED
    BY <1>3, <2>3 DEF Fits
<1>8. ms.pos \in Nat
  BY <1>3, UsableFields
<1> HIDE DEF back
<1>9. next \in Call
  BY <1>1, <1>7, <1>8, Zenon DEF Call, Usable
<1>10. /\ next.ms = back /\ next.op = call.op /\ next.on = call.on
       /\ next.level = call.level
  BY <1>1 DEF Call
<1> HIDE DEF next
<1> QED
  BY <1>2, <1>6, <1>7, <1>9, <1>10, GoOnTyped

LEMMA FindPrevTyped ==
  ASSUME TypeInv,
         FindPrevRefuse \/ FindPrevFound \/ FindPrevExhausted \/ FindPrevPass
  PROVE  TypeInv'
<1>1. /\ call \in Call /\ CallFits /\ call.op = "findprev"
      /\ Usable(call.ms) /\ Fits(call.ms) /\ call.ms \in Stream
  BY DEF TypeInv, TypeOK, CallFits, Usable, FindPrevRefuse, FindPrevFound,
         FindPrevExhausted, FindPrevPass, Running
<1>2. CASE FindPrevRefuse
  BY <1>1, <1>2, RestoreTyped DEF FindPrevRefuse, Codes
<1>3. CASE FindPrevFound
  BY <1>1, <1>3, FinishTyped DEF FindPrevFound, Codes
<1>4. CASE FindPrevExhausted
  BY <1>1, <1>4, LeaveNestTyped DEF FindPrevExhausted
<1>5. CASE FindPrevPass
  <2> PICK r \in GPMF_Next(words, call.ms, call.flags \ {RECURSE}) :
        CASE r.ret = OK    -> GoOn([call EXCEPT !.phase = "scan", !.ms = r.ms])
          [] r.ret = AGAIN -> GoOn([call EXCEPT !.phase = "tail", !.ms = r.ms])
          [] OTHER         -> LeaveNest(r.ms)
    BY <1>5 DEF FindPrevPass
  <2>1. Usable(r.ms) /\ Fits(r.ms)
    BY PassTyped
  <2>2. call.level > 0
    BY <1>1, <1>5 DEF FindPrevPass, CallFits
  <2>3. CASE r.ret = OK
    BY <2>1, <2>2, <2>3, CarryOnIn
  <2>4. CASE r.ret = AGAIN
    BY <2>1, <2>2, <2>4, CarryOnIn DEF OK, AGAIN
  <2>5. CASE r.ret \notin {OK, AGAIN}
    BY <1>1, <2>1, <2>5, LeaveNestTyped
  <2> QED
    BY <2>3, <2>4, <2>5
<1> QED
  BY <1>2, <1>3, <1>4, <1>5

LEMMA SeekTyped == ASSUME TypeInv, SeekStart \/ SeekOpen \/ SeekPass PROVE TypeInv'
<1>1. /\ call \in Call /\ CallFits /\ call.op = "seek"
      /\ Usable(call.ms) /\ Fits(call.ms)
  BY DEF TypeInv, TypeOK, CallFits, SeekStart, SeekOpen, SeekPass, Running
<1>2. CASE SeekStart
  <2>1. CASE call.ms.pos + 1 >= call.ms.bound
    BY <1>1, <1>2, <2>1, RestoreTyped DEF SeekStart, Codes
  <2>2. CASE ~(call.ms.pos + 1 >= call.ms.bound)
    <3> PICK phase \in {"open", "scan"} : GoOn([call EXCEPT !.phase = phase])
      BY <1>2, <2>2 DEF SeekStart
    <3>1. [call EXCEPT !.phase = phase] \in Call
      BY <1>1 DEF Call
    <3>2. /\ [call EXCEPT !.phase = phase].ms = call.ms
          /\ [call EXCEPT !.phase = phase].op = call.op
          /\ [call EXCEPT !.phase = phase].on = call.on
          /\ [call EXCEPT !.phase = phase].level = call.level
      BY <1>1 DEF Call
    <3> QED
      BY <1>1, <3>1, <3>2, GoOnTyped DEF CallFits
  <2> QED
    BY <2>1, <2>2
<1>3. CASE SeekOpen
  <2> PICK r \in GPMF_Next(words, call.ms, {RECURSE, TOLERANT}) :
        CASE r.ret = OK    -> GoOn([call EXCEPT !.phase = "scan", !.ms = r.ms])
          [] r.ret = AGAIN -> GoOn([call EXCEPT !.ms = r.ms])
          [] OTHER         -> Restore(r.ret)
    BY <1>3 DEF SeekOpen
  <2>1. /\ r.ret \in Codes \union {AGAIN} /\ Fits(r.ms)
        /\ r.ret # BAD => Usable(r.ms)
    BY PassTyped
  <2>2. CASE r.ret = OK
    <3>1. Usable(r.ms) /\ call.op # "findprev"
      BY <1>1, <2>1, <2>2 DEF OK, BAD
    <3>2. GoOn([call EXCEPT !.phase = "scan", !.ms = r.ms])
      BY <2>2 DEF OK, AGAIN
    <3> QED
      BY <2>1, <3>1, <3>2, CarryOnIn
  <2>3. CASE r.ret = AGAIN
    BY <2>1, <2>3, CarryOn DEF OK, AGAIN, BAD
  <2>4. CASE r.ret \notin {OK, AGAIN}
    BY <1>1, <2>1, <2>4, RestoreTyped
  <2> QED
    BY <2>2, <2>3, <2>4
<1>4. CASE SeekPass
  <2> PICK r \in GPMF_Next(words, call.ms, {TOLERANT}) :
        LET verdict == IF r.ret = OK THEN Judge(r.ms) ELSE r.ret
        IN CASE verdict = OK    -> Finish(OK, r.ms, "live")
             [] verdict = AGAIN -> GoOn([call EXCEPT !.ms = r.ms])
             [] OTHER           -> Restore(verdict)
    BY <1>4 DEF SeekPass
  <2> DEFINE verdict == IF r.ret = OK THEN Judge(r.ms) ELSE r.ret
  <2>1. r.ret \in Codes \union {AGAIN} /\ Fits(r.ms) /\ Usable(r.ms) /\ r.ms \in Stream
    BY PassTyped DEF RECURSE, TOLERANT
  <2>2. Judge(r.ms) \in Codes \union {AGAIN}
    BY DEF Judge, Codes
  <2>3. verdict \in Codes \union {AGAIN}
    BY <2>1, <2>2
  <2>4. /\ verdict = OK => Finish(OK, r.ms, "live")
        /\ verdict = AGAIN => GoOn([call EXCEPT !.ms = r.ms])
        /\ verdict \notin {OK, AGAIN} => Restore(verdict)
    BY DEF OK, AGAIN
  <2> HIDE DEF verdict
  <2>5. CASE verdict = OK
    BY <2>1, <2>4, <2>5, FinishTyped DEF Codes
  <2>6. CASE verdict = AGAIN
    BY <2>1, <2>4, <2>6, CarryOn DEF OK, AGAIN
  <2>7. CASE verdict \notin {OK, AGAIN}
    BY <1>1, <2>3, <2>4, <2>7, RestoreTyped
  <2> QED
    BY <2>5, <2>6, <2>7
<1> QED
  BY <1>2, <1>3, <1>4

LEMMA CountPassTyped == ASSUME TypeInv, CountPass PROVE TypeInv'
<1> PICK r \in GPMF_Next(words, call.ms, call.flags) : \E hit \in Found(r, call.key) :
      IF hit
      THEN GoOn([call EXCEPT !.ms = r.ms, !.count = IF @ = 0 THEN 2 ELSE @ + 1])
      ELSE IF r.ret \in {OK, AGAIN} THEN GoOn([call EXCEPT !.ms = r.ms])
      ELSE /\ answer' = [code |-> OK, count |-> CountOf(cur[call.on])]
           /\ call' = Idle
           /\ UNCHANGED <<buffer, cur, life>>
  BY DEF CountPass
<1> PICK hit \in Found(r, call.key) :
      IF hit
      THEN GoOn([call EXCEPT !.ms = r.ms, !.count = IF @ = 0 THEN 2 ELSE @ + 1])
      ELSE IF r.ret \in {OK, AGAIN} THEN GoOn([call EXCEPT !.ms = r.ms])
      ELSE /\ answer' = [code |-> OK, count |-> CountOf(cur[call.on])]
           /\ call' = Idle
           /\ UNCHANGED <<buffer, cur, life>>
  OBVIOUS
<1>1. r.ret \in Codes \union {AGAIN} /\ Fits(r.ms) /\ (r.ret # BAD => Usable(r.ms))
  BY PassTyped
<1>2. /\ call \in Call /\ CallFits /\ call.op = "count"
      /\ cur[call.on] \in Stream /\ Fits(cur[call.on])
      /\ payload.longs \in Nat /\ words \in [0..(payload.longs - 1) -> Word]
  BY PayloadReads DEF TypeInv, TypeOK, CursorsFit, Call, CountPass, Running
<1>3. CASE hit
  <2> DEFINE n == IF call.count = 0 THEN 2 ELSE call.count + 1
             next == [call EXCEPT !.ms = r.ms, !.count = n]
  <2>1. Usable(r.ms)
    BY <1>1, <1>3 DEF Found, OK, BAD
  <2>2. n \in Nat
    BY <1>2 DEF Call
  <2>3. GoOn(next)
    BY <1>3
  <2> HIDE DEF n
  <2>4. next \in Call
    BY <1>2, <2>1, <2>2, Zenon DEF Call, Usable
  <2>5. /\ next.ms = r.ms /\ next.op = call.op /\ next.on = call.on
        /\ next.level = call.level
    BY <1>2 DEF Call
  <2> HIDE DEF next
  <2> QED
    BY <1>1, <1>2, <2>1, <2>3, <2>4, <2>5, GoOnTyped DEF CallFits
<1>4. CASE ~hit /\ r.ret \in {OK, AGAIN}
  BY <1>1, <1>4, CarryOn DEF OK, AGAIN, BAD
<1>5. CASE ~hit /\ r.ret \notin {OK, AGAIN}
  <2>1. /\ answer' = [code |-> OK, count |-> CountOf(cur[call.on])]
        /\ call' = Idle
        /\ UNCHANGED <<buffer, cur, life>>
    BY <1>5
  <2>2. \A ms \in Stream : Fits(ms) => Repeat(ms) \in Nat
    <3> TAKE ms \in Stream
    <3> SUFFICES ASSUME Fits(ms) PROVE Repeat(ms) \in Nat
      OBVIOUS
    <3>1. ms.pos \in Nat /\ ms.bound \in Nat /\ ms.bound <= payload.longs
      BY DEF Stream, Fits
    <3>2. ms.pos + 1 < ms.bound => words[ms.pos + 1] \in Word
      BY <1>2, <3>1
    <3>3. ms.pos + 2 < ms.bound => words[ms.pos + 2] \in Word
      BY <1>2, <3>1
    <3> QED
      BY <3>1, <3>2, <3>3 DEF Repeat, Word
  <2>3. CountOf(cur[call.on]) \in Nat
    BY <1>2, <2>2 DEF CountOf, Call
  <2>4. TypeOK'
    BY <2>1, <2>3, IdleCall DEF TypeInv, TypeOK, Answer, Codes
  <2>5. CursorsFit'
    BY <2>1 DEF TypeInv, CursorsFit, Fits, payload
  <2>6. CallFits'
    BY <1>2, <2>1, IdleCall, BlankUsable, LimitAssumption DEF CallFits, Fits, payload, Levels
  <2> QED
    BY <2>4, <2>5, <2>6 DEF TypeInv
<1> QED
  BY <1>3, <1>4, <1>5

-----------------------------------------------------------------------------
LEMMA NextTyped == ASSUME TypeInv, [Next]_vars PROVE TypeInv'
<1>1. CASE Start
  BY <1>1, StartTyped
<1>2. CASE Step
  <2>1. ASSUME FindNextAtEnd PROVE TypeInv'
    BY <2>1, RestoreTyped DEF FindNextAtEnd, Running, Codes
  <2> QED
    BY <1>2, <2>1, InitHopTyped, InitEndTyped, NextPassTyped, FindNextPassTyped,
       FindPrevOverrunTyped, FindPrevRewindTyped, FindPrevTyped, SeekTyped,
       CountPassTyped DEF Step
<1>3. CASE UNCHANGED vars
  BY <1>3 DEF vars, TypeInv, TypeOK, CursorsFit, CallFits, Fits, payload
<1> QED
  BY <1>1, <1>2, <1>3 DEF Next

(* Whatever the payload holds, however many cursors walk it: every variable *)
(* keeps its type, so no nest_size is ever taken below zero by GPMF_Next    *)
(* (the code's unsigned subtractions never wrap there), and nest_level of a *)
(* cursor that may be walked on has its slot in the per-level arrays.       *)
THEOREM SpecTyped == Spec => []TypeOK
<1>1. TypeInv /\ [Next]_vars => TypeInv'
  BY NextTyped
<1>2. TypeInv => TypeOK
  BY DEF TypeInv
<1> QED
  BY InitTyped, <1>1, <1>2, PTL DEF Spec

-----------------------------------------------------------------------------
(***************************************************************************)
(* CursorOnKlv for every sound payload.  While a call runs, the stream it  *)
(* works on is on an entry too, with two exceptions: GPMF_Init hops along  *)
(* the DEVC chain with a position of its own, and GPMF_FindPrev that has   *)
(* climbed out of its nest no longer keeps nest_level; a stream it then    *)
(* hands back is spent.                                                    *)
(***************************************************************************)
KlvAt(p, state, ms) ==
  /\ state # "raw" => ms.bound = p.longs
  /\ state = "live" => OnKlv(p, ms)

KlvCall(p, cl) ==
  /\ cl.op = "init" =>
       cl.mark = p.longs \/ (cl.mark \in p.items /\ IsDevice(p, cl.mark))
  /\ cl.op \notin {"none", "init"} => cl.ms.bound = p.longs
  /\ cl.op \in {"next", "findnext", "seek"} => OnKlv(p, cl.ms)
  /\ cl.op = "findprev" =>
       \/ cl.level = cl.ms.nest_level /\ cl.phase # "open" /\ OnKlv(p, cl.ms)
       \/ cl.phase # "start" /\ Climbed(p, cl.ms, cl.level)

KlvInv ==
  /\ \A c \in Cursors : KlvAt(payload, life[c], cur[c])
  /\ KlvCall(payload, call)

SoundInv == TypeInv /\ (Sound(payload) => KlvInv)

LEMMA SoundOutlined ==
  ASSUME TypeInv, Sound(payload)
  PROVE  Outlined(payload) /\ 0 \in payload.items /\ IsDevice(payload, 0)
<1>1. PayloadShape(payload)
  BY PayloadAssumption DEF TypeInv, TypeOK, payload
<1> QED
  BY <1>1 DEF Outlined, Sound, DeviceChain

LEMMA BeginKlv ==
  ASSUME TypeInv, KlvInv, Sound(payload), NEW op, NEW c, NEW key, NEW flags, NEW ms,
         NEW level, Begin(op, c, key, flags, ms, level),
         op # "init" => OnKlv(payload, ms),
         op = "findprev" => level = ms.nest_level
  PROVE  KlvInv'
<1>1. call' = [Idle EXCEPT !.op = op, !.on = c, !.key = key, !.flags = flags,
                           !.ms = ms, !.level = level]
  BY DEF Begin
<1>2. /\ call'.op = op /\ call'.ms = ms /\ call'.level = level
      /\ call'.phase = "start" /\ call'.mark = 0
  BY <1>1 DEF Idle
<1>3. KlvCall(payload, call')
  BY <1>2, SoundOutlined DEF KlvCall, OnKlv
<1>4. payload' = payload /\ UNCHANGED <<cur, life>>
  BY DEF Begin, payload
<1> QED
  BY <1>3, <1>4 DEF KlvInv

LEMMA GoOnKlv ==
  ASSUME TypeInv, KlvInv, NEW next \in Call, GoOn(next), KlvCall(payload, next)
  PROVE  KlvInv'
<1> DEFINE turned == [next EXCEPT !.turn = 1 - next.turn]
<1>1. call' = turned /\ UNCHANGED <<buffer, cur, life>>
  BY DEF GoOn
<1>2. /\ turned.op = next.op /\ turned.ms = next.ms /\ turned.level = next.level
      /\ turned.phase = next.phase /\ turned.mark = next.mark
  BY DEF Call
<1> HIDE DEF turned
<1>3. KlvCall(payload, call')
  BY <1>1, <1>2 DEF KlvCall
<1>4. payload' = payload
  BY <1>1 DEF payload
<1> QED
  BY <1>1, <1>3, <1>4 DEF KlvInv

LEMMA FinishKlv ==
  ASSUME TypeInv, KlvInv, NEW code, NEW ms, NEW state, Finish(code, ms, state),
         KlvAt(payload, state, ms)
  PROVE  KlvInv'
<1>1. /\ cur' = [cur EXCEPT ![call.on] = ms]
      /\ life' = [life EXCEPT ![call.on] = state]
      /\ call' = Idle /\ payload' = payload
  BY DEF Finish, payload
<1>2. KlvCall(payload, Idle)
  BY IdleCall DEF KlvCall
<1>3. \A c \in Cursors : KlvAt(payload, life'[c], cur'[c])
  BY <1>1 DEF KlvInv, TypeInv, TypeOK
<1> QED
  BY <1>1, <1>2, <1>3 DEF KlvInv

LEMMA RestoreKlv ==
  ASSUME TypeInv, KlvInv, call.op \notin {"none", "init"}, NEW code, Restore(code)
  PROVE  KlvInv'
<1>1. call.on \in Cursors /\ life[call.on] = "live"
  BY DEF TypeInv, TypeOK, Call, CallFits
<1> QED
  BY <1>1, FinishKlv DEF Restore, KlvInv, KlvAt

(* The running call, on with another stream.                                *)
LEMMA CarryOnKlv ==
  ASSUME TypeInv, KlvInv, NEW ms, Usable(ms), OnKlv(payload, ms),
         call.op \in {"next", "findnext", "seek", "count"},
         NEW phase \in {"start", "open", "scan", "tail"},
         \/ GoOn([call EXCEPT !.ms = ms])
         \/ GoOn([call EXCEPT !.phase = phase, !.ms = ms])
  PROVE  KlvInv'
<1>1. call \in Call
  BY DEF TypeInv, TypeOK
<1>2. CASE GoOn([call EXCEPT !.ms = ms])
  <2> DEFINE next == [call EXCEPT !.ms = ms]
  <2>1. next \in Call
    BY <1>1, Zenon DEF Call, Usable
  <2>2. next.op = call.op /\ next.ms = ms
    BY <1>1 DEF Call
  <2> HIDE DEF next
  <2>3. KlvCall(payload, next)
    BY <2>2 DEF KlvCall, OnKlv
  <2> QED
    BY <1>2, <2>1, <2>3, GoOnKlv DEF next
<1>3. CASE GoOn([call EXCEPT !.phase = phase, !.ms = ms])
  <2> DEFINE next == [call EXCEPT !.phase = phase, !.ms = ms]
  <2>1. next \in Call
    BY <1>1, Zenon DEF Call, Usable
  <2>2. next.op = call.op /\ next.ms = ms
    BY <1>1 DEF Call
  <2> HIDE DEF next
  <2>3. KlvCall(payload, next)
    BY <2>2 DEF KlvCall, OnKlv
  <2> QED
    BY <1>3, <2>1, <2>3, GoOnKlv DEF next
<1> QED
  BY <1>2, <1>3

(* A pass on the stream of the running call, from an entry.                 *)
LEMMA PassKlv ==
  ASSUME TypeInv, Sound(payload), OnKlv(payload, call.ms), NEW flags,
         NEW r \in GPMF_Next(words, call.ms, flags)
  PROVE  /\ r.ms.bound = payload.longs
         /\ r.ret # BAD => Usable(r.ms) /\ OnKlv(payload, r.ms)
         /\ RECURSE \notin flags /\ call.ms.nest_level > 0 =>
              r.ret # BAD /\ r.ms.nest_level = call.ms.nest_level
<1> DEFINE ms == call.ms
           there == Into(payload, ms.pos, flags)
<1>1. Outlined(payload) /\ Usable(ms) /\ words = payload.words
  BY SoundOutlined DEF TypeInv, CallFits, words
<1>2. \/ ms.pos = payload.longs /\ r = Result(BUFFER_END, ms)
      \/ /\ ms.pos \in payload.items
         /\ LastOfNest(payload, ms.pos, flags) /\ r = Result(LAST, ms)
      \/ /\ ms.pos \in payload.items
         /\ ~LastOfNest(payload, ms.pos, flags)
         /\ r.ret = Verdict(payload, there, flags) /\ r.ms.pos = there
         /\ Usable(r.ms) /\ OnKlv(payload, r.ms)
      \/ /\ ms.pos \in payload.items
         /\ Refused(payload, ms.pos, flags) /\ r.ret = BAD
  BY <1>1, NextOnKlv
<1>3. r.ret # BAD => Usable(r.ms) /\ OnKlv(payload, r.ms)
  BY <1>1, <1>2 DEF Result
<1>4. r.ms.bound = payload.longs
  <2>1. /\ payload.longs \in Nat /\ words \in [0..(payload.longs - 1) -> Word]
        /\ ms.bound = payload.longs /\ ms.bound <= payload.longs
    BY PayloadReads DEF TypeInv, OnKlv
  <2> QED
    BY <1>1, <2>1, NextUsable
<1>5. ASSUME RECURSE \notin flags, ms.nest_level > 0
      PROVE  r.ret # BAD /\ r.ms.nest_level = ms.nest_level
  <2>1. /\ ms.pos \in payload.items /\ ~IsDevice(payload, ms.pos)
        /\ payload.lev[ms.pos] = ms.nest_level /\ ms.pos # payload.longs
    BY <1>1, <1>5, ItemFacts DEF OnKlv, OnDevice, InNest
  <2>2. CASE LastOfNest(payload, ms.pos, flags)
    BY <1>2, <2>1, <2>2 DEF Result, Refused, BAD, LAST
  <2>3. CASE ~LastOfNest(payload, ms.pos, flags)
    <3>1. /\ r.ret = Verdict(payload, there, flags) /\ r.ms.pos = there
          /\ Usable(r.ms) /\ OnKlv(payload, r.ms)
      BY <1>2, <2>1, <2>3 DEF Refused
    <3>2. there = EndOf(payload, ms.pos)
      BY <1>5 DEF Into
    <3>3. /\ there \in payload.items /\ ~IsDevice(payload, there)
          /\ payload.lev[there] = ms.nest_level
      BY <1>1, <1>5, <2>1, <2>3, <3>2, InnerFacts DEF LastOfNest
    <3> HIDE DEF there
    <3>4. r.ms.nest_level = ms.nest_level
      BY <1>1, <3>1, <3>3, OnEntry DEF InNest
    <3>5. r.ret # BAD
      BY <3>1 DEF Verdict, BAD, BUFFER_END, OK, AGAIN, UNKNOWN_TYPE
    <3> QED
      BY <3>4, <3>5
  <2> QED
    BY <2>2, <2>3
<1> QED
  BY <1>3, <1>4, <1>5

LEMMA StartKlv == ASSUME TypeInv, KlvInv, Sound(payload), Start PROVE KlvInv'
<1> PICK c \in Cursors :
      \/ StartInit(c)
      \/ ResetState(c)
      \/ \E d \in Cursors \ {c} : CopyState(c, d)
      \/ StartSeek(c)
      \/ StartCount(c)
      \/ \E flags \in Flags :
           \/ StartNext(c, flags)
           \/ \E key \in FindKeys :
                StartFindNext(c, key, flags) \/ StartFindPrev(c, key, flags)
  BY DEF Start
<1>1. KlvAt(payload, life[c], cur[c]) /\ cur[c] \in Stream
  BY DEF KlvInv, TypeInv, TypeOK
<1>2. life[c] = "live" => OnKlv(payload, cur[c])
  BY <1>1 DEF KlvAt
<1>3. CASE StartInit(c)
  BY <1>3, BeginKlv DEF StartInit
<1>4. CASE ResetState(c)
  <2> DEFINE ms == Rewound(cur[c])
  <2>1. /\ cur' = [cur EXCEPT ![c] = ms] /\ life' = [life EXCEPT ![c] = "live"]
        /\ call' = call /\ payload' = payload
    BY <1>4 DEF ResetState, payload
  <2>2. ms.bound = payload.longs
    BY <1>1, <1>4, RewoundUsable DEF KlvAt, ResetState
  <2>3. ms.pos = 0 /\ ms.nest_level = 0 /\ ms.nest_size[0] = 0
    BY <1>1, LimitAssumption DEF Rewound, Stream, Levels
  <2> HIDE DEF ms
  <2>4. OnKlv(payload, ms)
    BY <2>2, <2>3, SoundOutlined DEF OnKlv, OnDevice
  <2>5. \A d \in Cursors : KlvAt(payload, life'[d], cur'[d])
    BY <2>1, <2>2, <2>4 DEF KlvInv, KlvAt, TypeInv, TypeOK
  <2> QED
    BY <2>1, <2>5 DEF KlvInv
<1>5. CASE \E d \in Cursors \ {c} : CopyState(c, d)
  <2> PICK d \in Cursors : CopyState(c, d)
    BY <1>5
  <2>1. /\ cur' = [cur EXCEPT ![d] = cur[c]] /\ life' = [life EXCEPT ![d] = life[c]]
        /\ call' = call /\ payload' = payload
    BY DEF CopyState, payload
  <2>2. \A b \in Cursors : KlvAt(payload, life'[b], cur'[b])
    BY <1>1, <2>1 DEF KlvInv, TypeInv, TypeOK
  <2> QED
    BY <2>1, <2>2 DEF KlvInv
<1>6. CASE StartSeek(c)
  BY <1>2, <1>6, BeginKlv DEF StartSeek
<1>7. CASE StartCount(c)
  BY <1>2, <1>7, BeginKlv DEF StartCount
<1>8. ASSUME NEW flags \in Flags, StartNext(c, flags) PROVE KlvInv'
  BY <1>2, <1>8, BeginKlv DEF StartNext
<1>9. ASSUME NEW flags \in Flags, NEW key \in FindKeys, StartFindNext(c, key, flags)
      PROVE  KlvInv'
  BY <1>2, <1>9, BeginKlv DEF StartFindNext
<1>10. ASSUME NEW flags \in Flags, NEW key \in FindKeys, StartFindPrev(c, key, flags)
       PROVE  KlvInv'
  BY <1>2, <1>10, BeginKlv DEF StartFindPrev
<1> QED
  BY <1>3, <1>4, <1>5, <1>6, <1>7, <1>8, <1>9, <1>10

(* GPMF_Init: from DEVC to DEVC the chain leads to the last word.           *)
LEMMA InitKlv ==
  ASSUME TypeInv, KlvInv, Sound(payload), InitHop \/ InitEnd
  PROVE  KlvInv'
<1> DEFINE i == call.mark
           p == payload
<1>1. /\ Outlined(p) /\ 0 \in p.items /\ IsDevice(p, 0) /\ p.longs \in Nat
      /\ words = p.words /\ call \in Call /\ call.op = "init"
  BY SoundOutlined, PayloadReads DEF words, TypeInv, TypeOK, InitHop, InitEnd, Running
<1>2. i = p.longs \/ (i \in p.items /\ IsDevice(p, i))
  BY <1>1 DEF KlvInv, KlvCall
<1>3. 0 < p.longs
  BY <1>1, ItemFacts
<1>4. ChainGoesOn <=> i \in p.items
  <2>1. CASE i = p.longs
    <3>1. ~(i + 1 < p.longs)
      BY <1>1, <2>1
    <3>2. \A j \in p.items : j + 1 < p.longs
      BY <1>1, ItemFacts
    <3> QED
      BY <3>1, <3>2 DEF ChainGoesOn
  <2>2. CASE i \in p.items /\ IsDevice(p, i)
    BY <1>1, <2>2, ItemFacts, DeviceFacts DEF ChainGoesOn
  <2> QED
    BY <1>2, <2>1, <2>2
<1>5. CASE InitHop
  <2> DEFINE to == i + 2 + SizeAt(words, i)
             next == [call EXCEPT !.mark = to]
  <2>1. i \in p.items /\ IsDevice(p, i)
    BY <1>1, <1>2, <1>4, <1>5, ItemFacts DEF InitHop
  <2>2. to = EndOf(p, i) /\ to \in Nat
    BY <1>1, <2>1, ItemFacts
  <2>3. GoOn(next)
    BY <1>5 DEF InitHop
  <2> HIDE DEF to
  <2>4. next \in Call /\ next.op = "init" /\ next.mark = to
    BY <1>1, <2>2 DEF Call
  <2> HIDE DEF next
  <2>5. KlvCall(p, next)
    BY <1>1, <2>1, <2>2, <2>4, DeviceFacts DEF KlvCall
  <2> QED
    BY <2>3, <2>4, <2>5, GoOnKlv
<1>6. CASE InitEnd
  <2>1. i = p.longs
    BY <1>2, <1>4, <1>6 DEF InitEnd
  <2>2. Finish(OK, Opened(p.longs), "live")
    BY <1>1, <1>3, <1>6, <2>1 DEF InitEnd
  <2> DEFINE ms == Opened(p.longs)
  <2>3. ms.bound = p.longs /\ ms.pos = 0 /\ ms.nest_level = 0 /\ ms.nest_size[0] = 0
    BY LimitAssumption DEF Opened, Blank, Levels
  <2> HIDE DEF ms
  <2>4. KlvAt(p, "live", ms)
    BY <1>1, <2>3 DEF KlvAt, OnKlv, OnDevice
  <2> QED
    BY <2>2, <2>4, FinishKlv DEF ms
<1> QED
  BY <1>5, <1>6

LEMMA WalkKlv ==
  ASSUME TypeInv, KlvInv, Sound(payload), NextPass \/ FindNextPass
  PROVE  KlvInv'
<1>1. OnKlv(payload, call.ms) /\ call.op \in {"next", "findnext"}
  BY DEF KlvInv, KlvCall, NextPass, FindNextPass, Running
<1>2. CASE NextPass
  <2> PICK r \in GPMF_Next(words, call.ms, call.flags) :
        IF r.ret = AGAIN THEN GoOn([call EXCEPT !.ms = r.ms])
        ELSE Finish(r.ret, r.ms, IF r.ret = BAD THEN "spent" ELSE "live")
    BY <1>2 DEF NextPass
  <2>1. /\ r.ms.bound = payload.longs
        /\ r.ret # BAD => Usable(r.ms) /\ OnKlv(payload, r.ms)
    BY <1>1, PassKlv
  <2>2. CASE r.ret = AGAIN
    BY <1>1, <2>1, <2>2, CarryOnKlv DEF AGAIN, BAD
  <2>3. CASE r.ret # AGAIN
    BY <2>1, <2>3, FinishKlv DEF KlvAt
  <2> QED
    BY <2>2, <2>3
<1>3. CASE FindNextPass
  <2> PICK r \in GPMF_Next(words, call.ms, call.flags), found \in BOOLEAN :
        /\ found => r.ret = OK
        /\ IF found THEN Finish(OK, r.ms, "live")
           ELSE IF r.ret \in {OK, AGAIN} THEN GoOn([call EXCEPT !.ms = r.ms])
           ELSE Restore(r.ret)
    <3>1. \A q, key : Found(q, key) \subseteq BOOLEAN /\ (q.ret # OK => Found(q, key) = {FALSE})
      BY DEF Found
    <3> QED
      BY <1>3, <3>1 DEF FindNextPass
  <2>1. r.ret # BAD => Usable(r.ms) /\ OnKlv(payload, r.ms) /\ r.ms.bound = payload.longs
    BY <1>1, PassKlv
  <2>2. CASE found
    BY <2>1, <2>2, FinishKlv DEF KlvAt, OK, BAD
  <2>3. CASE ~found /\ r.ret \in {OK, AGAIN}
    BY <1>1, <2>1, <2>3, CarryOnKlv DEF OK, AGAIN, BAD
  <2>4. CASE ~found /\ r.ret \notin {OK, AGAIN}
    BY <1>1, <2>4, RestoreKlv
  <2> QED
    BY <2>2, <2>3, <2>4
<1> QED
  BY <1>2, <1>3

LEMMA SeekKlv ==
  ASSUME TypeInv, KlvInv, Sound(payload), SeekStart \/ SeekOpen \/ SeekPass
  PROVE  KlvInv'
<1>1. OnKlv(payload, call.ms) /\ call.op = "seek" /\ call \in Call /\ Usable(call.ms)
  BY DEF KlvInv, KlvCall, SeekStart, SeekOpen, SeekPass, Running, TypeInv, TypeOK, CallFits
<1>2. CASE SeekStart
  <2>1. CASE call.ms.pos + 1 >= call.ms.bound
    BY <1>1, <1>2, <2>1, RestoreKlv DEF SeekStart
  <2>2. CASE ~(call.ms.pos + 1 >= call.ms.bound)
    <3> PICK phase \in {"open", "scan"} : GoOn([call EXCEPT !.phase = phase])
      BY <1>2, <2>2 DEF SeekStart
    <3> DEFINE next == [call EXCEPT !.phase = phase]
    <3>1. next \in Call /\ next.op = "seek" /\ next.ms = call.ms
      BY <1>1 DEF Call
    <3> HIDE DEF next
    <3>2. KlvCall(payload, next)
      BY <1>1, <3>1 DEF KlvCall, OnKlv
    <3> QED
      BY <3>1, <3>2, GoOnKlv DEF next
  <2> QED
    BY <2>1, <2>2
<1>3. CASE SeekOpen
  <2> PICK r \in GPMF_Next(words, call.ms, {RECURSE, TOLERANT}) :
        CASE r.ret = OK    -> GoOn([call EXCEPT !.phase = "scan", !.ms = r.ms])
          [] r.ret = AGAIN -> GoOn([call EXCEPT !.ms = r.ms])
          [] OTHER         -> Restore(r.ret)
    BY <1>3 DEF SeekOpen
  <2>1. r.ret # BAD => Usable(r.ms) /\ OnKlv(payload, r.ms)
    BY <1>1, PassKlv
  <2>2. /\ r.ret = OK => GoOn([call EXCEPT !.phase = "scan", !.ms = r.ms])
        /\ r.ret = AGAIN => GoOn([call EXCEPT !.ms = r.ms])
        /\ r.ret \notin {OK, AGAIN} => Restore(r.ret)
    BY DEF OK, AGAIN
  <2>3. CASE r.ret \in {OK, AGAIN}
    BY <1>1, <2>1, <2>2, <2>3, CarryOnKlv DEF OK, AGAIN, BAD
  <2>4. CASE r.ret \notin {OK, AGAIN}
    BY <1>1, <2>2, <2>4, RestoreKlv
  <2> QED
    BY <2>3, <2>4
<1>4. CASE SeekPass
  <2> PICK r \in GPMF_Next(words, call.ms, {TOLERANT}) :
        LET verdict == IF r.ret = OK THEN Judge(r.ms) ELSE r.ret
        IN CASE verdict = OK    -> Finish(OK, r.ms, "live")
             [] verdict = AGAIN -> GoOn([call EXCEPT !.ms = r.ms])
             [] OTHER           -> Restore(verdict)
    BY <1>4 DEF SeekPass
  <2> DEFINE verdict == IF r.ret = OK THEN Judge(r.ms) ELSE r.ret
  <2>1. /\ r.ret # BAD => Usable(r.ms) /\ OnKlv(payload, r.ms)
        /\ r.ms.bound = payload.longs
    BY <1>1, PassKlv
  <2>2. verdict \in {OK, AGAIN} => r.ret # BAD
    BY DEF OK, AGAIN, BAD
  <2>3. /\ verdict = OK => Finish(OK, r.ms, "live")
        /\ verdict = AGAIN => GoOn([call EXCEPT !.ms = r.ms])
        /\ verdict \notin {OK, AGAIN} => Restore(verdict)
    BY DEF OK, AGAIN
  <2> HIDE DEF verdict
  <2>4. CASE verdict = OK
    BY <2>1, <2>2, <2>3, <2>4, FinishKlv DEF KlvAt
  <2>5. CASE verdict = AGAIN
    BY <1>1, <2>1, <2>2, <2>3, <2>5, CarryOnKlv
  <2>6. CASE verdict \notin {OK, AGAIN}
    BY <1>1, <2>3, <2>6, RestoreKlv
  <2> QED
    BY <2>4, <2>5, <2>6
<1> QED
  BY <1>2, <1>3, <1>4

LEMMA CountKlv == ASSUME TypeInv, KlvInv, Sound(payload), CountPass PROVE KlvInv'
<1> PICK r \in GPMF_Next(words, call.ms, call.flags), n \in {call.count + 1, 2} :
      \/ GoOn([call EXCEPT !.ms = r.ms, !.count = n]) /\ r.ret = OK
      \/ GoOn([call EXCEPT !.ms = r.ms]) /\ r.ret \in {OK, AGAIN}
      \/ call' = Idle /\ UNCHANGED <<buffer, cur, life>>
  <2>1. \A q, key : Found(q, key) \subseteq BOOLEAN /\ (q.ret # OK => Found(q, key) = {FALSE})
    BY DEF Found
  <2> QED
    BY <2>1 DEF CountPass
<1>1. call \in Call /\ call.op = "count" /\ call.count \in Nat /\ call.ms.bound = payload.longs
  BY DEF TypeInv, TypeOK, Call, CountPass, Running, KlvInv, KlvCall
<1>2. r.ret # BAD => Usable(r.ms)
  BY PassTyped
<1>3. r.ms.bound = payload.longs
  <2>1. /\ payload.longs \in Nat /\ words \in [0..(payload.longs - 1) -> Word]
        /\ Usable(call.ms) /\ call.ms.bound <= payload.longs
    BY <1>1, PayloadReads DEF TypeInv, CallFits, Fits
  <2> QED
    BY <1>1, <2>1, NextUsable
<1>4. CASE GoOn([call EXCEPT !.ms = r.ms, !.count = n]) /\ r.ret = OK
  <2> DEFINE next == [call EXCEPT !.ms = r.ms, !.count = n]
  <2>1. n \in Nat
    BY <1>1
  <2>2. next \in Call
    BY <1>1, <1>2, <1>4, <2>1, Zenon DEF Call, Usable, OK, BAD
  <2>3. next.op = "count" /\ next.ms = r.ms
    BY <1>1 DEF Call
  <2> HIDE DEF next
  <2>4. KlvCall(payload, next)
    BY <1>3, <2>3 DEF KlvCall
  <2> QED
    BY <1>4, <2>2, <2>4, GoOnKlv DEF next
<1>5. CASE GoOn([call EXCEPT !.ms = r.ms]) /\ r.ret \in {OK, AGAIN}
  <2> DEFINE next == [call EXCEPT !.ms = r.ms]
  <2>1. Usable(r.ms)
    BY <1>2, <1>5 DEF OK, AGAIN, BAD
  <2>2. next \in Call
    BY <1>1, <2>1, Zenon DEF Call, Usable
  <2>3. next.op = "count" /\ next.ms = r.ms
    BY <1>1 DEF Call
  <2> HIDE DEF next
  <2>4. KlvCall(payload, next)
    BY <1>3, <2>3 DEF KlvCall
  <2> QED
    BY <1>5, <2>2, <2>4, GoOnKlv DEF next
<1>6. CASE call' = Idle /\ UNCHANGED <<buffer, cur, life>>
  <2>1. KlvCall(payload, Idle) /\ payload' = payload
    BY <1>6, IdleCall DEF KlvCall, payload
  <2> QED
    BY <1>6, <2>1 DEF KlvInv
<1> QED
  BY <1>4, <1>5, <1>6

-----------------------------------------------------------------------------
(* GPMF_FindPrev.                                                           *)
LEMMA SearchOn ==
  ASSUME TypeInv, KlvInv, Sound(payload), call.op = "findprev", call.phase # "start"
  PROVE  \/ call.level = call.ms.nest_level /\ call.phase # "open" /\ OnKlv(payload, call.ms)
         \/ Climbed(payload, call.ms, call.level)
BY DEF KlvInv, KlvCall

LEMMA LeaveNestKlv ==
  ASSUME TypeInv, KlvInv, Sound(payload), call.op = "findprev",
         NEW ms, Usable(ms), ms.bound = payload.longs, LeaveNest(ms),
         \/ call.level = ms.nest_level /\ OnKlv(payload, ms)
         \/ Climbed(payload, ms, call.level)
  PROVE  KlvInv'
<1>1. CASE RECURSE \in call.flags /\ call.level > 1
  <2> DEFINE next == [call EXCEPT !.phase = "open", !.level = call.level - 1, !.ms = ms]
  <2>1. call \in Call /\ call.level - 1 \in Nat /\ call.level \in Nat /\ ms.nest_level \in Nat
    BY <1>1, UsableFields DEF TypeInv, TypeOK, Call
  <2>2. next \in Call
    BY <2>1, Zenon DEF Call, Usable
  <2>3. /\ next.op = "findprev" /\ next.ms = ms /\ next.level = call.level - 1
        /\ next.phase = "open"
    BY <2>1 DEF Call
  <2>4. GoOn(next)
    BY <1>1 DEF LeaveNest
  <2> HIDE DEF next
  <2>5. Climbed(payload, ms, call.level - 1)
    <3>1. CASE call.level = ms.nest_level /\ OnKlv(payload, ms)
      <4>1. ms.nest_level > 0 /\ call.level - 1 < ms.nest_level
        BY <1>1, <2>1, <3>1
      <4> QED
        BY <2>1, <3>1, <4>1, SoundOutlined, ClimbStarts
    <3>2. CASE Climbed(payload, ms, call.level)
      BY <2>1, <3>2 DEF Climbed
    <3> QED
      BY <3>1, <3>2
  <2>6. KlvCall(payload, next)
    BY <2>3, <2>5 DEF KlvCall
  <2> QED
    BY <2>2, <2>4, <2>6, GoOnKlv
<1>2. CASE ~(RECURSE \in call.flags /\ call.level > 1)
  BY <1>2, RestoreKlv DEF LeaveNest
<1> QED
  BY <1>1, <1>2

LEMMA FindPrevOverrunKlv == ASSUME TypeInv, KlvInv, FindPrevOverrun PROVE KlvInv'
<1>1. PICK code \in {OK, FIND} : Finish(code, Blank, "raw")
  BY DEF FindPrevOverrun
<1> QED
  BY <1>1, FinishKlv DEF KlvAt

LEMMA FindPrevRewindKlv ==
  ASSUME TypeInv, KlvInv, Sound(payload), FindPrevRewind
  PROVE  KlvInv'
<1> DEFINE ms    == call.ms
           level == call.level
           first == ms.last_level_pos[level - 1] + 2
           size  == (ms.nest_size[level] + ms.pos - first) % Modulus
           back  == [ms EXCEPT !.pos = first, !.nest_size[level] = size]
           next  == [call EXCEPT !.phase = "scan", !.mark = ms.pos, !.ms = back]
<1>1. /\ call \in Call /\ Usable(ms) /\ ms \in Stream /\ call.op = "findprev"
      /\ Outlined(payload) /\ ms.bound = payload.longs
  BY SoundOutlined DEF TypeInv, TypeOK, CallFits, Usable, FindPrevRewind, Running,
                       KlvInv, KlvCall
<1>2. level > 0 /\ level \in Levels /\ level \in Nat /\ level - 1 \in Slots
  <2>1. level # 0 /\ level \in Levels
    BY DEF TypeInv, CallFits, FindPrevRewind, Running, Rewinds, NothingBehind
  <2> QED
    BY <2>1, LimitAssumption DEF Levels, Slots
<1>3. ms.pos \in Nat /\ first \in Nat /\ ms.nest_size \in [Levels -> Nat]
      /\ ms.nest_level \in Nat /\ ms.nest_level \in Levels
      /\ ms.last_level_pos \in [Slots -> Nat]
  BY <1>1, <1>2, UsableFields
<1>4. size \in Nat
  <2>1. ms.nest_size[level] + ms.pos - first \in Int
    BY <1>2, <1>3
  <2> HIDE DEF first
  <2> QED
    BY <2>1, LimitAssumption
<1>5. GoOn(next)
  BY DEF FindPrevRewind
<1>6. \/ level = ms.nest_level /\ OnKlv(payload, ms)
      \/ Climbed(payload, ms, level)
  BY <1>1 DEF KlvInv, KlvCall
<1> DEFINE sizes == [ms.nest_size EXCEPT ![level] = size]
<1>7. /\ back.pos = first /\ back.nest_level = ms.nest_level /\ back.nest_size = sizes
      /\ back.last_level_pos = ms.last_level_pos /\ back.bound = ms.bound
  BY <1>1 DEF Stream
<1>8. sizes \in [Levels -> Nat] /\ \A l \in Levels : l # level => sizes[l] = ms.nest_size[l]
  BY <1>3, <1>4
<1>9. Usable(back)
  <2>1. back = Booked(ms, first, ms.nest_level, ms.last_level_pos, sizes)
    BY <1>1 DEF Booked, Stream
  <2> HIDE DEF back, sizes, first, ms
  <2> QED
    BY <1>1, <1>3, <1>8, <2>1, BookedUsable
<1>10. ASSUME level = ms.nest_level, OnKlv(payload, ms)
       PROVE  level = back.nest_level /\ OnKlv(payload, back)
  <2>1. back = [ms EXCEPT !.pos = first,
                          !.nest_size[level] = (@ + ms.pos - first) % Modulus]
    OBVIOUS
  <2> HIDE DEF back, size
  <2>2. OnKlv(payload, back) /\ back.nest_level = level
    BY <1>1, <1>2, <1>10, <2>1, RewindOnKlv
  <2> QED
    BY <2>2
<1>11. ASSUME Climbed(payload, ms, level) PROVE Climbed(payload, back, level)
  <2>1. level < ms.nest_level /\ level - 1 \in 0..(ms.nest_level - 1)
    BY <1>2, <1>3, <1>11 DEF Climbed
  <2>2. first \in payload.items
    BY <1>11, <2>1 DEF Climbed
  <2>3. Remaining(back) = Remaining(ms)
    BY <1>3, <1>7, <1>8, <2>1 DEF Remaining
  <2> HIDE DEF back, first
  <2>4. Climbed(payload, back, level)
    BY <1>7, <1>11, <2>2, <2>3 DEF Climbed, Placed
  <2> QED
    BY <2>4
<1> HIDE DEF back, first, size, sizes
<1>12. next \in Call
  BY <1>1, <1>3, <1>9, Zenon DEF Call, Usable
<1>13. next.op = "findprev" /\ next.ms = back /\ next.level = level /\ next.phase = "scan"
  BY <1>1 DEF Call
<1> HIDE DEF next
<1>14. KlvCall(payload, next)
  <2>1. \/ level = back.nest_level /\ OnKlv(payload, back)
        \/ Climbed(payload, back, level)
    BY <1>6, <1>7, <1>10, <1>11
  <2> QED
    BY <1>1, <1>7, <1>13, <2>1 DEF KlvCall
<1> QED
  BY <1>5, <1>12, <1>14, GoOnKlv DEF next, back, first, size

LEMMA FindPrevKlv ==
  ASSUME TypeInv, KlvInv, Sound(payload),
         FindPrevRefuse \/ FindPrevFound \/ FindPrevExhausted \/ FindPrevPass
  PROVE  KlvInv'
<1> DEFINE ms == call.ms
           Searching(s) == \/ call.level = s.nest_level /\ OnKlv(payload, s)
                           \/ Climbed(payload, s, call.level)
<1>1. /\ call \in Call /\ Usable(ms) /\ call.op = "findprev" /\ Outlined(payload)
      /\ ms.bound = payload.longs
  BY SoundOutlined DEF TypeInv, TypeOK, CallFits, FindPrevRefuse, FindPrevFound,
         FindPrevExhausted, FindPrevPass, Running, KlvInv, KlvCall
<1>2. Searching(ms)
  BY <1>1 DEF KlvInv, KlvCall
<1>3. CASE FindPrevRefuse
  BY <1>1, <1>3, RestoreKlv DEF FindPrevRefuse
<1>4. CASE FindPrevFound
  <2>1. KlvAt(payload, IF call.level = ms.nest_level THEN "live" ELSE "spent", ms)
    <3>1. call.level \in Nat /\ ms.nest_level \in Nat
      BY <1>1, UsableFields DEF Call
    <3> QED
      BY <1>1, <1>2, <3>1 DEF KlvAt, Climbed
  <2> QED
    BY <1>4, <2>1, FinishKlv DEF FindPrevFound
<1>5. CASE FindPrevExhausted
  BY <1>1, <1>2, <1>5, LeaveNestKlv DEF FindPrevExhausted
<1>6. CASE FindPrevPass
  <2> PICK r \in GPMF_Next(words, ms, call.flags \ {RECURSE}) :
        CASE r.ret = OK    -> GoOn([call EXCEPT !.phase = "scan", !.ms = r.ms])
          [] r.ret = AGAIN -> GoOn([call EXCEPT !.phase = "tail", !.ms = r.ms])
          [] OTHER         -> LeaveNest(r.ms)
    BY <1>6 DEF FindPrevPass
  <2>1. call.level \in Nat /\ call.level > 0
    BY <1>1, <1>6 DEF FindPrevPass, TypeInv, CallFits, Call
  <2>2. Usable(r.ms) /\ r.ms \in Stream
    BY PassTyped
  <2>3. r.ms.bound = payload.longs
    <3>1. payload.longs \in Nat /\ words \in [0..(payload.longs - 1) -> Word] /\ ms.bound <= payload.longs
      BY <1>1, PayloadReads DEF TypeInv
    <3> QED
      BY <1>1, <3>1, NextUsable
  <2>4. Searching(r.ms)
    <3>1. CASE call.level = ms.nest_level /\ OnKlv(payload, ms)
      <4>1. r.ret # BAD /\ r.ms.nest_level = ms.nest_level /\ OnKlv(payload, r.ms)
        BY <2>1, <3>1, PassKlv
      <4> QED
        BY <3>1, <4>1
    <3>2. CASE Climbed(payload, ms, call.level)
      <4>1. words = payload.words
        BY DEF words
      <4> QED
        BY <1>1, <2>1, <3>2, <4>1, ClimbedPass
    <3> QED
      BY <1>2, <3>1, <3>2
  <2>5. ASSUME NEW phase \in {"scan", "tail"}, GoOn([call EXCEPT !.phase = phase, !.ms = r.ms])
        PROVE  KlvInv'
    <3> DEFINE next == [call EXCEPT !.phase = phase, !.ms = r.ms]
    <3>1. next \in Call
      BY <1>1, <2>2, Zenon DEF Call
    <3>2. /\ next.op = "findprev" /\ next.ms = r.ms /\ next.level = call.level
          /\ next.phase = phase
      BY <1>1 DEF Call
    <3> HIDE DEF next
    <3>3. KlvCall(payload, next)
      BY <2>3, <2>4, <3>2 DEF KlvCall
    <3> QED
      BY <2>5, <3>1, <3>3, GoOnKlv DEF next
  <2>6. CASE r.ret = OK
    BY <2>5, <2>6
  <2>7. CASE r.ret = AGAIN
    BY <2>5, <2>7 DEF OK, AGAIN
  <2>8. CASE r.ret \notin {OK, AGAIN}
    BY <1>1, <2>2, <2>3, <2>4, <2>8, LeaveNestKlv
  <2> QED
    BY <2>6, <2>7, <2>8
<1> QED
  BY <1>3, <1>4, <1>5, <1>6

-----------------------------------------------------------------------------
LEMMA NextKlv ==
  ASSUME TypeInv, KlvInv, Sound(payload), [Next]_vars
  PROVE  KlvInv'
<1>1. CASE Start
  BY <1>1, StartKlv
<1>2. CASE Step
  <2>1. ASSUME FindNextAtEnd PROVE KlvInv'
    BY <2>1, RestoreKlv DEF FindNextAtEnd, Running
  <2> QED
    BY <1>2, <2>1, InitKlv, WalkKlv, FindPrevOverrunKlv, FindPrevRewindKlv,
       FindPrevKlv, SeekKlv, CountKlv DEF Step
<1>3. CASE UNCHANGED vars
  BY <1>3 DEF vars, KlvInv, payload
<1> QED
  BY <1>1, <1>2, <1>3 DEF Next

LEMMA BufferKept == ASSUME [Next]_vars PROVE payload' = payload
<1>1. buffer' = buffer
  BY DEF Next, vars, Start, Step, StartInit, ResetState, CopyState, StartSeek, StartCount,
         StartNext, StartFindNext, StartFindPrev, Begin, InitHop, InitEnd, NextPass,
         FindNextAtEnd, FindNextPass, FindPrevRefuse, FindPrevOverrun, FindPrevRewind,
         FindPrevFound, FindPrevExhausted, FindPrevPass, SeekStart, SeekOpen, SeekPass, CountPass,
         LeaveNest, Restore, Finish, GoOn
<1> QED
  BY <1>1 DEF payload

(* On every sound payload, however deep its nests and whatever calls are    *)
(* made on however many cursors: a live cursor is on an entry or at the     *)
(* end, and nest_level, nest_size and last_level_pos are those of that      *)
(* place, through climbs out of several nests at once, failed searches that *)
(* are undone, tolerated types and copies.                                  *)
THEOREM CursorsOnKlv == Spec => []CursorOnKlv
<1>1. Init => SoundInv
  <2> SUFFICES ASSUME Init PROVE SoundInv
    OBVIOUS
  <2>1. KlvInv
    BY IdleCall DEF Init, KlvInv, KlvAt, KlvCall
  <2> QED
    BY <2>1, InitTyped DEF SoundInv
<1>2. SoundInv /\ [Next]_vars => SoundInv'
  <2> SUFFICES ASSUME SoundInv, [Next]_vars PROVE SoundInv'
    OBVIOUS
  <2>1. TypeInv' /\ payload' = payload
    BY NextTyped, BufferKept DEF SoundInv
  <2> QED
    BY <2>1, NextKlv DEF SoundInv
<1>3. SoundInv => CursorOnKlv
  BY DEF SoundInv, KlvInv, KlvAt, CursorOnKlv
<1> QED
  BY <1>1, <1>2, <1>3, PTL DEF Spec

-----------------------------------------------------------------------------
(***************************************************************************)
(* CursorInBuffer for every payload, whatever is damaged inside its DEVCs. *)
(* A stream walks along the row of DEVCs or has room for every nest it has *)
(* opened.  GPMF_FindPrev keeps the nests around it in last_level_pos only *)
(* until it falls out to level 0, and from there it never comes back with  *)
(* a cursor that may be walked on.                                         *)
(***************************************************************************)
Headed(w, ms) == 2 <= ms.bound /\ w[0].key = DEVC

RoomAt(w, ms) == WholeDevices(w, ms.bound) => InRoom(w, ms)

RoomKept(w, state, ms) ==
  /\ state # "raw" => Headed(w, ms)
  /\ state = "live" => RoomAt(w, ms)

RoomCall(w, cl) ==
  /\ cl.op = "init" => cl.mark = 0 \/ (2 <= cl.mark /\ w[0].key = DEVC)
  /\ cl.op \notin {"none", "init"} => Headed(w, cl.ms)
  /\ cl.op \in {"next", "findnext", "seek"} => RoomAt(w, cl.ms)
  /\ cl.op = "findprev" =>
       /\ cl.phase = "start" => cl.level = cl.ms.nest_level
       /\ WholeDevices(w, cl.ms.bound) =>
            \/ cl.ms.nest_level = 0
            \/ HasRoom(cl.ms) /\ OpenedBefore(cl.ms, cl.level)

RoomInv ==
  /\ \A c \in Cursors : RoomKept(words, life[c], cur[c])
  /\ RoomCall(words, call)

LEMMA BeginRoom ==
  ASSUME TypeInv, RoomInv, NEW op, NEW c \in Cursors, NEW key, NEW flags, NEW ms, NEW level,
         Begin(op, c, key, flags, ms, level),
         op # "init" => life[c] = "live" /\ ms = cur[c],
         op = "findprev" => level = ms.nest_level
  PROVE  RoomInv'
<1>1. call' = [Idle EXCEPT !.op = op, !.on = c, !.key = key, !.flags = flags,
                           !.ms = ms, !.level = level]
  BY DEF Begin
<1>2. /\ call'.op = op /\ call'.ms = ms /\ call'.level = level
      /\ call'.phase = "start" /\ call'.mark = 0
  BY <1>1 DEF Idle
<1>3. op # "init" => Headed(words, ms) /\ RoomAt(words, ms)
  BY DEF RoomInv, RoomKept
<1>4. op # "init" /\ WholeDevices(words, ms.bound) =>
        ms.nest_level = 0 \/ (HasRoom(ms) /\ OpenedBefore(ms, ms.nest_level))
  BY <1>3 DEF RoomAt, InRoom, OnRow
<1>5. RoomCall(words, call')
  BY <1>2, <1>3, <1>4 DEF RoomCall
<1>6. words' = words /\ UNCHANGED <<cur, life>>
  BY DEF Begin, payload, words
<1> QED
  BY <1>5, <1>6 DEF RoomInv

LEMMA GoOnRoom ==
  ASSUME TypeInv, RoomInv, NEW next \in Call, GoOn(next), RoomCall(words, next)
  PROVE  RoomInv'
<1> DEFINE turned == [next EXCEPT !.turn = 1 - next.turn]
<1>1. call' = turned /\ UNCHANGED <<buffer, cur, life>>
  BY DEF GoOn
<1>2. /\ turned.op = next.op /\ turned.ms = next.ms /\ turned.level = next.level
      /\ turned.phase = next.phase /\ turned.mark = next.mark
  BY DEF Call
<1> HIDE DEF turned
<1>3. RoomCall(words, call')
  BY <1>1, <1>2 DEF RoomCall
<1>4. words' = words
  BY <1>1 DEF payload, words
<1> QED
  BY <1>1, <1>3, <1>4 DEF RoomInv

LEMMA FinishRoom ==
  ASSUME TypeInv, RoomInv, NEW code, NEW ms, NEW state, Finish(code, ms, state),
         RoomKept(words, state, ms)
  PROVE  RoomInv'
<1>1. /\ cur' = [cur EXCEPT ![call.on] = ms]
      /\ life' = [life EXCEPT ![call.on] = state]
      /\ call' = Idle /\ words' = words
  BY DEF Finish, payload, words
<1>2. RoomCall(words, Idle)
  BY IdleCall DEF RoomCall
<1>3. \A c \in Cursors : RoomKept(words, life'[c], cur'[c])
  BY <1>1 DEF RoomInv, TypeInv, TypeOK
<1> QED
  BY <1>1, <1>2, <1>3 DEF RoomInv

LEMMA RestoreRoom ==
  ASSUME TypeInv, RoomInv, call.op \notin {"none", "init"}, NEW code, Restore(code)
  PROVE  RoomInv'
<1>1. call.on \in Cursors /\ life[call.on] = "live"
  BY DEF TypeInv, TypeOK, Call, CallFits
<1>2. RoomKept(words, "live", cur[call.on])
  BY <1>1 DEF RoomInv
<1> QED
  BY <1>2, FinishRoom DEF Restore

(* The running call, on with another stream and maybe in another phase.     *)
LEMMA CarryOnRoom ==
  ASSUME TypeInv, RoomInv, NEW ms, Usable(ms), Headed(words, ms),
         call.op \in {"next", "findnext", "seek", "count"},
         call.op # "count" => RoomAt(words, ms),
         NEW phase \in {"start", "open", "scan", "tail"}, NEW count \in Nat,
         \/ GoOn([call EXCEPT !.ms = ms])
         \/ GoOn([call EXCEPT !.phase = phase, !.ms = ms])
         \/ GoOn([call EXCEPT !.ms = ms, !.count = count])
  PROVE  RoomInv'
<1>1. call \in Call /\ ms \in Stream
  BY DEF TypeInv, TypeOK, Usable
<1>2. ASSUME NEW next \in Call, next.op = call.op, next.ms = ms, GoOn(next)
      PROVE  RoomInv'
  <2>1. RoomCall(words, next)
    BY <1>2 DEF RoomCall
  <2> QED
    BY <1>2, <2>1, GoOnRoom
<1>3. CASE GoOn([call EXCEPT !.ms = ms])
  <2> DEFINE next == [call EXCEPT !.ms = ms]
  <2>1. next \in Call
    BY <1>1, Zenon DEF Call
  <2>2. next.op = call.op /\ next.ms = ms
    BY <1>1 DEF Call
  <2> HIDE DEF next
  <2> QED
    BY <1>2, <1>3, <2>1, <2>2 DEF next
<1>4. CASE GoOn([call EXCEPT !.phase = phase, !.ms = ms])
  <2> DEFINE next == [call EXCEPT !.phase = phase, !.ms = ms]
  <2>1. next \in Call
    BY <1>1, Zenon DEF Call
  <2>2. next.op = call.op /\ next.ms = ms
    BY <1>1 DEF Call
  <2> HIDE DEF next
  <2> QED
    BY <1>2, <1>4, <2>1, <2>2 DEF next
<1>5. CASE GoOn([call EXCEPT !.ms = ms, !.count = count])
  <2> DEFINE next == [call EXCEPT !.ms = ms, !.count = count]
  <2>1. next \in Call
    BY <1>1, Zenon DEF Call
  <2>2. next.op = call.op /\ next.ms = ms
    BY <1>1 DEF Call
  <2> HIDE DEF next
  <2> QED
    BY <1>2, <1>5, <2>1, <2>2 DEF next
<1> QED
  BY <1>3, <1>4, <1>5

(* A pass on the stream of the running call.                                *)
LEMMA PassRoom ==
  ASSUME TypeInv, RoomInv, call.op \notin {"none", "init"}, NEW flags,
         NEW r \in GPMF_Next(words, call.ms, flags)
  PROVE  /\ r.ms.bound = call.ms.bound /\ Headed(words, r.ms)
         /\ r.ret # BAD \/ RECURSE \notin flags => Usable(r.ms)
         /\ RoomAt(words, call.ms) /\ r.ret # BAD => RoomAt(words, r.ms)
<1>1. /\ payload.longs \in Nat
      /\ words \in [0..(payload.longs - 1) -> Word]
      /\ Usable(call.ms) /\ call.ms.bound <= payload.longs
  BY PayloadReads DEF TypeInv, CallFits, Fits
<1>2. /\ r.ms.bound = call.ms.bound
      /\ r.ret # BAD \/ RECURSE \notin flags => Usable(r.ms)
  BY <1>1, NextUsable
<1>3. Headed(words, r.ms)
  BY <1>2 DEF RoomInv, RoomCall, Headed
<1>4. ASSUME RoomAt(words, call.ms), r.ret # BAD, WholeDevices(words, call.ms.bound)
      PROVE  InRoom(words, r.ms)
  BY <1>1, <1>4, NextInRoom DEF RoomAt
<1> QED
  BY <1>2, <1>3, <1>4 DEF RoomAt

LEMMA StartRoom == ASSUME TypeInv, RoomInv, Start PROVE RoomInv'
<1> PICK c \in Cursors :
      \/ StartInit(c)
      \/ ResetState(c)
      \/ \E d \in Cursors \ {c} : CopyState(c, d)
      \/ StartSeek(c)
      \/ StartCount(c)
      \/ \E flags \in Flags :
           \/ StartNext(c, flags)
           \/ \E key \in FindKeys :
                StartFindNext(c, key, flags) \/ StartFindPrev(c, key, flags)
  BY DEF Start
<1>1. RoomKept(words, life[c], cur[c]) /\ cur[c] \in Stream
  BY DEF RoomInv, TypeInv, TypeOK
<1>2. CASE StartInit(c)
  BY <1>2, BeginRoom DEF StartInit
<1>3. CASE ResetState(c)
  <2> DEFINE ms == Rewound(cur[c])
  <2>1. /\ cur' = [cur EXCEPT ![c] = ms] /\ life' = [life EXCEPT ![c] = "live"]
        /\ call' = call /\ words' = words
    BY <1>3 DEF ResetState, payload, words
  <2>2. ms.bound = cur[c].bound /\ cur[c].bound \in Nat
    BY <1>1, RewoundUsable DEF Stream
  <2>3. ms.pos = 0 /\ ms.nest_level = 0
    BY <1>1 DEF Rewound, Stream
  <2> HIDE DEF ms
  <2>4. Headed(words, cur[c])
    BY <1>1, <1>3 DEF RoomKept, ResetState
  <2>5. Headed(words, ms) /\ OnRow(words, ms)
    BY <2>2, <2>3, <2>4 DEF Headed, OnRow
  <2>6. RoomKept(words, "live", ms)
    BY <2>5 DEF RoomKept, RoomAt, InRoom
  <2>7. \A d \in Cursors : RoomKept(words, life'[d], cur'[d])
    BY <2>1, <2>6 DEF RoomInv, TypeInv, TypeOK
  <2> QED
    BY <2>1, <2>7 DEF RoomInv
<1>4. CASE \E d \in Cursors \ {c} : CopyState(c, d)
  <2> PICK d \in Cursors : CopyState(c, d)
    BY <1>4
  <2>1. /\ cur' = [cur EXCEPT ![d] = cur[c]] /\ life' = [life EXCEPT ![d] = life[c]]
        /\ call' = call /\ words' = words
    BY DEF CopyState, payload, words
  <2>2. \A b \in Cursors : RoomKept(words, life'[b], cur'[b])
    BY <1>1, <2>1 DEF RoomInv, TypeInv, TypeOK
  <2> QED
    BY <2>1, <2>2 DEF RoomInv
<1>5. CASE StartSeek(c)
  BY <1>5, BeginRoom DEF StartSeek
<1>6. CASE StartCount(c)
  BY <1>6, BeginRoom DEF StartCount
<1>7. ASSUME NEW flags \in Flags, StartNext(c, flags) PROVE RoomInv'
  BY <1>7, BeginRoom DEF StartNext
<1>8. ASSUME NEW flags \in Flags, NEW key \in FindKeys, StartFindNext(c, key, flags)
      PROVE  RoomInv'
  BY <1>8, BeginRoom DEF StartFindNext
<1>9. ASSUME NEW flags \in Flags, NEW key \in FindKeys, StartFindPrev(c, key, flags)
      PROVE  RoomInv'
  BY <1>9, BeginRoom DEF StartFindPrev
<1> QED
  BY <1>2, <1>3, <1>4, <1>5, <1>6, <1>7, <1>8, <1>9

LEMMA InitRoom == ASSUME TypeInv, RoomInv, InitHop \/ InitEnd PROVE RoomInv'
<1>1. /\ payload.longs \in Nat /\ words \in [0..(payload.longs - 1) -> Word]
      /\ call \in Call /\ call.op = "init" /\ call.mark \in Nat
      /\ call.on \in Cursors
  BY PayloadReads DEF TypeInv, TypeOK, InitHop, InitEnd, Running, Call
<1>2. call.mark = 0 \/ (2 <= call.mark /\ words[0].key = DEVC)
  BY <1>1 DEF RoomInv, RoomCall
<1>3. CASE InitHop
  <2> DEFINE to == call.mark + 2 + SizeAt(words, call.mark)
             next == [call EXCEPT !.mark = to]
  <2>1. call.mark + 1 < payload.longs /\ words[call.mark].key = DEVC
    BY <1>3 DEF InitHop, ChainGoesOn
  <2>2. to \in Nat /\ 2 <= to
    BY <1>1, <2>1, SizeNat
  <2>3. GoOn(next)
    BY <1>3 DEF InitHop
  <2> HIDE DEF to
  <2>4. next \in Call /\ next.op = "init" /\ next.mark = to
    BY <1>1, <2>2 DEF Call
  <2> HIDE DEF next
  <2>5. RoomCall(words, next)
    BY <1>2, <2>1, <2>2, <2>4 DEF RoomCall
  <2> QED
    BY <2>3, <2>4, <2>5, GoOnRoom
<1>4. CASE InitEnd
  <2>1. CASE 0 < call.mark /\ call.mark <= payload.longs
    <3> DEFINE ms == Opened(call.mark)
    <3>1. Finish(OK, ms, "live")
      BY <1>4, <2>1 DEF InitEnd
    <3>2. ms.bound = call.mark /\ ms.pos = 0 /\ ms.nest_level = 0
      BY <1>1 DEF Opened, Blank
    <3> HIDE DEF ms
    <3>3. Headed(words, ms) /\ OnRow(words, ms)
      BY <1>1, <1>2, <2>1, <3>2 DEF Headed, OnRow
    <3>4. RoomKept(words, "live", ms)
      BY <3>3 DEF RoomKept, RoomAt, InRoom
    <3> QED
      BY <3>1, <3>4, FinishRoom
  <2>2. CASE ~(0 < call.mark /\ call.mark <= payload.longs)
    <3>1. Finish(BAD, Blank, "raw")
      BY <1>4, <2>2 DEF InitEnd
    <3>2. RoomKept(words, "raw", Blank)
      BY DEF RoomKept
    <3> QED
      BY <3>1, <3>2, FinishRoom
  <2> QED
    BY <2>1, <2>2
<1> QED
  BY <1>3, <1>4

LEMMA WalkRoom == ASSUME TypeInv, RoomInv, NextPass \/ FindNextPass PROVE RoomInv'
<1>1. RoomAt(words, call.ms) /\ call.op \in {"next", "findnext"}
  BY DEF RoomInv, RoomCall, NextPass, FindNextPass, Running
<1>2. CASE NextPass
  <2> PICK r \in GPMF_Next(words, call.ms, call.flags) :
        IF r.ret = AGAIN THEN GoOn([call EXCEPT !.ms = r.ms])
        ELSE Finish(r.ret, r.ms, IF r.ret = BAD THEN "spent" ELSE "live")
    BY <1>2 DEF NextPass
  <2>1. /\ Headed(words, r.ms)
        /\ r.ret # BAD => Usable(r.ms) /\ RoomAt(words, r.ms)
    BY <1>1, PassRoom
  <2>2. CASE r.ret = AGAIN
    BY <1>1, <2>1, <2>2, CarryOnRoom DEF AGAIN, BAD
  <2>3. CASE r.ret # AGAIN
    BY <2>1, <2>3, FinishRoom DEF RoomKept
  <2> QED
    BY <2>2, <2>3
<1>3. CASE FindNextPass
  <2> PICK r \in GPMF_Next(words, call.ms, call.flags), found \in BOOLEAN :
        /\ found => r.ret = OK
        /\ IF found THEN Finish(OK, r.ms, "live")
           ELSE IF r.ret \in {OK, AGAIN} THEN GoOn([call EXCEPT !.ms = r.ms])
           ELSE Restore(r.ret)
    <3>1. \A q, key : Found(q, key) \subseteq BOOLEAN /\ (q.ret # OK => Found(q, key) = {FALSE})
      BY DEF Found
    <3> QED
      BY <1>3, <3>1 DEF FindNextPass
  <2>1. /\ Headed(words, r.ms)
        /\ r.ret # BAD => Usable(r.ms) /\ RoomAt(words, r.ms)
    BY <1>1, PassRoom
  <2>2. CASE found
    BY <2>1, <2>2, FinishRoom DEF RoomKept, OK, BAD
  <2>3. CASE ~found /\ r.ret \in {OK, AGAIN}
    BY <1>1, <2>1, <2>3, CarryOnRoom DEF OK, AGAIN, BAD
  <2>4. CASE ~found /\ r.ret \notin {OK, AGAIN}
    BY <1>1, <2>4, RestoreRoom
  <2> QED
    BY <2>2, <2>3, <2>4
<1> QED
  BY <1>2, <1>3

LEMMA SeekRoom ==
  ASSUME TypeInv, RoomInv, SeekStart \/ SeekOpen \/ SeekPass
  PROVE  RoomInv'
<1>1. RoomAt(words, call.ms) /\ Headed(words, call.ms) /\ call.op = "seek" /\ Usable(call.ms)
  BY DEF RoomInv, RoomCall, SeekStart, SeekOpen, SeekPass, Running, TypeInv, CallFits
<1>2. CASE SeekStart
  <2>1. CASE call.ms.pos + 1 >= call.ms.bound
    BY <1>1, <1>2, <2>1, RestoreRoom DEF SeekStart
  <2>2. CASE ~(call.ms.pos + 1 >= call.ms.bound)
    <3> PICK phase \in {"open", "scan"} : GoOn([call EXCEPT !.phase = phase])
      BY <1>2, <2>2 DEF SeekStart
    <3>1. call \in Call
      BY DEF TypeInv, TypeOK
    <3>2. [call EXCEPT !.phase = phase] = [call EXCEPT !.phase = phase, !.ms = call.ms]
      BY <3>1 DEF Call
    <3> QED
      BY <1>1, <3>2, CarryOnRoom
  <2> QED
    BY <2>1, <2>2
<1>3. CASE SeekOpen
  <2> PICK r \in GPMF_Next(words, call.ms, {RECURSE, TOLERANT}) :
        CASE r.ret = OK    -> GoOn([call EXCEPT !.phase = "scan", !.ms = r.ms])
          [] r.ret = AGAIN -> GoOn([call EXCEPT !.ms = r.ms])
          [] OTHER         -> Restore(r.ret)
    BY <1>3 DEF SeekOpen
  <2>1. Headed(words, r.ms) /\ (r.ret # BAD => Usable(r.ms) /\ RoomAt(words, r.ms))
    BY <1>1, PassRoom
  <2>2. /\ r.ret = OK => GoOn([call EXCEPT !.phase = "scan", !.ms = r.ms])
        /\ r.ret = AGAIN => GoOn([call EXCEPT !.ms = r.ms])
        /\ r.ret \notin {OK, AGAIN} => Restore(r.ret)
    BY DEF OK, AGAIN
  <2>3. CASE r.ret \in {OK, AGAIN}
    BY <1>1, <2>1, <2>2, <2>3, CarryOnRoom DEF OK, AGAIN, BAD
  <2>4. CASE r.ret \notin {OK, AGAIN}
    BY <1>1, <2>2, <2>4, RestoreRoom
  <2> QED
    BY <2>3, <2>4
<1>4. CASE SeekPass
  <2> PICK r \in GPMF_Next(words, call.ms, {TOLERANT}) :
        LET verdict == IF r.ret = OK THEN Judge(r.ms) ELSE r.ret
        IN CASE verdict = OK    -> Finish(OK, r.ms, "live")
             [] verdict = AGAIN -> GoOn([call EXCEPT !.ms = r.ms])
             [] OTHER           -> Restore(verdict)
    BY <1>4 DEF SeekPass
  <2> DEFINE verdict == IF r.ret = OK THEN Judge(r.ms) ELSE r.ret
  <2>1. Headed(words, r.ms) /\ (r.ret # BAD => Usable(r.ms) /\ RoomAt(words, r.ms))
    BY <1>1, PassRoom
  <2>2. verdict \in {OK, AGAIN} => r.ret # BAD
    BY DEF OK, AGAIN, BAD
  <2>3. /\ verdict = OK => Finish(OK, r.ms, "live")
        /\ verdict = AGAIN => GoOn([call EXCEPT !.ms = r.ms])
        /\ verdict \notin {OK, AGAIN} => Restore(verdict)
    BY DEF OK, AGAIN
  <2> HIDE DEF verdict
  <2>4. CASE verdict = OK
    BY <2>1, <2>2, <2>3, <2>4, FinishRoom DEF RoomKept
  <2>5. CASE verdict = AGAIN
    BY <1>1, <2>1, <2>2, <2>3, <2>5, CarryOnRoom
  <2>6. CASE verdict \notin {OK, AGAIN}
    BY <1>1, <2>3, <2>6, RestoreRoom
  <2> QED
    BY <2>4, <2>5, <2>6
<1> QED
  BY <1>2, <1>3, <1>4

LEMMA CountRoom == ASSUME TypeInv, RoomInv, CountPass PROVE RoomInv'
<1> PICK r \in GPMF_Next(words, call.ms, call.flags), n \in {call.count + 1, 2} :
      \/ GoOn([call EXCEPT !.ms = r.ms, !.count = n]) /\ r.ret = OK
      \/ GoOn([call EXCEPT !.ms = r.ms]) /\ r.ret \in {OK, AGAIN}
      \/ call' = Idle /\ UNCHANGED <<buffer, cur, life>>
  <2>1. \A q, key : Found(q, key) \subseteq BOOLEAN /\ (q.ret # OK => Found(q, key) = {FALSE})
    BY DEF Found
  <2> QED
    BY <2>1 DEF CountPass
<1>1. call.op = "count" /\ n \in Nat
  BY DEF TypeInv, TypeOK, Call, CountPass, Running
<1>2. Headed(words, r.ms) /\ (r.ret # BAD => Usable(r.ms))
  BY <1>1, PassRoom
<1>3. CASE \/ GoOn([call EXCEPT !.ms = r.ms, !.count = n]) /\ r.ret = OK
           \/ GoOn([call EXCEPT !.ms = r.ms]) /\ r.ret \in {OK, AGAIN}
  BY <1>1, <1>2, <1>3, CarryOnRoom DEF OK, AGAIN, BAD
<1>4. CASE call' = Idle /\ UNCHANGED <<buffer, cur, life>>
  <2>1. RoomCall(words, Idle) /\ words' = words
    BY <1>4, IdleCall DEF RoomCall, payload, words
  <2> QED
    BY <1>4, <2>1 DEF RoomInv
<1> QED
  BY <1>3, <1>4

-----------------------------------------------------------------------------
(* Where GPMF_FindPrev may be while it goes back from nest to nest.         *)
SearchedIn(ms, level) ==
  WholeDevices(words, ms.bound) =>
    ms.nest_level = 0 \/ (HasRoom(ms) /\ OpenedBefore(ms, level))

LEMMA SearchRoom ==
  ASSUME TypeInv, RoomInv, NEW next \in Call, next.op = "findprev", next.phase # "start",
         Headed(words, next.ms), SearchedIn(next.ms, next.level), GoOn(next)
  PROVE  RoomInv'
<1>1. RoomCall(words, next)
  BY DEF RoomCall, SearchedIn
<1> QED
  BY <1>1, GoOnRoom

LEMMA LeaveNestRoom ==
  ASSUME TypeInv, RoomInv, call.op = "findprev", NEW ms, Usable(ms), Headed(words, ms),
         SearchedIn(ms, call.level), LeaveNest(ms)
  PROVE  RoomInv'
<1>1. CASE RECURSE \in call.flags /\ call.level > 1
  <2> DEFINE next == [call EXCEPT !.phase = "open", !.level = call.level - 1, !.ms = ms]
  <2>1. call \in Call /\ call.level - 1 \in Nat /\ call.level \in Nat
    BY <1>1 DEF TypeInv, TypeOK, Call
  <2>2. next \in Call
    BY <2>1, Zenon DEF Call, Usable
  <2>3. /\ next.op = "findprev" /\ next.ms = ms /\ next.level = call.level - 1
        /\ next.phase = "open"
    BY <2>1 DEF Call
  <2>4. GoOn(next)
    BY <1>1 DEF LeaveNest
  <2> HIDE DEF next
  <2>5. OpenedBefore(ms, call.level) => OpenedBefore(ms, call.level - 1)
    <3>1. 0..((call.level - 1) - 1) \subseteq 0..(call.level - 1)
      BY <2>1
    <3> QED
      BY <3>1 DEF OpenedBefore
  <2>6. SearchedIn(ms, call.level - 1)
    BY <2>5 DEF SearchedIn
  <2> QED
    BY <2>2, <2>3, <2>4, <2>6, SearchRoom
<1>2. CASE ~(RECURSE \in call.flags /\ call.level > 1)
  BY <1>2, RestoreRoom DEF LeaveNest
<1> QED
  BY <1>1, <1>2

LEMMA FindPrevOverrunRoom == ASSUME TypeInv, RoomInv, FindPrevOverrun PROVE RoomInv'
<1>1. PICK code \in {OK, FIND} : Finish(code, Blank, "raw")
  BY DEF FindPrevOverrun
<1> QED
  BY <1>1, FinishRoom DEF RoomKept

LEMMA FindPrevRewindRoom == ASSUME TypeInv, RoomInv, FindPrevRewind PROVE RoomInv'
<1> DEFINE ms    == call.ms
           level == call.level
           first == ms.last_level_pos[level - 1] + 2
           size  == (ms.nest_size[level] + ms.pos - first) % Modulus
           sizes == [ms.nest_size EXCEPT ![level] = size]
           back  == [ms EXCEPT !.pos = first, !.nest_size[level] = size]
           next  == [call EXCEPT !.phase = "scan", !.mark = ms.pos, !.ms = back]
<1>1. /\ call \in Call /\ Usable(ms) /\ ms \in Stream /\ call.op = "findprev"
  BY DEF TypeInv, TypeOK, CallFits, Usable, FindPrevRewind, Running
<1>2. level # 0 /\ level \in Levels /\ level \in Nat /\ level - 1 \in Slots
  <2>1. level # 0 /\ level \in Levels
    BY DEF TypeInv, CallFits, FindPrevRewind, Running, Rewinds, NothingBehind
  <2> QED
    BY <2>1, LimitAssumption DEF Levels, Slots
<1>3. ms.pos \in Nat /\ first \in Nat /\ ms.nest_size \in [Levels -> Nat]
      /\ ms.nest_level \in Levels /\ ms.last_level_pos \in [Slots -> Nat]
  BY <1>1, <1>2, UsableFields
<1>4. size \in Nat
  <2>1. ms.nest_size[level] + ms.pos - first \in Int
    BY <1>2, <1>3
  <2> HIDE DEF first
  <2> QED
    BY <2>1, LimitAssumption
<1>5. GoOn(next)
  BY DEF FindPrevRewind
<1>6. /\ back.pos = first /\ back.nest_level = ms.nest_level /\ back.nest_size = sizes
      /\ back.last_level_pos = ms.last_level_pos /\ back.bound = ms.bound
  BY <1>1 DEF Stream
<1>7. /\ sizes \in [Levels -> Nat] /\ sizes[level] = size
      /\ \A l \in Levels : l # level => sizes[l] = ms.nest_size[l]
  BY <1>2, <1>3, <1>4
<1>8. Usable(back)
  <2>1. back = Booked(ms, first, ms.nest_level, ms.last_level_pos, sizes)
    BY <1>1 DEF Booked, Stream
  <2> HIDE DEF back, sizes, first, ms
  <2> QED
    BY <1>1, <1>3, <1>7, <2>1, BookedUsable
<1>9. Headed(words, back) /\ SearchedIn(ms, level)
  BY <1>1, <1>6 DEF RoomInv, RoomCall, Headed, SearchedIn
<1> HIDE DEF back, sizes
<1>10. SearchedIn(back, level)
  <2>1. ASSUME HasRoom(ms), OpenedBefore(ms, level) PROVE HasRoom(back) /\ OpenedBefore(back, level)
    <3>1. /\ back.pos = ms.last_level_pos[level - 1] + 2
          /\ back.nest_size[level] = (ms.nest_size[level] + ms.pos - back.pos) % Modulus
      BY <1>6, <1>7
    <3>2. \A l \in Levels : l # level => back.nest_size[l] = ms.nest_size[l]
      BY <1>6, <1>7
    <3> HIDE DEF ms, level, first, size
    <3> QED
      BY <1>1, <1>2, <1>6, <1>8, <2>1, <3>1, <3>2, RewindRoom
  <2> QED
    BY <1>6, <1>9, <2>1 DEF SearchedIn
<1> HIDE DEF first, size
<1>11. next \in Call
  BY <1>1, <1>3, <1>8, Zenon DEF Call, Usable
<1>12. next.op = "findprev" /\ next.ms = back /\ next.level = level /\ next.phase = "scan"
  BY <1>1 DEF Call
<1> HIDE DEF next
<1> QED
  BY <1>5, <1>9, <1>10, <1>11, <1>12, SearchRoom

LEMMA FindPrevRoom ==
  ASSUME TypeInv, RoomInv,
         FindPrevRefuse \/ FindPrevFound \/ FindPrevExhausted \/ FindPrevPass
  PROVE  RoomInv'
<1> DEFINE ms == call.ms
<1>1. /\ call \in Call /\ Usable(ms) /\ call.op = "findprev" /\ call.level \in Levels
      /\ Headed(words, ms) /\ SearchedIn(ms, call.level)
  BY DEF TypeInv, TypeOK, CallFits, FindPrevRefuse, FindPrevFound, FindPrevExhausted,
         FindPrevPass, Running, RoomInv, RoomCall, SearchedIn
<1>2. CASE FindPrevRefuse
  BY <1>1, <1>2, RestoreRoom DEF FindPrevRefuse
<1>3. CASE FindPrevFound
  <2>1. call.level > 0
    BY <1>1, <1>3 DEF TypeInv, CallFits, FindPrevFound
  <2>2. call.level = ms.nest_level => RoomAt(words, ms)
    BY <1>1, <2>1 DEF SearchedIn, RoomAt, InRoom
  <2>3. RoomKept(words, IF call.level = ms.nest_level THEN "live" ELSE "spent", ms)
    BY <1>1, <2>2 DEF RoomKept
  <2> QED
    BY <1>3, <2>3, FinishRoom DEF FindPrevFound
<1>4. CASE FindPrevExhausted
  BY <1>1, <1>4, LeaveNestRoom DEF FindPrevExhausted
<1>5. CASE FindPrevPass
  <2> PICK r \in GPMF_Next(words, ms, call.flags \ {RECURSE}) :
        CASE r.ret = OK    -> GoOn([call EXCEPT !.phase = "scan", !.ms = r.ms])
          [] r.ret = AGAIN -> GoOn([call EXCEPT !.phase = "tail", !.ms = r.ms])
          [] OTHER         -> LeaveNest(r.ms)
    BY <1>5 DEF FindPrevPass
  <2>1. Usable(r.ms) /\ r.ms \in Stream /\ Headed(words, r.ms) /\ r.ms.bound = ms.bound
    BY <1>1, PassTyped, PassRoom
  <2>2. SearchedIn(r.ms, call.level)
    <3> SUFFICES ASSUME WholeDevices(words, ms.bound)
                 PROVE  r.ms.nest_level = 0 \/ (HasRoom(r.ms) /\ OpenedBefore(r.ms, call.level))
      BY <2>1 DEF SearchedIn
    <3>1. /\ payload.longs \in Nat /\ words \in [0..(payload.longs - 1) -> Word]
          /\ ms.bound <= payload.longs
      BY PayloadReads DEF TypeInv, CallFits, Fits
    <3>2. CASE ms.nest_level = 0
      BY <1>1, <3>1, <3>2, NextOutermost
    <3>3. CASE ms.nest_level # 0
      <4>1. Onward(ms, r.ms)
        BY <1>1, <3>1, <3>3, NextOnward
      <4>2. HasRoom(ms) /\ OpenedBefore(ms, call.level)
        BY <1>1, <3>3 DEF SearchedIn
      <4> QED
        BY <1>1, <4>1, <4>2, OnwardInRoom DEF Onward
    <3> QED
      BY <3>2, <3>3
  <2>3. ASSUME NEW phase \in {"scan", "tail"}, GoOn([call EXCEPT !.phase = phase, !.ms = r.ms])
        PROVE  RoomInv'
    <3> DEFINE next == [call EXCEPT !.phase = phase, !.ms = r.ms]
    <3>1. next \in Call
      BY <1>1, <2>1, Zenon DEF Call
    <3>2. /\ next.op = "findprev" /\ next.ms = r.ms /\ next.level = call.level
          /\ next.phase = phase
      BY <1>1 DEF Call
    <3> HIDE DEF next
    <3> QED
      BY <2>1, <2>2, <2>3, <3>1, <3>2, SearchRoom DEF next
  <2>4. CASE r.ret = OK
    BY <2>3, <2>4
  <2>5. CASE r.ret = AGAIN
    BY <2>3, <2>5 DEF OK, AGAIN
  <2>6. CASE r.ret \notin {OK, AGAIN}
    BY <1>1, <2>1, <2>2, <2>6, LeaveNestRoom
  <2> QED
    BY <2>4, <2>5, <2>6
<1> QED
  BY <1>2, <1>3, <1>4, <1>5

(* On every payload, whatever is damaged in its DEVCs, through every call   *)
(* and every copy: the bound of a stream is inside the payload, and as long *)
(* as the DEVCs up to it are whole a live cursor is inside the bound.  In   *)
(* damaged nests that is not the work of any one check: it is that what     *)
(* every level may still take was taken from the level around it.           *)
THEOREM CursorsInBuffer == Spec => []CursorInBuffer
<1>1. Init => TypeInv /\ RoomInv
  <2> SUFFICES ASSUME Init PROVE TypeInv /\ RoomInv
    OBVIOUS
  <2>1. RoomInv
    BY IdleCall DEF Init, RoomInv, RoomKept, RoomCall
  <2> QED
    BY <2>1, InitTyped
<1>2. TypeInv /\ RoomInv /\ [Next]_vars => TypeInv' /\ RoomInv'
  <2> SUFFICES ASSUME TypeInv, RoomInv, [Next]_vars PROVE TypeInv' /\ RoomInv'
    OBVIOUS
  <2>1. ASSUME Start PROVE RoomInv'
    BY <2>1, StartRoom
  <2>2. ASSUME Step PROVE RoomInv'
    <3>1. ASSUME FindNextAtEnd PROVE RoomInv'
      BY <3>1, RestoreRoom DEF FindNextAtEnd, Running
    <3> QED
      BY <2>2, <3>1, InitRoom, WalkRoom, FindPrevOverrunRoom, FindPrevRewindRoom,
         FindPrevRoom, SeekRoom, CountRoom DEF Step
  <2>3. ASSUME UNCHANGED vars PROVE RoomInv'
    BY <2>3 DEF vars, RoomInv, payload, words
  <2>4. RoomInv'
    BY <2>1, <2>2, <2>3 DEF Next
  <2> QED
    BY <2>4, NextTyped
<1>3. TypeInv /\ RoomInv => CursorInBuffer
  <2> SUFFICES ASSUME TypeInv, RoomInv, NEW c \in Cursors, life[c] = "live",
                      WholeDevices(words, cur[c].bound)
               PROVE  cur[c].pos <= cur[c].bound
    BY DEF CursorInBuffer, TypeInv, CursorsFit, Fits
  <2>1. Usable(cur[c]) /\ InRoom(words, cur[c])
    BY DEF TypeInv, CursorsFit, RoomInv, RoomKept, RoomAt
  <2> QED
    BY <2>1, InRoomFits
<1> QED
  BY <1>1, <1>2, <1>3, PTL DEF Spec

-----------------------------------------------------------------------------
(* The device an entry is in, and the entries in it that name it.           *)

(* An entry that starts inside another one starts behind its header.        *)
LEMMA StartsInside ==
  ASSUME NEW p, Outlined(p), NEW i \in p.items, NEW j \in p.items, i < j, j < EndOf(p, i)
  PROVE  /\ IsNest(p, i) /\ i + 2 <= j
         /\ ~IsDevice(p, j) /\ p.up[j] \in i..(j - 1)
<1>1. IsNest(p, i) /\ p.up[j] \in i..(j - 1)
  BY DEF Outlined, Sound, Laminar
<1>2. i \in Nat /\ j \in Nat
  BY ItemFacts
<1>3. ~IsDevice(p, j)
  BY <1>1, <1>2 DEF IsDevice
<1>4. p.up[j] + 2 <= j /\ p.up[j] \in Nat
  BY <1>3, InnerFacts, ItemFacts
<1> QED
  BY <1>1, <1>2, <1>3, <1>4

LEMMA DeviceAroundIs ==
  ASSUME NEW p, Outlined(p), NEW i \in p.items
  PROVE  LET d == DeviceAround(p, i)
         IN /\ d \in p.items /\ IsDevice(p, d) /\ d <= i
            /\ \A e \in p.items : IsDevice(p, e) /\ e <= i => e <= d
<1> DEFINE S == {d \in p.items : IsDevice(p, d) /\ d <= i}
<1>1. i \in Nat /\ 0 \in p.items /\ IsDevice(p, 0) /\ \A d \in p.items : d \in Nat
  BY ItemFacts DEF Outlined, Sound, DeviceChain
<1>2. S \in SUBSET (0..i) /\ S # {}
  <2>1. 0 \in S
    BY <1>1
  <2> QED
    BY <1>1, <2>1
<1>3. PICK x \in S : \A y \in S : y <= x
  <2> HIDE DEF S
  <2> QED
    BY <1>1, <1>2, BoundedMax
<1>4. \E d \in p.items : /\ IsDevice(p, d) /\ d <= i
                         /\ \A e \in p.items : IsDevice(p, e) /\ e <= i => e <= d
  BY <1>3
<1> QED
  BY <1>4 DEF DeviceAround

LEMMA SameDevice ==
  ASSUME NEW p, Outlined(p), NEW i \in p.items, NEW j \in p.items, i <= j,
         \A e \in p.items : IsDevice(p, e) /\ e <= j => e <= i
  PROVE  DeviceAround(p, j) = DeviceAround(p, i)
<1> DEFINE d == DeviceAround(p, i)
           f == DeviceAround(p, j)
<1>1. /\ d \in p.items /\ IsDevice(p, d) /\ d <= i
      /\ \A e \in p.items : IsDevice(p, e) /\ e <= i => e <= d
  BY DeviceAroundIs
<1>2. /\ f \in p.items /\ IsDevice(p, f) /\ f <= j
      /\ \A e \in p.items : IsDevice(p, e) /\ e <= j => e <= f
  BY DeviceAroundIs
<1> HIDE DEF d, f
<1>3. d \in Nat /\ f \in Nat /\ i \in Nat /\ j \in Nat
  BY <1>1, <1>2, ItemFacts
<1>4. f <= d /\ d <= f
  BY <1>1, <1>2, <1>3
<1>5. d = f
  BY <1>3, <1>4
<1> QED
  BY <1>5 DEF d, f

(* What a device holds is in it.                                            *)
LEMMA DeviceOfChild ==
  ASSUME NEW p, Outlined(p), NEW j \in p.items, ~IsDevice(p, j), IsDevice(p, p.up[j])
  PROVE  DeviceAround(p, j) = p.up[j]
<1> DEFINE u == p.up[j]
           d == DeviceAround(p, j)
<1>1. u \in p.items /\ u + 2 <= j /\ EndOf(p, j) <= EndOf(p, u)
  BY InnerFacts
<1>2. /\ d \in p.items /\ IsDevice(p, d) /\ d <= j
      /\ \A e \in p.items : IsDevice(p, e) /\ e <= j => e <= d
  BY DeviceAroundIs
<1> HIDE DEF u, d
<1>3. u \in Nat /\ d \in Nat /\ j \in Nat /\ EndOf(p, j) \in Nat /\ EndOf(p, u) \in Nat
      /\ j + 2 <= EndOf(p, j)
  BY <1>1, <1>2, ItemFacts
<1>4. u <= d /\ d < EndOf(p, u)
  BY <1>1, <1>2, <1>3 DEF u
<1>5. ~(u < d)
  BY <1>1, <1>2, <1>4, StartsInside
<1>6. u = d
  BY <1>3, <1>4, <1>5
<1> QED
  BY <1>6 DEF u, d

(* The entries that name the device, seen by a walk that goes on.           *)
LEMMA PassedGrows ==
  ASSUME NEW p, Outlined(p), NEW i \in p.items, NEW t \in p.items, i <= t, NEW key,
         \A e \in p.items : IsDevice(p, e) /\ e <= t => e <= i,
         \A j \in p.items : i < j /\ j < t => p.up[j] # DeviceAround(p, i)
  PROVE  Passed(p, key, t) =
           Passed(p, key, i) \union
           {j \in {t} : /\ p.up[j] = DeviceAround(p, i) /\ j # p.up[j]
                        /\ KeyOf(p, j) = key /\ Known(p, j)}
<1>1. DeviceAround(p, t) = DeviceAround(p, i)
  BY SameDevice
<1>2. i \in Nat /\ t \in Nat /\ \A j \in p.items : j \in Nat
  BY ItemFacts
<1>3. \A j \in p.items : p.up[j] = DeviceAround(p, i) => (j <= t <=> j <= i \/ j = t)
  BY <1>2
<1> QED
  BY <1>1, <1>3 DEF Passed

LEMMA LatestIs ==
  ASSUME NEW S, S \subseteq Nat, NEW m \in S, \A j \in S : j <= m
  PROVE  Latest(S) = m
<1>1. \A n \in S : (\A j \in S : j <= n) => n = m
  <2> TAKE n \in S
  <2>1. n <= m /\ n \in Nat /\ m \in Nat
    OBVIOUS
  <2> QED
    BY <2>1
<1>2. /\ (CHOOSE i \in S : \A j \in S : j <= i) \in S
      /\ \A j \in S : j <= (CHOOSE i \in S : \A k \in S : k <= i)
  OBVIOUS
<1> QED
  BY <1>1, <1>2 DEF Latest

(* A stream at an entry names the device of the entry.                      *)
Named(p, ms) ==
  LET ids   == Passed(p, DVID, ms.pos)
      names == Passed(p, DVNM, ms.pos)
  IN /\ ids # {} => ms.device_id = p.words[Latest(ids) + 2]
     /\ names # {} => ms.device_name = NameAt(p.words, Latest(names))

NamedAt(p, ms) == ms.pos \in p.items => Named(p, ms)

(* The same names as those of another stream.                               *)
SameNames(ms, q) == q.device_id = ms.device_id /\ q.device_name = ms.device_name

(* A pass takes the names along until it lands.                             *)
LEMMA AdvanceKeepsNames ==
  ASSUME NEW w, NEW ms \in Stream, NEW flags
  PROVE  SameNames(ms, Advance(w, ms, flags).ms)
<1> DEFINE size == SizeAt(w, ms.pos)
<1>1. /\ SameNames(ms, StartDevice(ms, size, flags))
      /\ SameNames(ms, OpenNest(ms, size).ms)
      /\ SameNames(ms, StepOver(ms, size))
      /\ SameNames(ms, ms)
  BY DEF SameNames, StartDevice, OpenNest, StepOver, Result, Stream
<1> HIDE DEF size
<1> QED
  BY <1>1 DEF Advance, Result, size

LEMMA SettleKeepsNames ==
  ASSUME NEW w, NEW ms, Usable(ms)
  PROVE  SameNames(ms, Settle(w, ms))
<1>1. \A q, limit : Usable(q) => SameNames(q, SkipPadding(w, q, limit))
  BY DEF SameNames, SkipPadding, Usable, Stream
<1>2. \A q : Usable(q) => SameNames(q, PopEmpty(q))
  BY DEF SameNames, PopEmpty, Usable, Stream
<1> DEFINE one == SkipPadding(w, ms, ms.bound)
           two == PopEmpty(one)
<1>3. Usable(one) /\ SameNames(ms, one)
  BY <1>1, SkipPaddingUsable
<1> HIDE DEF one
<1>4. Usable(two) /\ SameNames(one, two)
  BY <1>2, <1>3, PopEmptyUsable
<1> HIDE DEF two
<1>5. SameNames(two, Settle(w, ms))
  BY <1>1, <1>4 DEF Settle, one, two
<1> QED
  BY <1>3, <1>4, <1>5 DEF SameNames

(* What a pass leaves: a stream at the next entry with the names it had and *)
(* what that entry adds to them.                                            *)
LEMMA PassNames ==
  ASSUME NEW p, Outlined(p), NEW ms, Usable(ms), OnKlv(p, ms), ms.pos \in p.items,
         NEW flags, ~LastOfNest(p, ms.pos, flags),
         NEW r \in GPMF_Next(p.words, ms, flags), r.ret # BAD
  PROVE  \E q : /\ Usable(q) /\ SameNames(ms, q) /\ q.bound = p.longs
                /\ q.pos = Into(p, ms.pos, flags) /\ r.ms = WithNames(p, q)
<1> DEFINE i == ms.pos
           step == Advance(p.words, ms, flags)
           q == Settle(p.words, step.ms)
<1>1. ms.bound = p.longs /\ i \in Nat /\ p.longs \in Nat /\ i + 1 < p.longs
      /\ p.words \in [0..(p.longs - 1) -> Word]
  BY UsableFields, ItemFacts DEF OnKlv
<1>2. ~(i + 1 >= ms.bound) /\ IsValidSize(ms, SizeAt(p.words, i))
  <2>1. NearKlv(p, ms)
    BY DEF OnKlv, NearKlv, OnDevice
  <2>2. i + 1 < p.longs /\ IsValidSize(ms, SizeAt(p.words, i))
    BY <1>1, <2>1, ValidOnKlv
  <2> QED
    BY <1>1, <2>2
<1>3. r \in IF step.ret # OK THEN {step} ELSE Land(p.words, q, flags)
  BY <1>2 DEF GPMF_Next
<1>4. /\ step.ret = OK /\ Usable(q) /\ NearKlv(p, q)
      /\ q.pos = Into(p, i, flags)
      /\ OnKlv(p, q) \/ Refused(p, i, flags)
  BY AdvancedOnKlv
<1>5. Usable(step.ms) /\ SameNames(ms, step.ms)
  <2>1. ms \in Stream
    BY DEF Usable
  <2>2. step.ret # BAD => Usable(step.ms)
    BY <1>1, AdvanceUsable
  <2>3. SameNames(ms, step.ms)
    BY <2>1, AdvanceKeepsNames
  <2> HIDE DEF step
  <2> QED
    BY <1>4, <2>2, <2>3 DEF OK, BAD
<1> HIDE DEF step
<1>6. SameNames(ms, q)
  BY <1>5, SettleKeepsNames DEF SameNames
<1> HIDE DEF q
<1>7. OnKlv(p, q)
  <2>1. CASE ~OnKlv(p, q)
    BY <1>3, <1>4, <2>1, LandOnKlv DEF Refused
  <2> QED
    BY <2>1
<1>8. r = Result(Verdict(p, q.pos, flags), WithNames(p, q))
  BY <1>3, <1>4, <1>7, LandOnKlv
<1>9. q.bound = p.longs
  BY <1>7 DEF OnKlv
<1> QED
  BY <1>4, <1>6, <1>8, <1>9 DEF Result

(* No device starts between an entry and the next one of a walk inside a    *)
(* device, and nothing the device itself holds is passed over.              *)
LEMMA NoneSkipped ==
  ASSUME NEW p, Outlined(p), NEW i \in p.items, NEW flags,
         Into(p, i, flags) \in p.items, ~IsDevice(p, Into(p, i, flags))
  PROVE  LET t == Into(p, i, flags)
         IN /\ i < t
            /\ \A e \in p.items : IsDevice(p, e) /\ e <= t => e <= i
            /\ \A j \in p.items : i < j /\ j < t => p.up[j] # DeviceAround(p, i)
<1> DEFINE t == Into(p, i, flags)
           d == DeviceAround(p, i)
<1>1. i \in Nat /\ EndOf(p, i) \in Nat /\ i + 2 <= EndOf(p, i) /\ \A j \in p.items : j \in Nat
  BY ItemFacts
<1>2. t = i + 2 \/ t = EndOf(p, i)
  BY DEF Into
<1>3. \A j \in p.items : i < j /\ j < t =>
         /\ j < EndOf(p, i) /\ ~IsDevice(p, j) /\ p.up[j] \in i..(j - 1) /\ t # i + 2
  <2> TAKE j \in p.items
  <2> HAVE i < j /\ j < t
  <2>1. j < EndOf(p, i)
    BY <1>1, <1>2
  <2>2. ~IsDevice(p, j) /\ p.up[j] \in i..(j - 1) /\ i + 2 <= j
    BY <2>1, StartsInside
  <2> QED
    BY <1>1, <2>1, <2>2
<1>4. \A e \in p.items : IsDevice(p, e) /\ e <= t => e <= i
  <2> TAKE e \in p.items
  <2> HAVE IsDevice(p, e) /\ e <= t
  <2>1. e # t
    OBVIOUS
  <2>2. ~(i < e /\ e < t)
    BY <1>3
  <2> HIDE DEF t
  <2> QED
    BY <1>1, <1>2, <2>1, <2>2
<1>5. \A j \in p.items : i < j /\ j < t => p.up[j] # d
  <2> TAKE j \in p.items
  <2> HAVE i < j /\ j < t
  <2>1. p.up[j] \in i..(j - 1) /\ t # i + 2
    BY <1>3
  <2>2. t = EndOf(p, i)
    BY <1>2, <2>1
  <2>3. ~IsDevice(p, i)
    <3>1. t # p.longs
      <4>1. t \in p.items
        OBVIOUS
      <4> HIDE DEF t
      <4>2. t \in Nat /\ t + 1 < p.longs /\ p.longs \in Nat
        BY <4>1, ItemFacts
      <4> QED
        BY <4>2
    <3> QED
      BY <2>2, <3>1, DeviceFacts
  <2>4. d \in p.items /\ IsDevice(p, d) /\ d <= i
    BY DeviceAroundIs
  <2> HIDE DEF t, d
  <2>5. d # i
    BY <2>3, <2>4
  <2> QED
    BY <1>1, <2>1, <2>4, <2>5
<1> HIDE DEF t
<1>6. i < t
  BY <1>1, <1>2
<1> QED
  BY <1>4, <1>5, <1>6 DEF t

(* Nothing of a device is passed at its start.                              *)
LEMMA NothingPassed ==
  ASSUME NEW p, Outlined(p), NEW d \in p.items, IsDevice(p, d), NEW key
  PROVE  Passed(p, key, d) = {}
<1>1. DeviceAround(p, d) = d
  <2> DEFINE a == DeviceAround(p, d)
  <2>1. a \in p.items /\ a <= d /\ d <= a
    <3>1. d \in Nat
      BY ItemFacts
    <3> QED
      BY <3>1, DeviceAroundIs
  <2> HIDE DEF a
  <2>2. a \in Nat /\ d \in Nat
    BY <2>1, ItemFacts
  <2>3. a = d
    BY <2>1, <2>2
  <2> QED
    BY <2>3 DEF a
<1>2. ASSUME NEW j \in p.items, p.up[j] = d, j # p.up[j], j <= d PROVE FALSE
  <2>1. ~IsDevice(p, j)
    BY <1>2 DEF IsDevice
  <2>2. d + 2 <= j /\ d \in Nat /\ j \in Nat
    BY <1>2, <2>1, InnerFacts, ItemFacts
  <2> QED
    BY <1>2, <2>2
<1> QED
  BY <1>1, <1>2 DEF Passed

(* A pass that goes on names the device of the entry it goes to.            *)
LEMMA NamedPass ==
  ASSUME NEW p, Outlined(p), NamesItself(p), NEW ms, Usable(ms), OnKlv(p, ms), NamedAt(p, ms),
         NEW flags, NEW r \in GPMF_Next(p.words, ms, flags), r.ret # BAD
  PROVE  NamedAt(p, r.ms)
<1> DEFINE i == ms.pos
           t == Into(p, i, flags)
<1>1. \/ r.ms = ms
      \/ i \in p.items /\ ~LastOfNest(p, i, flags) /\ r.ms.pos = t
  BY NextOnKlv DEF Result
<1>2. SUFFICES ASSUME i \in p.items, ~LastOfNest(p, i, flags), r.ms.pos = t, t \in p.items
               PROVE  Named(p, r.ms)
  BY <1>1 DEF NamedAt
<1>3. PICK q : /\ Usable(q) /\ SameNames(ms, q) /\ q.bound = p.longs
               /\ q.pos = t /\ r.ms = WithNames(p, q)
  BY <1>2, PassNames
<1> HIDE DEF t
<1>4. CASE IsDevice(p, t)
  BY <1>2, <1>4, NothingPassed DEF Named
<1>5. CASE ~IsDevice(p, t)
  <2> DEFINE d == DeviceAround(p, i)
             New(key) == {j \in {t} : /\ p.up[j] = d /\ j # p.up[j]
                                      /\ KeyOf(p, j) = key /\ Known(p, j)}
  <2>1. /\ i < t
        /\ \A e \in p.items : IsDevice(p, e) /\ e <= t => e <= i
        /\ \A j \in p.items : i < j /\ j < t => p.up[j] # d
    BY <1>2, <1>5, NoneSkipped DEF t
  <2>2. /\ i \in Nat /\ t \in Nat /\ t + 1 < p.longs /\ EndOf(p, t) <= p.longs
        /\ SizeAt(p.words, t) \in Nat /\ EndOf(p, t) = t + 2 + SizeAt(p.words, t)
        /\ p.longs \in Nat /\ \A j \in p.items : j \in Nat
    BY <1>2, ItemFacts
  <2>3. \A key : Passed(p, key, t) = Passed(p, key, i) \union New(key)
    BY <1>2, <2>1, <2>2, PassedGrows
  <2>4. \A key \in {DVID, DVNM} :
          KeyOf(p, t) = key /\ Known(p, t) => New(key) = {t} /\ Latest(Passed(p, key, t)) = t
    <3> TAKE key \in {DVID, DVNM}
    <3> HAVE KeyOf(p, t) = key /\ Known(p, t)
    <3>1. IsDevice(p, p.up[t])
      BY <1>2 DEF NamesItself
    <3>2. DeviceAround(p, t) = p.up[t]
      BY <1>2, <1>5, <3>1, DeviceOfChild
    <3>3. DeviceAround(p, t) = d
      BY <1>2, <2>1, <2>2, SameDevice
    <3>4. New(key) = {t}
      BY <1>5, <3>2, <3>3 DEF IsDevice
    <3>5. \A j \in Passed(p, key, t) : j <= t /\ j \in Nat
      BY <2>2 DEF Passed
    <3>6. t \in Passed(p, key, t)
      BY <2>3, <3>4
    <3>7. Latest(Passed(p, key, t)) = t
      BY <3>5, <3>6, LatestIs
    <3> QED
      BY <3>4, <3>7
  <2>5. \A key \in {DVID, DVNM} :
          ~(KeyOf(p, t) = key /\ Known(p, t)) => Passed(p, key, t) = Passed(p, key, i)
    BY <2>3
  <2>6. DVID # DVNM
    BY DEF DVID, DVNM
  <2>7. /\ KeyOf(p, t) = DVID /\ Known(p, t) => r.ms.device_id = p.words[t + 2]
        /\ ~(KeyOf(p, t) = DVID /\ Known(p, t)) => r.ms.device_id = ms.device_id
        /\ KeyOf(p, t) = DVNM /\ Known(p, t) => r.ms.device_name = NameAt(p.words, t)
        /\ ~(KeyOf(p, t) = DVNM /\ Known(p, t)) => r.ms.device_name = ms.device_name
    <3>1. q \in Stream /\ q.device_id = ms.device_id /\ q.device_name = ms.device_name
      BY <1>3 DEF Usable, SameNames
    <3>2. KeyOf(p, t) = DVID => t + 2 < q.bound
      BY <1>2, <1>3, <2>2 DEF NamesItself
    <3>3. r.ms = IF Known(p, t) THEN NoteDevice(p.words, q) ELSE q
      BY <1>2, <1>3 DEF WithNames
    <3>4. CASE ~Known(p, t)
      BY <3>1, <3>3, <3>4
    <3>5. CASE Known(p, t) /\ KeyOf(p, t) = DVID
      <4>1. r.ms = [q EXCEPT !.device_id = p.words[t + 2]]
        BY <1>3, <2>6, <3>2, <3>3, <3>5 DEF NoteDevice, KeyOf
      <4> QED
        BY <2>6, <3>1, <3>5, <4>1 DEF Stream
    <3>6. CASE Known(p, t) /\ KeyOf(p, t) = DVNM
      <4>1. r.ms = [q EXCEPT !.device_name = NameAt(p.words, t)]
        BY <1>3, <2>6, <3>3, <3>6 DEF NoteDevice, KeyOf
      <4> HIDE DEF t
      <4> QED
        BY <2>6, <3>1, <3>6, <4>1 DEF Stream
    <3>7. CASE Known(p, t) /\ KeyOf(p, t) \notin {DVID, DVNM}
      <4>1. r.ms = q
        BY <1>3, <3>3, <3>7 DEF NoteDevice, KeyOf
      <4> QED
        BY <3>1, <3>7, <4>1
    <3> QED
      BY <3>4, <3>5, <3>6, <3>7
  <2>8. Named(p, ms)
    BY <1>2 DEF NamedAt
  <2> HIDE DEF d, New
  <2>9. Passed(p, DVID, t) # {} => r.ms.device_id = p.words[Latest(Passed(p, DVID, t)) + 2]
    BY <2>4, <2>5, <2>7, <2>8 DEF Named
  <2>10. Passed(p, DVNM, t) # {} => r.ms.device_name = NameAt(p.words, Latest(Passed(p, DVNM, t)))
    BY <2>4, <2>5, <2>7, <2>8 DEF Named
  <2> QED
    BY <1>2, <2>9, <2>10 DEF Named
<1> QED
  BY <1>4, <1>5

(* Back to the start of a nest below level 0 nothing that names is undone.  *)
LEMMA NamedRewind ==
  ASSUME NEW p, Outlined(p), NEW ms, Usable(ms), OnKlv(p, ms), ms.nest_level > 0,
         NamedAt(p, ms), NEW back, SameNames(ms, back),
         back.pos = ms.last_level_pos[ms.nest_level - 1] + 2
  PROVE  NamedAt(p, back)
<1> DEFINE i     == ms.pos
           u     == p.up[i]
           first == u + 2
           d     == DeviceAround(p, first)
<1>1. i \in p.items /\ ~IsDevice(p, i) /\ InNest(p, ms) /\ ms.nest_level \in Nat
  BY UsableFields DEF OnKlv, OnDevice
<1>2. p.lev[i] > 0 /\ back.pos = first
  BY <1>1 DEF InNest
<1>3. /\ u \in p.items /\ ~IsDevice(p, u) /\ u + 2 <= i /\ EndOf(p, i) <= EndOf(p, u)
      /\ first \in p.items /\ first <= i
  BY <1>1, <1>2, InnerFacts, FirstOfNest
<1>4. /\ d \in p.items /\ IsDevice(p, d) /\ d <= first
      /\ \A e \in p.items : IsDevice(p, e) /\ e <= first => e <= d
  BY <1>3, DeviceAroundIs
<1> HIDE DEF d, u
<1>5. /\ i \in Nat /\ u \in Nat /\ d \in Nat /\ EndOf(p, i) \in Nat /\ i + 2 <= EndOf(p, i)
      /\ EndOf(p, u) \in Nat /\ \A j \in p.items : j \in Nat
  BY <1>1, <1>3, <1>4, ItemFacts
<1>6. \A j \in p.items : u < j /\ j <= i => ~IsDevice(p, j) /\ p.up[j] \in u..(j - 1)
  <2> TAKE j \in p.items
  <2> HAVE u < j /\ j <= i
  <2>1. j < EndOf(p, u)
    BY <1>3, <1>5
  <2> QED
    BY <1>3, <2>1, StartsInside
<1>7. d < u
  <2>1. ~(u < d /\ d <= i)
    BY <1>4, <1>6
  <2>2. d # u
    BY <1>3, <1>4
  <2> QED
    BY <1>3, <1>4, <1>5, <2>1, <2>2
<1>8. \A e \in p.items : IsDevice(p, e) /\ e <= i => e <= first
  BY <1>5, <1>6
<1>9. \A j \in p.items : first < j /\ j < i => p.up[j] # d
  BY <1>5, <1>6, <1>7
<1>10. p.up[i] # d
  BY <1>7, <1>5 DEF u
<1>11. \A key : Passed(p, key, i) = Passed(p, key, first)
  <2> TAKE key
  <2> DEFINE New == {j \in {i} : /\ p.up[j] = d /\ j # p.up[j]
                                 /\ KeyOf(p, j) = key /\ Known(p, j)}
  <2>1. Passed(p, key, i) = Passed(p, key, first) \union New
    <3> HIDE DEF first
    <3> QED
      BY <1>1, <1>3, <1>8, <1>9, PassedGrows DEF d
  <2>2. New = {}
    BY <1>10
  <2> QED
    BY <2>1, <2>2
<1> QED
  BY <1>1, <1>2, <1>11 DEF NamedAt, Named, SameNames

-----------------------------------------------------------------------------
(* The names of the cursors and of the stream of the running call.  What a  *)
(* search that has climbed hands back is spent, and the count keeps its own *)
(* copy to itself.                                                          *)
InItsNest(cl) == cl.level = cl.ms.nest_level

NamedCall(p, cl) ==
  cl.op \in {"next", "findnext", "seek"} \/ (cl.op = "findprev" /\ InItsNest(cl)) =>
    NamedAt(p, cl.ms)

NamedInv ==
  /\ \A c \in Cursors : life[c] = "live" => NamedAt(payload, cur[c])
  /\ NamedCall(payload, call)

LEMMA IdleNamed == NamedCall(payload, Idle)
BY IdleCall DEF NamedCall

LEMMA BeginNamed ==
  ASSUME NamedInv, NEW op, NEW c, NEW key, NEW flags, NEW ms, NEW level,
         Begin(op, c, key, flags, ms, level), op \in {"init", "count"} \/ NamedAt(payload, ms)
  PROVE  NamedInv'
<1>1. call'.op = op /\ call'.ms = ms
  BY DEF Begin, Idle
<1>2. payload' = payload /\ UNCHANGED <<cur, life>>
  BY DEF Begin, payload
<1> QED
  BY <1>1, <1>2 DEF NamedInv, NamedCall

LEMMA GoOnNamed ==
  ASSUME NamedInv, NEW next \in Call, GoOn(next), NamedCall(payload, next)
  PROVE  NamedInv'
<1>1. call'.op = next.op /\ call'.ms = next.ms /\ call'.level = next.level
  BY DEF GoOn, Call
<1>2. payload' = payload /\ UNCHANGED <<cur, life>>
  BY DEF GoOn, payload
<1> QED
  BY <1>1, <1>2 DEF NamedInv, NamedCall, InItsNest

LEMMA FinishNamed ==
  ASSUME TypeInv, NamedInv, NEW code, NEW ms, NEW state, Finish(code, ms, state),
         state = "live" => NamedAt(payload, ms)
  PROVE  NamedInv'
<1>1. /\ cur' = [cur EXCEPT ![call.on] = ms]
      /\ life' = [life EXCEPT ![call.on] = state]
      /\ call' = Idle /\ payload' = payload
  BY DEF Finish, payload
<1>2. \A c \in Cursors : life'[c] = "live" => NamedAt(payload, cur'[c])
  BY <1>1 DEF NamedInv, TypeInv, TypeOK
<1> QED
  BY <1>1, <1>2, IdleNamed DEF NamedInv

LEMMA RestoreNamed ==
  ASSUME TypeInv, NamedInv, call.op \notin {"none", "init"}, NEW code, Restore(code)
  PROVE  NamedInv'
<1>1. call.on \in Cursors /\ life[call.on] = "live"
  BY DEF TypeInv, TypeOK, Call, CallFits
<1> QED
  BY <1>1, FinishNamed DEF Restore, NamedInv

(* The running call, on with another stream and phase.                      *)
LEMMA CallOn ==
  ASSUME TypeInv, NEW ms \in Stream, NEW phase \in {"start", "open", "scan", "tail"}
  PROVE  LET on == [call EXCEPT !.ms = ms]
             to == [call EXCEPT !.phase = phase, !.ms = ms]
         IN /\ on \in Call /\ on.op = call.op /\ on.ms = ms /\ on.level = call.level
            /\ to \in Call /\ to.op = call.op /\ to.ms = ms /\ to.level = call.level
<1>1. call \in Call
  BY DEF TypeInv, TypeOK
<1>2. [call EXCEPT !.ms = ms] \in Call /\ [call EXCEPT !.phase = phase, !.ms = ms] \in Call
  BY <1>1, Zenon DEF Call
<1> QED
  BY <1>1, <1>2 DEF Call

LEMMA CarryOnNamed ==
  ASSUME TypeInv, NamedInv, NEW ms \in Stream, NEW phase \in {"start", "open", "scan", "tail"},
         \/ GoOn([call EXCEPT !.ms = ms])
         \/ GoOn([call EXCEPT !.phase = phase, !.ms = ms]),
         call.op = "count" \/ NamedAt(payload, ms)
  PROVE  NamedInv'
<1> DEFINE on == [call EXCEPT !.ms = ms]
           to == [call EXCEPT !.phase = phase, !.ms = ms]
<1>1. /\ on \in Call /\ on.op = call.op /\ on.ms = ms
      /\ to \in Call /\ to.op = call.op /\ to.ms = ms
  BY CallOn
<1>2. GoOn(on) \/ GoOn(to)
  OBVIOUS
<1> HIDE DEF on, to
<1>3. NamedCall(payload, on) /\ NamedCall(payload, to)
  BY <1>1 DEF NamedCall
<1> QED
  BY <1>1, <1>2, <1>3, GoOnNamed

(* A pass of the running call.                                              *)
LEMMA PassNamed ==
  ASSUME TypeInv, Sound(payload), NamesItself(payload), OnKlv(payload, call.ms),
         NamedAt(payload, call.ms), NEW flags, NEW r \in GPMF_Next(words, call.ms, flags)
  PROVE  r.ret # BAD => NamedAt(payload, r.ms)
<1>1. Outlined(payload) /\ Usable(call.ms) /\ words = payload.words
  BY SoundOutlined DEF TypeInv, CallFits, words
<1> QED
  BY <1>1, NamedPass

-----------------------------------------------------------------------------
LEMMA StartNamed ==
  ASSUME TypeInv, NamedInv, Sound(payload), Start
  PROVE  NamedInv'
<1> PICK c \in Cursors :
      \/ StartInit(c)
      \/ ResetState(c)
      \/ \E d \in Cursors \ {c} : CopyState(c, d)
      \/ StartSeek(c)
      \/ StartCount(c)
      \/ \E flags \in Flags :
           \/ StartNext(c, flags)
           \/ \E key \in FindKeys :
                StartFindNext(c, key, flags) \/ StartFindPrev(c, key, flags)
  BY DEF Start
<1>1. life[c] = "live" => NamedAt(payload, cur[c])
  BY DEF NamedInv
<1>2. CASE StartInit(c)
  BY <1>2, BeginNamed DEF StartInit
<1>3. CASE ResetState(c)
  <2> DEFINE ms == Rewound(cur[c])
  <2>1. /\ cur' = [cur EXCEPT ![c] = ms] /\ life' = [life EXCEPT ![c] = "live"]
        /\ call' = call /\ payload' = payload
    BY <1>3 DEF ResetState, payload
  <2>2. ms.pos = 0
    BY DEF Rewound, TypeInv, TypeOK, Stream
  <2> HIDE DEF ms
  <2>3. NamedAt(payload, ms)
    BY <2>2, SoundOutlined, NothingPassed DEF NamedAt, Named
  <2>4. \A d \in Cursors : life'[d] = "live" => NamedAt(payload, cur'[d])
    BY <2>1, <2>3 DEF NamedInv, TypeInv, TypeOK
  <2> QED
    BY <2>1, <2>4 DEF NamedInv
<1>4. ASSUME NEW d \in Cursors, CopyState(c, d) PROVE NamedInv'
  <2>1. /\ cur' = [cur EXCEPT ![d] = cur[c]] /\ life' = [life EXCEPT ![d] = life[c]]
        /\ call' = call /\ payload' = payload
    BY <1>4 DEF CopyState, payload
  <2>2. \A b \in Cursors : life'[b] = "live" => NamedAt(payload, cur'[b])
    BY <1>1, <2>1 DEF NamedInv, TypeInv, TypeOK
  <2> QED
    BY <2>1, <2>2 DEF NamedInv
<1>5. CASE StartSeek(c)
  BY <1>1, <1>5, BeginNamed DEF StartSeek
<1>6. CASE StartCount(c)
  BY <1>6, BeginNamed DEF StartCount
<1>7. ASSUME NEW flags \in Flags, StartNext(c, flags) PROVE NamedInv'
  BY <1>1, <1>7, BeginNamed DEF StartNext
<1>8. ASSUME NEW flags \in Flags, NEW key \in FindKeys, StartFindNext(c, key, flags)
      PROVE  NamedInv'
  BY <1>1, <1>8, BeginNamed DEF StartFindNext
<1>9. ASSUME NEW flags \in Flags, NEW key \in FindKeys, StartFindPrev(c, key, flags)
      PROVE  NamedInv'
  BY <1>1, <1>9, BeginNamed DEF StartFindPrev
<1> QED
  BY <1>2, <1>3, <1>4, <1>5, <1>6, <1>7, <1>8, <1>9

LEMMA InitNamed ==
  ASSUME TypeInv, NamedInv, Sound(payload), InitHop \/ InitEnd
  PROVE  NamedInv'
<1>1. call \in Call /\ call.op = "init" /\ call.mark \in Nat
  BY DEF TypeInv, TypeOK, Call, InitHop, InitEnd, Running
<1>2. CASE InitHop
  <2> DEFINE to == call.mark + 2 + SizeAt(words, call.mark)
             next == [call EXCEPT !.mark = to]
  <2>1. GoOn(next)
    BY <1>2 DEF InitHop
  <2>2. next.op = "init"
    BY <1>1 DEF Call
  <2>3. call'.op = "init"
    BY <1>1, <2>1 DEF GoOn, Call
  <2>4. payload' = payload /\ UNCHANGED <<cur, life>>
    BY <2>1 DEF GoOn, payload
  <2> QED
    BY <2>3, <2>4 DEF NamedInv, NamedCall
<1>3. CASE InitEnd
  <2> DEFINE ms == Opened(call.mark)
  <2>1. ms.pos = 0
    BY DEF Opened, Blank
  <2> HIDE DEF ms
  <2>2. NamedAt(payload, ms)
    BY <2>1, SoundOutlined, NothingPassed DEF NamedAt, Named
  <2>3. Finish(OK, ms, "live") \/ Finish(BAD, Blank, "raw")
    BY <1>3 DEF InitEnd, ms
  <2> QED
    BY <2>2, <2>3, FinishNamed
<1> QED
  BY <1>2, <1>3

LEMMA WalkNamed ==
  ASSUME TypeInv, KlvInv, NamedInv, Sound(payload), NamesItself(payload), NextPass \/ FindNextPass
  PROVE  NamedInv'
<1>1. OnKlv(payload, call.ms) /\ NamedAt(payload, call.ms) /\ call.op \in {"next", "findnext"}
  BY DEF KlvInv, KlvCall, NamedInv, NamedCall, NextPass, FindNextPass, Running
<1>2. \A flags : \A r \in GPMF_Next(words, call.ms, flags) :
         r.ret # BAD => r.ms \in Stream /\ NamedAt(payload, r.ms)
  BY <1>1, PassNamed, PassTyped
<1>3. CASE NextPass
  <2> PICK r \in GPMF_Next(words, call.ms, call.flags) :
        IF r.ret = AGAIN THEN GoOn([call EXCEPT !.ms = r.ms])
        ELSE Finish(r.ret, r.ms, IF r.ret = BAD THEN "spent" ELSE "live")
    BY <1>3 DEF NextPass
  <2>1. CASE r.ret = AGAIN
    BY <1>2, <2>1, CarryOnNamed DEF AGAIN, BAD
  <2>2. CASE r.ret # AGAIN
    BY <1>2, <2>2, FinishNamed
  <2> QED
    BY <2>1, <2>2
<1>4. CASE FindNextPass
  <2> PICK r \in GPMF_Next(words, call.ms, call.flags), found \in BOOLEAN :
        /\ found => r.ret = OK
        /\ IF found THEN Finish(OK, r.ms, "live")
           ELSE IF r.ret \in {OK, AGAIN} THEN GoOn([call EXCEPT !.ms = r.ms])
           ELSE Restore(r.ret)
    <3>1. \A q, key : Found(q, key) \subseteq BOOLEAN /\ (q.ret # OK => Found(q, key) = {FALSE})
      BY DEF Found
    <3> QED
      BY <1>4, <3>1 DEF FindNextPass
  <2>1. CASE found
    BY <1>2, <2>1, FinishNamed DEF OK, BAD
  <2>2. CASE ~found /\ r.ret \in {OK, AGAIN}
    BY <1>2, <2>2, CarryOnNamed DEF OK, AGAIN, BAD
  <2>3. CASE ~found /\ r.ret \notin {OK, AGAIN}
    BY <1>1, <2>3, RestoreNamed
  <2> QED
    BY <2>1, <2>2, <2>3
<1> QED
  BY <1>3, <1>4

LEMMA SeekNamed ==
  ASSUME TypeInv, KlvInv, NamedInv, Sound(payload), NamesItself(payload),
         SeekStart \/ SeekOpen \/ SeekPass
  PROVE  NamedInv'
<1>1. /\ OnKlv(payload, call.ms) /\ NamedAt(payload, call.ms) /\ call.op = "seek"
      /\ call \in Call
  BY DEF KlvInv, KlvCall, NamedInv, NamedCall, SeekStart, SeekOpen, SeekPass, Running, TypeInv, TypeOK
<1>2. \A flags : \A r \in GPMF_Next(words, call.ms, flags) :
         r.ret # BAD => r.ms \in Stream /\ NamedAt(payload, r.ms)
  BY <1>1, PassNamed, PassTyped
<1>3. CASE SeekStart
  <2>1. CASE call.ms.pos + 1 >= call.ms.bound
    BY <1>1, <1>3, <2>1, RestoreNamed DEF SeekStart
  <2>2. CASE ~(call.ms.pos + 1 >= call.ms.bound)
    <3> PICK phase \in {"open", "scan"} : GoOn([call EXCEPT !.phase = phase])
      BY <1>3, <2>2 DEF SeekStart
    <3> DEFINE next == [call EXCEPT !.phase = phase]
    <3>1. next \in Call /\ next.op = "seek" /\ next.ms = call.ms
      BY <1>1 DEF Call
    <3> HIDE DEF next
    <3>2. NamedCall(payload, next)
      BY <1>1, <3>1 DEF NamedCall
    <3> QED
      BY <3>1, <3>2, GoOnNamed DEF next
  <2> QED
    BY <2>1, <2>2
<1>4. CASE SeekOpen
  <2> PICK r \in GPMF_Next(words, call.ms, {RECURSE, TOLERANT}) :
        CASE r.ret = OK    -> GoOn([call EXCEPT !.phase = "scan", !.ms = r.ms])
          [] r.ret = AGAIN -> GoOn([call EXCEPT !.ms = r.ms])
          [] OTHER         -> Restore(r.ret)
    BY <1>4 DEF SeekOpen
  <2>1. CASE r.ret = OK
    BY <1>2, <2>1, CarryOnNamed DEF OK, BAD
  <2>2. CASE r.ret = AGAIN
    BY <1>2, <2>2, CarryOnNamed DEF OK, AGAIN, BAD
  <2>3. CASE r.ret \notin {OK, AGAIN}
    BY <1>1, <2>3, RestoreNamed
  <2> QED
    BY <2>1, <2>2, <2>3
<1>5. CASE SeekPass
  <2> PICK r \in GPMF_Next(words, call.ms, {TOLERANT}) :
        LET verdict == IF r.ret = OK THEN Judge(r.ms) ELSE r.ret
        IN CASE verdict = OK    -> Finish(OK, r.ms, "live")
             [] verdict = AGAIN -> GoOn([call EXCEPT !.ms = r.ms])
             [] OTHER           -> Restore(verdict)
    BY <1>5 DEF SeekPass
  <2> DEFINE verdict == IF r.ret = OK THEN Judge(r.ms) ELSE r.ret
  <2>1. verdict \in {OK, AGAIN} => r.ret # BAD
    BY DEF OK, AGAIN, BAD
  <2>2. /\ verdict = OK => Finish(OK, r.ms, "live")
        /\ verdict = AGAIN => GoOn([call EXCEPT !.ms = r.ms])
        /\ verdict \notin {OK, AGAIN} => Restore(verdict)
    BY DEF OK, AGAIN
  <2> HIDE DEF verdict
  <2>3. CASE verdict = OK
    BY <1>2, <2>1, <2>2, <2>3, FinishNamed
  <2>4. CASE verdict = AGAIN
    BY <1>2, <2>1, <2>2, <2>4, CarryOnNamed
  <2>5. CASE verdict \notin {OK, AGAIN}
    BY <1>1, <2>2, <2>5, RestoreNamed
  <2> QED
    BY <2>3, <2>4, <2>5
<1> QED
  BY <1>3, <1>4, <1>5

LEMMA CountNamed == ASSUME TypeInv, NamedInv, CountPass PROVE NamedInv'
<1>1. payload' = payload /\ UNCHANGED <<cur, life>>
  BY DEF CountPass, GoOn, payload
<1>2. call'.op \in {"count", "none"}
  <2>1. call \in Call /\ call.op = "count"
    BY DEF TypeInv, TypeOK, CountPass, Running
  <2>2. PICK n, ms : \/ call' = [[call EXCEPT !.ms = ms, !.count = n] EXCEPT !.turn = 1 - @]
                     \/ call' = [[call EXCEPT !.ms = ms] EXCEPT !.turn = 1 - @]
                     \/ call' = Idle
    BY DEF CountPass, GoOn
  <2> QED
    BY <2>1, <2>2, IdleCall DEF Call
<1> QED
  BY <1>1, <1>2 DEF NamedInv, NamedCall

LEMMA LeaveNestNamed ==
  ASSUME TypeInv, KlvInv, KlvInv', NamedInv, Sound(payload), call.op = "findprev",
         NEW ms \in Stream, LeaveNest(ms)
  PROVE  NamedInv'
<1>1. CASE RECURSE \in call.flags /\ call.level > 1
  <2> DEFINE next == [call EXCEPT !.phase = "open", !.level = call.level - 1, !.ms = ms]
  <2>1. call \in Call /\ call.level - 1 \in Nat /\ ms.nest_level \in Int
    BY <1>1 DEF TypeInv, TypeOK, Call, Stream
  <2>2. next \in Call
    BY <2>1, Zenon DEF Call
  <2>3. /\ next.op = "findprev" /\ next.ms = ms /\ next.level = call.level - 1
        /\ next.phase = "open"
    BY <2>1 DEF Call
  <2>4. GoOn(next)
    BY <1>1 DEF LeaveNest
  <2> HIDE DEF next
  <2>5. /\ call'.op = "findprev" /\ call'.ms = ms /\ call'.level = next.level
        /\ call'.phase = "open" /\ payload' = payload
    BY <2>2, <2>3, <2>4 DEF GoOn, Call, payload
  <2>6. Climbed(payload, ms, next.level)
    BY <2>5 DEF KlvInv, KlvCall
  <2>7. ~InItsNest(next)
    BY <2>1, <2>3, <2>6 DEF Climbed, InItsNest
  <2> QED
    BY <2>2, <2>3, <2>4, <2>7, GoOnNamed DEF NamedCall
<1>2. CASE ~(RECURSE \in call.flags /\ call.level > 1)
  BY <1>2, RestoreNamed DEF LeaveNest
<1> QED
  BY <1>1, <1>2

LEMMA FindPrevOverrunNamed == ASSUME TypeInv, NamedInv, FindPrevOverrun PROVE NamedInv'
<1>1. PICK code \in {OK, FIND} : Finish(code, Blank, "raw")
  BY DEF FindPrevOverrun
<1> QED
  BY <1>1, FinishNamed

LEMMA FindPrevRewindNamed ==
  ASSUME TypeInv, KlvInv, NamedInv, Sound(payload), FindPrevRewind
  PROVE  NamedInv'
<1> DEFINE ms    == call.ms
           level == call.level
           first == ms.last_level_pos[level - 1] + 2
           size  == (ms.nest_size[level] + ms.pos - first) % Modulus
           back  == [ms EXCEPT !.pos = first, !.nest_size[level] = size]
           next  == [call EXCEPT !.phase = "scan", !.mark = ms.pos, !.ms = back]
<1>1. /\ call \in Call /\ ms \in Stream /\ Usable(ms) /\ call.op = "findprev"
      /\ Outlined(payload)
  BY SoundOutlined DEF TypeInv, TypeOK, CallFits, Usable, FindPrevRewind, Running
<1>2. level # 0 /\ level \in Nat /\ ms.nest_level \in Nat
  BY <1>1, UsableFields DEF Call, TypeInv, CallFits, FindPrevRewind, Running, Rewinds, NothingBehind
<1>3. GoOn(next)
  BY DEF FindPrevRewind
<1>4. /\ back.pos = first /\ back.nest_level = ms.nest_level /\ SameNames(ms, back)
  BY <1>1 DEF Stream, SameNames
<1> HIDE DEF first, size
<1>5. ASSUME level = ms.nest_level PROVE NamedAt(payload, back)
  <2>1. OnKlv(payload, ms) /\ NamedAt(payload, ms)
    BY <1>1, <1>2, <1>5 DEF KlvInv, KlvCall, Climbed, NamedInv, NamedCall, InItsNest
  <2> HIDE DEF back
  <2> QED
    BY <1>1, <1>2, <1>4, <1>5, <2>1, NamedRewind DEF first
<1> HIDE DEF back
<1>6. call'.op = "findprev" /\ call'.ms = back /\ call'.level = level
  BY <1>1, <1>3 DEF GoOn, Call
<1>7. payload' = payload /\ UNCHANGED <<cur, life>>
  BY <1>3 DEF GoOn, payload
<1> QED
  BY <1>4, <1>5, <1>6, <1>7 DEF NamedInv, NamedCall, InItsNest

LEMMA FindPrevNamed ==
  ASSUME TypeInv, KlvInv, KlvInv', NamedInv, Sound(payload), NamesItself(payload),
         FindPrevRefuse \/ FindPrevFound \/ FindPrevExhausted \/ FindPrevPass
  PROVE  NamedInv'
<1> DEFINE ms == call.ms
<1>1. /\ call \in Call /\ ms \in Stream /\ Usable(ms) /\ call.op = "findprev"
      /\ Outlined(payload) /\ words = payload.words
  BY SoundOutlined DEF TypeInv, TypeOK, CallFits, Usable, FindPrevRefuse, FindPrevFound,
         FindPrevExhausted, FindPrevPass, Running, words
<1>2. InItsNest(call) => OnKlv(payload, ms) /\ NamedAt(payload, ms)
  <2>1. call.level \in Nat /\ ms.nest_level \in Nat
    BY <1>1, UsableFields DEF Call
  <2> QED
    BY <1>1, <2>1 DEF KlvInv, KlvCall, Climbed, NamedInv, NamedCall, InItsNest
<1>3. CASE FindPrevRefuse
  BY <1>1, <1>3, RestoreNamed DEF FindPrevRefuse
<1>4. CASE FindPrevFound
  BY <1>2, <1>4, FinishNamed DEF FindPrevFound, InItsNest
<1>5. CASE FindPrevExhausted
  BY <1>1, <1>5, LeaveNestNamed DEF FindPrevExhausted
<1>6. CASE FindPrevPass
  <2> PICK r \in GPMF_Next(words, ms, call.flags \ {RECURSE}) :
        CASE r.ret = OK    -> GoOn([call EXCEPT !.phase = "scan", !.ms = r.ms])
          [] r.ret = AGAIN -> GoOn([call EXCEPT !.phase = "tail", !.ms = r.ms])
          [] OTHER         -> LeaveNest(r.ms)
    BY <1>6 DEF FindPrevPass
  <2>1. r.ms \in Stream
    BY PassTyped
  <2>2. ASSUME NEW phase \in {"scan", "tail"}, GoOn([call EXCEPT !.phase = phase, !.ms = r.ms]),
               r.ret # BAD
        PROVE  NamedInv'
    <3> DEFINE to == [call EXCEPT !.phase = phase, !.ms = r.ms]
    <3>1. to \in Call /\ to.op = "findprev" /\ to.ms = r.ms /\ to.level = call.level
      <4>1. phase \in {"start", "open", "scan", "tail"}
        OBVIOUS
      <4> QED
        BY <1>1, <2>1, <4>1, CallOn, ZenonT(30)
    <3> HIDE DEF to
    <3>2. CASE InItsNest(call)
      <4>1. NamedAt(payload, r.ms)
        BY <1>2, <2>2, <3>2, PassNamed
      <4> QED
        BY <2>2, <3>1, <4>1, GoOnNamed DEF NamedCall, to
    <3>3. CASE ~InItsNest(call)
      <4>1. Climbed(payload, ms, call.level) /\ call.level \in Nat /\ call.level > 0
        BY <1>1, <1>6, <3>3 DEF KlvInv, KlvCall, InItsNest, FindPrevPass, TypeInv, CallFits, Call
      <4>2. Climbed(payload, r.ms, call.level)
        <5>1. ms.bound = payload.longs /\ RECURSE \notin call.flags \ {RECURSE}
          BY <1>1 DEF KlvInv, KlvCall
        <5> QED
          BY <1>1, <4>1, <5>1, ClimbedPass
      <4>3. ~InItsNest(to)
        <5>1. call.level < r.ms.nest_level /\ r.ms.nest_level \in Int
          BY <2>1, <4>2 DEF Climbed, Stream
        <5> QED
          BY <3>1, <4>1, <5>1 DEF InItsNest
      <4> QED
        BY <2>2, <3>1, <4>3, GoOnNamed DEF NamedCall, to
    <3> QED
      BY <3>2, <3>3
  <2>3. CASE r.ret = OK
    BY <2>2, <2>3 DEF OK, BAD
  <2>4. CASE r.ret = AGAIN
    BY <2>2, <2>4 DEF OK, AGAIN, BAD
  <2>5. CASE r.ret \notin {OK, AGAIN}
    BY <1>1, <2>1, <2>5, LeaveNestNamed
  <2> QED
    BY <2>3, <2>4, <2>5
<1> QED
  BY <1>3, <1>4, <1>5, <1>6

LEMMA NextNamed ==
  ASSUME TypeInv, KlvInv, KlvInv', NamedInv, Sound(payload), NamesItself(payload), [Next]_vars
  PROVE  NamedInv'
<1>1. CASE Start
  BY <1>1, StartNamed
<1>2. CASE Step
  <2>1. ASSUME FindNextAtEnd PROVE NamedInv'
    BY <2>1, RestoreNamed DEF FindNextAtEnd, Running
  <2> QED
    BY <1>2, <2>1, InitNamed, WalkNamed, FindPrevOverrunNamed, FindPrevRewindNamed,
       FindPrevNamed, SeekNamed, CountNamed DEF Step
<1>3. CASE UNCHANGED vars
  BY <1>3 DEF vars, NamedInv, payload
<1> QED
  BY <1>1, <1>2, <1>3 DEF Next

(* On every sound payload whose devices name themselves, and nothing else   *)
(* names one: a cursor inside a device and past its DVID or DVNM has what   *)
(* it says in device_id or device_name, whatever steps over nests, failed   *)
(* searches through other devices, rewinds and copies there were before.    *)
THEOREM DevicesNamed == Spec => []DeviceNamed
<1> DEFINE IInv == SoundInv /\ (Sound(payload) /\ NamesItself(payload) => NamedInv)
<1>1. Init => IInv
  <2> SUFFICES ASSUME Init PROVE IInv
    OBVIOUS
  <2>1. SoundInv
    BY InitTyped, IdleCall DEF Init, SoundInv, KlvInv, KlvAt, KlvCall
  <2>2. NamedInv
    BY IdleNamed DEF Init, NamedInv
  <2> QED
    BY <2>1, <2>2
<1>2. IInv /\ [Next]_vars => IInv'
  <2> SUFFICES ASSUME IInv, [Next]_vars PROVE IInv'
    OBVIOUS
  <2>1. TypeInv' /\ payload' = payload /\ (Sound(payload) => KlvInv')
    BY NextTyped, NextKlv, BufferKept DEF SoundInv
  <2>2. Sound(payload) /\ NamesItself(payload) => NamedInv'
    BY <2>1, NextNamed DEF SoundInv
  <2> QED
    BY <2>1, <2>2 DEF SoundInv
<1>3. IInv => DeviceNamed
  BY DEF NamedInv, NamedAt, Named, DeviceNamed, words
<1> QED
  BY <1>1, <1>2, <1>3, PTL DEF Spec
=============================================================================
