------------------------------ MODULE Mp4Udta ------------------------------
(***************************************************************************)
(* OpenMP4SourceUDTA: a pass over the atoms for the single payload that a  *)
(* camera may keep in the user data of the movie.  It opens moov and udta. *)
(* The account it keeps of its place in the file (filepos) is not its      *)
(* place: the code adds some headers to it twice, and LongSeek, which goes *)
(* by the account, stays where it is when that reaches the end of the file. *)
(*                                                                         *)
(* A file is opened by OpenMP4Source or by this function, which starts as  *)
(* "searching" and ends as "global" (a handle with the payload), "empty"    *)
(* (a handle with none, known by its duration), or "astray": headers are   *)
(* read in the middle of an atom, and what comes then is up to its bytes.  *)
(* Assumed: a tag that is no fourcc is only met as the first of a udta.     *)
(***************************************************************************)
EXTENDS Mp4Index

VARIABLES
  ahead,      (* filepos, less the place in the file                        *)
  lastsize    (* the size of the last atom, as its header gave it           *)

openVars == <<vars, ahead, lastsize>>

Searching == status = "searching"

GlobalContainers == {"moov", "udta"}

FourCC == Tags \union {"GPMF", "FIRM"}

OpenInit ==
  /\ Begin
  /\ status \in {"reading"} \union IF file.whole THEN {"searching"} ELSE {}
  /\ ahead = 0 /\ lastsize = 0

(* The file has no further header, or moov and mdat are both behind.        *)
Spent == at <= Len(atoms) => maxfilesize # 0 /\ filepos + ahead >= maxfilesize

Unfit == atom.tag \in FourCC /\ (qtsize < 8 \/ Misnested)

EndSearch ==
  /\ Searching /\ (~Spent => Unfit)
  /\ status' = "empty"
  /\ UNCHANGED <<file, at, nest, nestsize, required_tags, maxfilesize, type, mp4, ahead, lastsize>>

(* LongSeek from a place, and the turn after it: the reader is on another   *)
(* atom, or on the bytes behind the header it has just read.                *)
Seek(place, by, offset, stop) ==
  IF offset = 0 \/ place + by + offset < file.size
  THEN at' = AtomAt(place + offset) /\ ahead' = by /\ UNCHANGED status
  ELSE /\ status' = IF file.size - place < 8 \/ (stop # 0 /\ file.size + 8 >= stop)
                    THEN "empty" ELSE "astray"
       /\ UNCHANGED <<at, ahead>>

(* A name that is no fourcc: what was open is left by the size of the last  *)
(* atom, and its header is added to the account a second time.              *)
LeaveForeign ==
  /\ Searching /\ ~Spent /\ atom.tag \notin FourCC
  /\ nestsize' = Accounted(nestsize, nest, lastsize - 8)
  /\ nest' = StillOpen(nestsize, nest, lastsize - 8)
  /\ Seek(filepos, ahead + 8, lastsize - 16, maxfilesize)
  /\ UNCHANGED <<file, required_tags, maxfilesize, type, mp4, lastsize>>

Met(tags) == Searching /\ ~Spent /\ ~Unfit /\ atom.tag \in tags

(* A 64-bit size is added to the account after a header that counts twice.  *)
Counted == IF atom.wide THEN ahead + 8 ELSE ahead

TakeGlobal ==
  /\ Met({"GPMF"})
  /\ status' = "global"
  /\ mp4' = [mp4 EXCEPT !.metasizes = <<qtsize - 8>>, !.metaoffsets = <<behind>>,
                        !.indexcount = 1, !.metadatalength = 1,
                        !.basemetadataduration = <<1, 1>>, !.meta_clockdemon = 1]
  /\ UNCHANGED <<file, at, nest, nestsize, required_tags, maxfilesize, type, ahead, lastsize>>

(* An atom is entered (x is 8) or passed over (x is its size).              *)
PassAtom(x) ==
  LET inside == [nestsize EXCEPT ![nest + 1] = qtsize]
      tags   == required_tags + IF atom.tag \in {"moov", "mdat"} THEN 1 ELSE 0
      stop   == IF tags > required_tags /\ tags >= 2 THEN behind + Counted + qtsize ELSE maxfilesize
  IN /\ nestsize' = Accounted(inside, nest + 1, x)
     /\ nest' = StillOpen(inside, nest + 1, x)
     /\ required_tags' = tags /\ maxfilesize' = stop
     /\ lastsize' = qtsize
     /\ Seek(behind, Counted, x - 8, stop)
     /\ UNCHANGED <<file, type, mp4>>

EnterGlobal == Met(GlobalContainers) /\ PassAtom(8)

SkipGlobal == Met(FourCC \ (GlobalContainers \union {"GPMF"})) /\ PassAtom(qtsize)

OpenNext ==
  \/ Next /\ UNCHANGED <<ahead, lastsize>>
  \/ EndSearch \/ LeaveForeign \/ TakeGlobal \/ EnterGlobal \/ SkipGlobal

OpenSpec == OpenInit /\ [][OpenNext]_openVars

(* The file can be read, and the thread of the caller goes on.              *)
FairOpenSpec == OpenSpec /\ WF_openVars(OpenNext)

-----------------------------------------------------------------------------
(* What every variable holds, whichever function opens the file.            *)
OpenTypeOK == TypeOK /\ ahead \in Nat /\ lastsize \in Nat

Within(i, j) ==
  atoms[j].off < atoms[i].off /\ atoms[i].off + atoms[i].size <= atoms[j].off + atoms[j].size

(* The payloads kept in the user data of the movie, but for user data that  *)
(* begins with a name that is no fourcc: the reader leaves it there.        *)
Globals ==
  {i \in DOMAIN atoms :
     /\ atoms[i].tag = "GPMF"
     /\ \E u, m \in DOMAIN atoms :
          /\ atoms[u].tag = "udta" /\ atoms[m].tag = "moov" /\ Within(i, u) /\ Within(u, m)
          /\ atoms[u + 1].tag \in FourCC}

GlobalFound ==
  \E i \in Globals :
    LET header == IF atoms[i].wide THEN 16 ELSE 8
    IN /\ status = "global"
       /\ mp4.metasizes = <<atoms[i].size - header>>
       /\ mp4.metaoffsets = <<atoms[i].off + header>>

(* The file goes on behind its movie and its media.                         *)
GoesOn ==
  LET n == Len(atoms)
  IN \A j \in 1..n : atoms[j].tag \in {"moov", "mdat"} => n # j /\ ~Within(n, j)

(* A file is opened in the end, whichever way it is: with the payload of    *)
(* its user data where there is one, at its place and of its size, and      *)
(* otherwise as empty.  Without a payload and with nothing behind them, the *)
(* reader may look for one inside the last atom, as its account runs ahead. *)
GlobalRight ==
  Searching =>
    <>(IF Globals # {} THEN GlobalFound ELSE status = "empty" \/ (status = "astray" /\ ~GoesOn))

(* A file as cameras write it is opened with the right payloads by either   *)
(* function, and the call returns.                                          *)
OpenedRight == IndexRight /\ GlobalRight
=============================================================================
