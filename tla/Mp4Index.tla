------------------------------ MODULE Mp4Index ------------------------------
(***************************************************************************)
(* OpenMP4Source: one pass over the atoms of an MP4 that joins the tables  *)
(* of its metadata track into an index, a size and a file offset for every *)
(* payload.  A step is a turn of the loop: one atom.                       *)
(*                                                                         *)
(* A file is its size and its atoms in file order: tag, off and size (in   *)
(* bytes, header included), wide (the size is given in 64 bits), the count *)
(* num that a table claims, and its entries.  Atoms the reader never opens *)
(* are leaves.  With it comes what it was written from: truth, the tables  *)
(* of the metadata track; order, that of its tables; late, whether its     *)
(* edit list follows the media; tracks, how many there are; whole, that no  *)
(* atom is damaged, and hit, the tag of the one that is.  The reader never *)
(* sees these; the properties compare the index with them.  Memory is      *)
(* always granted.                                                         *)
(***************************************************************************)
EXTENDS Integers, Sequences, FiniteSets, SequencesExt, FiniteSetsExt

CONSTANTS
  Files,        (* the files, by name                                       *)
  MaxNest,      (* MAX_NEST_LEVEL                                           *)
  MaxTracks,    (* MAX_TRACKS                                               *)
  MaxEntries    (* 5184000 in the code: no table is that long               *)

ASSUME LimitAssumption == {MaxNest, MaxTracks, MaxEntries} \subseteq Nat \ {0}

Containers == {"moov", "trak", "mdia", "minf", "gmin", "dinf", "alis", "stbl"}

(* What a table holds, as far as the numbers go.                            *)
BodyShape(a) ==
  /\ a.tag = "hdlr" => a.body \in {"meta", "vide", "soun", "alis", "url"}
  /\ a.tag = "stsz" => a.body.equal \in Nat /\ a.body.sizes \in Seq(Nat)
  /\ a.tag \in {"stco", "co64"} => a.body \in Seq(Nat)

FileShape(f) ==
  /\ f.size \in Nat /\ Len(f.atoms) \in Nat /\ DOMAIN f.atoms = 1..Len(f.atoms)
  /\ \A i \in DOMAIN f.atoms :
       /\ {f.atoms[i].off, f.atoms[i].size, f.atoms[i].num} \subseteq Nat
       /\ f.atoms[i].wide \in BOOLEAN
       /\ BodyShape(f.atoms[i])

HeaderEnd(a) == IF a.wide THEN a.off + 16 ELSE a.off + 8

AtomEnd(a) == a.off + a.size

(* The atoms of a whole file: in the order of their places, each inside the *)
(* one it starts in, filling a container from its header to its end, and    *)
(* with a 64-bit size at the top level only, where no level is told of the  *)
(* 8 bytes more of its header.                                              *)
Nested(seq) ==
  LET starts == {seq[i].off : i \in DOMAIN seq}
  IN \A i \in DOMAIN seq :
       /\ seq[i].tag \in Containers =>
            HeaderEnd(seq[i]) = AtomEnd(seq[i]) \/ HeaderEnd(seq[i]) \in starts
       /\ \A j \in (i + 1)..Len(seq) :
            /\ HeaderEnd(seq[i]) <= seq[j].off
            /\ seq[j].off < AtomEnd(seq[i]) =>
                 /\ AtomEnd(seq[j]) <= AtomEnd(seq[i])
                 /\ seq[i].tag \in Containers =>
                      /\ ~seq[j].wide
                      /\ AtomEnd(seq[j]) = AtomEnd(seq[i]) \/ AtomEnd(seq[j]) \in starts

ASSUME FilesAssumption ==
  \A f \in DOMAIN Files : FileShape(Files[f]) /\ (Files[f].whole => Nested(Files[f].atoms))

VARIABLES
  file,           (* the file being opened                                  *)
  at,             (* the atom whose header is read next                     *)
  nest, nestsize, (* the open atoms and the bytes of each still to come     *)
  required_tags,  (* of the moov and mdat atoms met                         *)
  maxfilesize,    (* 0, or where to stop                                    *)
  type,           (* the type of the track                                  *)
  mp4,            (* what the atoms have said so far                        *)
  status          (* "reading", then "open" or "closed"; others in Mp4Udta  *)

vars == <<file, at, nest, nestsize, required_tags, maxfilesize, type, mp4, status>>

atoms == file.atoms

atom == atoms[at]

Tables == {"mvhd", "mdhd", "hdlr", "edts", "stsd", "stsc", "stsz", "stco", "co64", "stts"}

(* What the fourcc test of the reader lets pass.                            *)
Tags == Containers \union Tables \union {"ftyp", "mdat", "udta", "tkhd"}

(* An offset that was taken from behind the table of chunks.                *)
NoOffset == 0 - 1

(* An empty sequence is a table not allocated; metasize_count is the length *)
(* of metasizes, and metastsc_count that of metastsc.  Times are in ticks   *)
(* of meta_clockdemon; basemetadataduration is a fraction.                  *)
Unread ==
  [metasizes |-> << >>, metaoffsets |-> << >>, metastsc |-> << >>, indexcount |-> 0,
   clockdemon |-> 0, trak_clockdemon |-> 0, trak_clockcount |-> 0, meta_clockdemon |-> 0,
   metadatalength |-> 0, basemetadataduration |-> <<0, 1>>,
   video |-> [frames |-> 0, rate |-> <<0, 0>>],
   trak_num |-> 0, trak_edit_list_offsets |-> [t \in 0..(MaxTracks - 1) |-> 0],
   metadataoffset_clockcount |-> 0]

Begin ==
  /\ \E f \in DOMAIN Files : file = Files[f]
  /\ at = 1
  /\ nest = 0 /\ nestsize = [i \in 1..MaxNest |-> 0]
  /\ required_tags = 0 /\ maxfilesize = 0
  /\ type = "none"
  /\ mp4 = Unread

Init == Begin /\ status = "reading"

-----------------------------------------------------------------------------
(* The header of an atom, and the ways to stop at it.                       *)

filepos == atom.off + 8

(* The 8 more bytes of a 64-bit size are taken off it.                      *)
qtsize == IF atom.wide THEN atom.size - 8 ELSE atom.size

behind == IF atom.wide THEN filepos + 8 ELSE filepos

Ended ==
  at <= Len(atoms) => filepos >= file.size \/ (maxfilesize # 0 /\ filepos >= maxfilesize)

(* The size is unsigned: one below 8 is larger than any file.               *)
Foreign ==
  \/ at = 1 /\ atom.tag # "ftyp"
  \/ atom.tag \notin Tags
  \/ qtsize < 8
  \/ qtsize - 8 > file.size - behind

Misnested == nest + 1 >= MaxNest \/ (nest > 0 /\ qtsize > nestsize[nest])

Close ==
  /\ status' = "closed"
  /\ mp4' = Unread
  /\ UNCHANGED <<file, at, nest, nestsize, required_tags, maxfilesize, type>>

(* Mutant: one table is enough.                                             *)
HalfIndexed == mp4.metasizes # << >> \/ mp4.metaoffsets # << >>

Indexed == mp4.metasizes # << >> /\ mp4.metaoffsets # << >>

(* The pass is over: there is an index if both tables were found.           *)
Finish ==
  IF ~Indexed
  THEN Close
  ELSE /\ status' = "open"
       /\ mp4' = [mp4 EXCEPT !.indexcount = Len(mp4.metasizes)]
       /\ UNCHANGED <<file, at, nest, nestsize, required_tags, maxfilesize, type>>

Reading == status = "reading"

EndPass == Reading /\ (~Ended => ~Foreign /\ Misnested) /\ Finish

RejectFile == Reading /\ ~Ended /\ Foreign /\ Close

-----------------------------------------------------------------------------
(* NESTSIZE: x bytes of every open atom are accounted for, and those with   *)
(* no room for another atom are left.                                       *)
Open(sizes, n) == {i \in 1..n : \A j \in i..n : sizes[j] > 0}

(* Mutant: only the innermost atom is told.                                 *)
AccountedInner(sizes, n, x) ==
  [sizes EXCEPT ![n] = IF @ - x <= 8 THEN 0 ELSE @ - x]

Accounted(sizes, n, x) ==
  LET told(left) == IF left > 8 THEN left ELSE 0
  IN [i \in DOMAIN sizes |->
        IF i \in Open(sizes, n) THEN told(sizes[i] - x) ELSE sizes[i]]

StillOpen(sizes, n, x) == n - Cardinality({i \in Open(sizes, n) : sizes[i] - x <= 8})

Entered == Reading /\ ~Ended /\ ~Foreign /\ ~Misnested

(* The first of the next atoms that does not begin before a place.          *)
AtomAt(place) ==
  CHOOSE j \in (at + 1)..(Len(atoms) + 1) :
    /\ j > Len(atoms) \/ atoms[j].off >= place
    /\ j > at + 1 => atoms[j - 1].off < place

(* The atom was one of those listed, and x bytes of it are behind us.       *)
Past(x) ==
  LET inside == [nestsize EXCEPT ![nest + 1] = qtsize]
  IN /\ at' = AtomAt(behind + x - 8)
     /\ nestsize' = Accounted(inside, nest + 1, x)
     /\ nest' = StillOpen(inside, nest + 1, x)
     /\ UNCHANGED <<file, status>>

Is(tag) == Entered /\ atom.tag = tag

(* moov and mdat are both needed: the pass ends with the second of them.    *)
Required ==
  /\ required_tags' = required_tags + 1
  /\ maxfilesize' = IF required_tags + 1 >= 2 THEN behind + qtsize ELSE maxfilesize

SkipAtom ==
  /\ Entered /\ atom.tag \notin Containers \union Tables
  /\ Past(qtsize)
  /\ IF atom.tag = "mdat" THEN Required ELSE UNCHANGED <<required_tags, maxfilesize>>
  /\ UNCHANGED <<type, mp4>>

(* Mutant: the tracks are counted without end.                              *)
NextTrackFree(n) == n + 1

NextTrack(n) == IF n + 1 < MaxTracks THEN n + 1 ELSE n

EnterContainer ==
  /\ Entered /\ atom.tag \in Containers
  /\ Past(8)
  /\ IF atom.tag = "moov" THEN Required ELSE UNCHANGED <<required_tags, maxfilesize>>
  /\ mp4' = IF atom.tag = "trak" THEN [mp4 EXCEPT !.trak_num = NextTrack(@)] ELSE mp4
  /\ UNCHANGED type

(* Every table is skipped to its end, whatever of it was read.              *)
Learn(m) == Past(qtsize) /\ mp4' = m /\ UNCHANGED <<required_tags, maxfilesize>>

ReadMvhd ==
  /\ Is("mvhd")
  /\ Learn([mp4 EXCEPT !.clockdemon = atom.body.demon])
  /\ UNCHANGED type

ReadMdhd ==
  /\ Is("mdhd")
  /\ IF atom.body.demon = 0 \/ atom.body.count = 0
     THEN Close
     ELSE /\ Learn([mp4 EXCEPT !.trak_clockdemon = atom.body.demon,
                               !.trak_clockcount = atom.body.count])
          /\ UNCHANGED type

ReadHdlr ==
  /\ Is("hdlr")
  /\ Learn(mp4)
  /\ type' = IF atom.body \in {"alis", "url"} THEN type ELSE atom.body

ReadStsd ==
  /\ Is("stsd")
  /\ Learn(mp4)
  /\ type' = IF type = "meta" /\ atom.body # "gpmd" THEN "none" ELSE type

EmptyEdit == 0 - 1

(* Mutant: every edit advances the track.                                   *)
OffsetEvery(edits, trak, movie) ==
  LET shift(i) == IF edits[i].media = EmptyEdit THEN edits[i].duration
                  ELSE 0 - ((edits[i].media * movie) \div trak)
  IN FoldFunction(+, 0, [i \in DOMAIN edits |-> shift(i)])

(* An edit list, in the clock of the movie: an empty edit delays the track, *)
(* and a first edit that starts inside the media advances it.  The track is *)
(* the one whose header came last, its clock and type those known by now.   *)
Offset(edits, trak, movie) ==
  LET shift(i) == IF edits[i].media = EmptyEdit THEN edits[i].duration
                  ELSE IF i = 1 THEN 0 - ((edits[i].media * movie) \div trak)
                  ELSE 0
  IN FoldFunction(+, 0, [i \in DOMAIN edits |-> shift(i)])

ReadEdts ==
  /\ Is("edts")
  /\ IF atom.num > qtsize \div 12 \/ mp4.trak_clockdemon = 0
     THEN Learn(mp4)
     ELSE LET t   == mp4.trak_num
              sum == mp4.trak_edit_list_offsets[t]
                       + Offset(atom.body, mp4.trak_clockdemon, mp4.clockdemon)
          IN Learn([mp4 EXCEPT !.trak_edit_list_offsets[t] = sum,
                               !.metadataoffset_clockcount = IF type = "meta" THEN sum ELSE @])
  /\ UNCHANGED type

-----------------------------------------------------------------------------
(* The tables of the metadata track.                                        *)

SkipTable(tag) == Is(tag) /\ type # "meta" /\ Learn(mp4) /\ UNCHANGED type

Trusting(m) == Learn(m) /\ UNCHANGED type

ReadStsc ==
  \/ SkipTable("stsc")
  \/ /\ Is("stsc") /\ type = "meta"
     /\ IF atom.num > qtsize \div 12 THEN Trusting(mp4)
        ELSE IF atom.num = 0 \/ qtsize = 12 * atom.num THEN Close
        ELSE Trusting([mp4 EXCEPT !.metastsc = atom.body])

ReadStsz ==
  \/ SkipTable("stsz")
  \/ /\ Is("stsz") /\ type = "meta"
     /\ LET equal == atom.body.equal
        IN IF qtsize < 20 + 4 * atom.num /\ (equal = 0 \/ qtsize # 20) THEN Trusting(mp4)
           ELSE IF atom.num \notin 1..(MaxEntries - 1) THEN Close
           ELSE Trusting([mp4 EXCEPT !.metasizes =
                  IF equal = 0 THEN atom.body.sizes ELSE [k \in 1..atom.num |-> equal]])

(* Mutant: a chunk begins one sample late.                                  *)
NewChunkLate(k, samples) == k # 0 /\ samples # 0 /\ k % samples = 1 % samples

(* The offsets of all samples from those of their chunks: the first run of  *)
(* the sample-to-chunk table is taken for all of them.  A table starts at   *)
(* chunk 1 (chunk_num - 1 is 0).  Files with co64 have no run of 0 samples: *)
(* the code divides by it.                                                  *)
NewChunk(k, samples) == k # 0 /\ samples # 0 /\ k % samples = 0

Chunked(chunks, sizes, samples) ==
  LET pos(k) == 1 + Cardinality({j \in 1..k : NewChunk(j, samples)})
      f[k \in 0..(Len(sizes) - 1)] ==
        IF k = 0 \/ NewChunk(k, samples)
        THEN IF pos(k) <= Len(chunks) THEN chunks[pos(k)] ELSE NoOffset
        ELSE IF f[k - 1] = NoOffset THEN NoOffset ELSE f[k - 1] + sizes[k]
  IN [k \in 1..Len(sizes) |-> f[k - 1]]

Joined ==
  [mp4 EXCEPT !.metaoffsets = Chunked(atom.body, mp4.metasizes, mp4.metastsc[1].samples),
              !.metastsc = << >>]

(* Mutant: chunks are taken before the sizes are known.                     *)
Hopeful == FALSE

Unsized == mp4.metasizes = << >>

Chunks == mp4.metastsc # << >> /\ atom.num # Len(mp4.metasizes)

(* Two guards of a table of chunks, whose entries are of so many bytes.  The *)
(* 16 bytes before the entries are taken off an unsigned size, so that a    *)
(* smaller atom lets every count pass; the other guard is against the size  *)
(* with these bytes.                                                        *)
CountFits(bytes) == qtsize < 16 \/ atom.num <= (qtsize - 16) \div bytes

Overlong(bytes) == qtsize <= bytes * atom.num

ReadStco ==
  \/ SkipTable("stco")
  \/ /\ Is("stco") /\ type = "meta"
     /\ IF ~CountFits(4) THEN Trusting(mp4)
        ELSE IF atom.num \notin 1..(MaxEntries - 1) \/ Overlong(4) \/ Unsized THEN Close
        ELSE Trusting(IF Chunks THEN Joined ELSE [mp4 EXCEPT !.metaoffsets = atom.body])

ReadCo64 ==
  \/ SkipTable("co64")
  \/ /\ Is("co64") /\ type = "meta"
     /\ IF atom.num = 0 THEN Close
        ELSE IF ~CountFits(8) \/ atom.num >= MaxEntries THEN Trusting(mp4)
        ELSE IF Overlong(8) \/ Unsized
             THEN IF Chunks THEN Close ELSE Trusting([mp4 EXCEPT !.metaoffsets = << >>])
        ELSE Trusting(IF Chunks THEN Joined ELSE [mp4 EXCEPT !.metaoffsets = atom.body])

-----------------------------------------------------------------------------
(* The time of the samples: runs of samples of one duration.                *)

(* Mutant: the last run sets the duration, a shorter one too.               *)
TimedLast(acc, run, runs) ==
  LET samples == acc.samples + run.count
      length  == acc.length + run.count * run.duration
  IN [samples |-> samples, length |-> length, base |-> <<run.duration, 1>>]

(* The totals after a run of the table of `runs` runs.                      *)
Timed(acc, run, runs) ==
  LET samples == acc.samples + run.count
      length  == acc.length + run.count * run.duration
  IN [samples |-> samples, length |-> length,
      base |-> IF run.count > 1 \/ runs = 1 \/ acc.base[1] = 0
               THEN <<length, samples>> ELSE acc.base]

MetaTimes ==
  IF atom.num > qtsize \div 8 THEN Trusting(mp4)
  ELSE IF mp4.trak_clockdemon = 0 THEN Close
  ELSE LET start == [samples |-> 0, length |-> mp4.metadatalength,
                     base |-> mp4.basemetadataduration]
           all == FoldLeft(LAMBDA acc, run : Timed(acc, run, Len(atom.body)), start, atom.body)
       IN Trusting([mp4 EXCEPT !.meta_clockdemon = mp4.trak_clockdemon,
                               !.metadatalength = all.length,
                               !.basemetadataduration = all.base])

VideoTimes ==
  IF atom.num > qtsize \div 8 \/ atom.num >= MaxEntries THEN Trusting(mp4)
  ELSE LET frames == FoldFunction(+, 0, [i \in DOMAIN atom.body |-> atom.body[i].count])
           first == IF mp4.trak_clockdemon = 0 THEN Len(atom.body) ELSE 1
           rate == IF mp4.video.rate[1] = 0 /\ atom.body # << >>
                   THEN <<mp4.trak_clockdemon, atom.body[first].duration>> ELSE mp4.video.rate
       IN Trusting([mp4 EXCEPT !.video = [frames |-> frames, rate |-> rate]])

ReadStts ==
  \/ Is("stts") /\ type \notin {"meta", "vide"} /\ Trusting(mp4)
  \/ Is("stts") /\ type = "vide" /\ VideoTimes
  \/ Is("stts") /\ type = "meta" /\ MetaTimes

Next ==
  \/ EndPass \/ RejectFile \/ SkipAtom \/ EnterContainer
  \/ ReadMvhd \/ ReadMdhd \/ ReadHdlr \/ ReadStsd \/ ReadEdts
  \/ ReadStsc \/ ReadStsz \/ ReadStco \/ ReadCo64 \/ ReadStts

Spec == Init /\ [][Next]_vars

-----------------------------------------------------------------------------
(* GetPayloadTime, in ticks: fractions, moved by the edit list, whose clock *)
(* is that of the movie.                                                    *)
PayloadTime(index) ==
  LET b == mp4.basemetadataduration
      edited(q) == <<q[1] * mp4.clockdemon + mp4.metadataoffset_clockcount * mp4.meta_clockdemon * q[2],
                     q[2] * mp4.clockdemon>>
  IN [in  |-> edited(<<index * b[1], b[2]>>),
      out |-> edited(IF (index + 1) * b[1] > mp4.metadatalength * b[2]
                     THEN <<mp4.metadatalength, 1>> ELSE <<(index + 1) * b[1], b[2]>>)]

-----------------------------------------------------------------------------
(* What every variable holds.                                               *)
TypeOK ==
  /\ at \in 1..(Len(atoms) + 1)
  /\ nest \in 0..(MaxNest - 1)
  /\ nestsize \in [1..MaxNest -> Nat]
  /\ required_tags \in Nat /\ maxfilesize \in Nat
  /\ type \in {"none", "meta", "vide", "soun"}
  /\ status \in {"reading", "open", "closed"} \union {"searching", "global", "empty", "astray"}
  /\ mp4.trak_num \in 0..(MaxTracks - 1)
  /\ mp4.metasizes \in Seq(Nat) /\ mp4.metaoffsets \in Seq(Nat \union {NoOffset})

whole == file.whole

truth == file.truth

(* The bytes still to come of the containers around the next atom, the      *)
(* outermost first; one with no room for another atom is left already.      *)
Around ==
  LET left(j)  == atoms[j].off + atoms[j].size - atom.off
      boxes    == {j \in 1..(at - 1) : atoms[j].tag \in Containers /\ left(j) > 8}
      nth(i)   == CHOOSE j \in boxes : Cardinality({k \in boxes : k < j}) = i - 1
  IN [i \in 1..Cardinality(boxes) |-> left(nth(i))]

(* The books of the nesting are right at every atom of a whole file, so     *)
(* that the pass is never given up as misnested, and opens what it should.  *)
NestKept ==
  status = "reading" /\ whole /\ at <= Len(atoms) => SubSeq(nestsize, 1, nest) = Around

(* The offset of a sample by the definition of the format: each run of the  *)
(* sample-to-chunk table holds up to the first chunk of the next.           *)
SamplesIn(m) ==
  LET r == CHOOSE i \in DOMAIN truth.runs :
             /\ truth.runs[i].chunk <= m
             /\ \A j \in DOMAIN truth.runs : truth.runs[j].chunk <= m => j <= i
  IN truth.runs[r].samples

SamplesBefore(m) == FoldFunction(+, 0, [j \in 1..(m - 1) |-> SamplesIn(j)])

SampleOffset(k) ==
  LET m == CHOOSE c \in DOMAIN truth.chunks :
             SamplesBefore(c) < k /\ k <= SamplesBefore(c + 1)
  IN truth.chunks[m]
       + FoldFunction(+, 0, [j \in (SamplesBefore(m) + 1)..(k - 1) |-> truth.sizes[j]])

(* All chunks but the last hold as many samples.                            *)
Uniform == \A m \in 1..(Len(truth.chunks) - 1) : SamplesIn(m) = SamplesIn(1)

(* Sizes and sample-to-chunk runs are known before the chunks are.          *)
Before(tag, other) ==
  \E i, j \in DOMAIN file.order : i < j /\ file.order[i] = tag /\ file.order[j] = other

ChunksLast == Before("stsc", "stco") /\ Before("stsz", "stco")

RightIndex ==
  /\ mp4.metasizes = truth.sizes
  /\ mp4.indexcount = Len(truth.sizes)
  /\ mp4.metaoffsets = [k \in 1..Len(truth.sizes) |-> SampleOffset(k)]

(* A file as cameras write it is opened in the end, and every payload of    *)
(* the index has its size and the offset the format gives it.               *)
IndexRight ==
  Reading /\ whole /\ Uniform /\ ChunksLast => <>(status = "open" /\ RightIndex)

(* A file with one damaged atom is refused, or the damage does not matter:  *)
(* the tables of one track are never joined with those of another.  Without *)
(* its sample-to-chunk runs the reader takes every chunk for a payload.     *)
DamageRefused ==
  status = "open" /\ ChunksLast /\ Uniform /\ file.hit # "stsc" => RightIndex

(* Chunks that come before the sizes make no index.                         *)
SizesFirst == status = "open" => Before("stsz", "stco")

(* All samples last as long, but for a last one that is shorter.            *)
Steady ==
  LET times == truth.times
  IN \/ Len(times) = 1
     \/ Len(times) = 2 /\ times[2].count = 1 /\ times[2].duration <= times[1].duration

SampleEnd(k) ==
  FoldFunction(+, 0, [i \in DOMAIN truth.times |->
    LET before == FoldFunction(+, 0, [j \in 1..(i - 1) |-> truth.times[j].count])
        here   == Max({0, Min({truth.times[i].count, k - before})})
    IN here * truth.times[i].duration])

(* The empty edits of the track, less where a first edit begins.            *)
EditsDue ==
  LET e == truth.edits
      delays == {i \in DOMAIN e : e[i].media = EmptyEdit}
      advance == IF e # << >> /\ 1 \notin delays
                 THEN (e[1].media * truth.movie) \div truth.demon ELSE 0
  IN FoldFunction(+, 0, [i \in delays |-> e[i].duration]) - advance

(* The times of the payloads are those of their samples, moved by the edits *)
(* of the track where these are known (GetPayloadTime).                     *)
TimesRight ==
  LET due == IF file.late /\ file.tracks < MaxTracks THEN EditsDue
             ELSE mp4.metadataoffset_clockcount
      shown(q, n) == q[1] * truth.movie = (n * truth.movie + due * truth.demon) * q[2]
  IN status = "open" /\ whole /\ Steady =>
       \A k \in 0..(mp4.indexcount - 1) :
         /\ shown(PayloadTime(k).in, SampleEnd(k))
         /\ shown(PayloadTime(k).out, SampleEnd(k + 1))

(* The edit list reported for the payloads is that of the GPMF track.       *)
EditsOfTrack ==
  status = "open" /\ whole /\ file.tracks < MaxTracks =>
    mp4.metadataoffset_clockcount = EditsDue

(* ... when the list follows the media of its track.                        *)
LateEditsOfTrack == file.late => EditsOfTrack
=============================================================================
