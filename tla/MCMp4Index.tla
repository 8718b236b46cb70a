----------------------------- MODULE MCMp4Index -----------------------------
(***************************************************************************)
(* The files the runs of the reader are given, put together box by box.    *)
(***************************************************************************)
EXTENDS Mp4Udta

(* A fragment is a sequence of atoms, each with its depth in the fragment   *)
(* and the bytes that are its own: those of the atoms in it are not.        *)
Leaf(tag, own, num, body) ==
  <<[tag |-> tag, depth |-> 0, own |-> own, wide |-> FALSE, num |-> num, body |-> body]>>

Deeper(frag) == [i \in DOMAIN frag |-> [frag[i] EXCEPT !.depth = @ + 1]]

Box(tag, frags) == Leaf(tag, 8, 0, 0) \o Deeper(FlattenSeq(frags))

(* The atoms of a file, with their places and sizes.                        *)
Laid(frag) ==
  LET n == Len(frag)
      offs[i \in 1..(n + 1)] == IF i = 1 THEN 0 ELSE offs[i - 1] + frag[i - 1].own
      off  == offs @@ << >>
      next(i) == CHOOSE j \in (i + 1)..(n + 1) :
                   /\ j = n + 1 \/ frag[j].depth <= frag[i].depth
                   /\ \A k \in (i + 1)..(j - 1) : frag[k].depth > frag[i].depth
  IN [i \in 1..n |->
        [tag |-> frag[i].tag, off |-> off[i], size |-> off[next(i)] - off[i],
         wide |-> frag[i].wide, num |-> frag[i].num, body |-> frag[i].body]] @@ << >>

Hdlr(what) == Leaf("hdlr", 32, 0, what)
Mdhd(demon, count) == Leaf("mdhd", 32, 0, [demon |-> demon, count |-> count])
Stsd(what) == Leaf("stsd", 24, 0, what)
Stts(runs) == Leaf("stts", 16 + 8 * Len(runs), Len(runs), runs)
Stsc(runs) == Leaf("stsc", 16 + 12 * Len(runs), Len(runs), runs)
Edts(edits) == Leaf("edts", 24 + 12 * Len(edits), Len(edits), edits)
Stco(offs) == Leaf("stco", 16 + 4 * Len(offs), Len(offs), offs)
Co64(offs) == Leaf("co64", 16 + 8 * Len(offs), Len(offs), offs)

AllEqual(sizes) == \A i \in DOMAIN sizes : sizes[i] = sizes[1]

Stsz(sizes) ==
  LET equal == AllEqual(sizes) /\ Len(sizes) > 1
  IN Leaf("stsz", IF equal THEN 20 ELSE 20 + 4 * Len(sizes), Len(sizes),
          [equal |-> IF equal THEN sizes[1] ELSE 0, sizes |-> sizes])

Table(tag, t, co) ==
  CASE tag = "stts" -> Stts(t.times)
    [] tag = "stsc" -> Stsc(t.runs)
    [] tag = "stsz" -> Stsz(t.sizes)
    [] tag = "stco" -> IF co = "stco" THEN Stco(t.chunks) ELSE Co64(t.chunks)

Trak(what, format, t, order, co, late) ==
  LET stbl == Box("stbl", <<Stsd(format)>> \o [i \in DOMAIN order |-> Table(order[i], t, co)])
      mdia == Box("mdia", <<Mdhd(t.demon, 100), Hdlr(what),
                            Box("minf", <<Hdlr("alis"), Box("dinf", << >>), stbl>>)>>)
  IN Box("trak", <<Leaf("tkhd", 20, 0, 0)>> \o
       (IF late THEN <<mdia, Edts(t.edits)>> ELSE <<Edts(t.edits), mdia>>))

Camera == <<"stts", "stsc", "stsz", "stco">>

Run(chunk, samples) == [chunk |-> chunk, samples |-> samples]
Time(count, duration) == [count |-> count, duration |-> duration]
Delay(d) == [media |-> EmptyEdit, duration |-> d]
From(m) == [media |-> m, duration |-> 50]

Video == [sizes |-> <<90, 80>>, chunks |-> <<40, 140>>, runs |-> <<Run(1, 1)>>,
          times |-> <<Time(2, 5)>>, edits |-> <<From(4)>>, demon |-> 50, movie |-> 100]

TruthOf(sizes, chunks, runs, times, edits) ==
  [sizes |-> sizes, chunks |-> chunks, runs |-> runs, times |-> times, edits |-> edits,
   demon |-> 200, movie |-> 100]

(* One sample to a chunk; two or three with a short last chunk; all in one; *)
(* sizes all equal or not.                                                  *)
Truths ==
  <<TruthOf(<<8, 12, 16>>, <<500, 600, 700>>, <<Run(1, 1)>>, <<Time(3, 10)>>, <<Delay(7), From(20)>>),
   TruthOf(<<8, 12, 16, 20, 24>>, <<500, 600, 700>>, <<Run(1, 2), Run(3, 1)>>,
           <<Time(4, 10), Time(1, 6)>>, <<From(20), Delay(3)>>),
   TruthOf(<<8, 8, 8, 8>>, <<500, 600>>, <<Run(1, 3), Run(2, 1)>>, <<Time(3, 4), Time(1, 3)>>, << >>),
   TruthOf(<<8, 12>>, <<500>>, <<Run(1, 2)>>, <<Time(1, 10), Time(1, 6)>>, <<From(6)>>),
   TruthOf(<<8>>, <<500>>, <<Run(1, 1)>>, <<Time(1, 9)>>, <<Delay(5)>>),
   \* chunks of different lengths, and times that vary
   TruthOf(<<8, 12, 16, 20>>, <<500, 600, 700>>, <<Run(1, 1), Run(2, 2), Run(3, 1)>>,
           <<Time(1, 10), Time(2, 2), Time(1, 20)>>, <<From(2), From(4)>>)>>

Ftyp == Leaf("ftyp", 20, 0, 0)
Udta == Leaf("udta", 40, 0, 0)
Mdat(wide) == <<[Leaf("mdat", 900, 0, 0)[1] EXCEPT !.wide = wide]>>

Movie(t, o) ==
  Box("moov", <<Leaf("mvhd", 40, 0, [demon |-> t.movie])>>
    \o [i \in 1..(o.tracks - 1) |->
          IF i = 1 THEN Trak("vide", "avc1", Video, Camera, "stco", o.late)
          ELSE Trak(IF i = 2 THEN "soun" ELSE "meta", "fdsc", Video, Camera, "stco", o.late)]
    \o <<Trak("meta", "gpmd", t, o.order, o.co, o.late), Udta>>)

FileOf(o) ==
  LET t == Truths[o.truth]
      all == Laid(FlattenSeq(
        IF o.moov = "first" THEN <<Ftyp, Movie(t, o), Mdat(TRUE), Udta>>
                            ELSE <<Ftyp, Mdat(FALSE), Movie(t, o), Udta>>))
  IN [atoms |-> all, size |-> all[Len(all)].off + 40, whole |-> TRUE,
      order |-> o.order, late |-> o.late, tracks |-> o.tracks, truth |-> t, hit |-> "none"]

(* A table of files, written out when TLC evaluates the constant.           *)
Shelf(f) == f @@ << >>

Orders ==
  {s \in [1..4 -> {"stts", "stsc", "stsz", "stco"}] : \A i, j \in 1..4 : i # j => s[i] # s[j]}

Whole ==
  Shelf([o \in [truth: DOMAIN Truths, order: {Camera}, late: BOOLEAN, moov: {"first", "last"},
                co: {"stco", "co64"}, tracks: {1, 2, 4}] |-> FileOf(o)])

Ordered ==
  Shelf([o \in [truth: DOMAIN Truths, order: Orders, late: {TRUE}, moov: {"last"},
                co: {"stco", "co64"}, tracks: {1}] |-> FileOf(o)])

(* One atom damaged: absent, of no known name, larger than what holds it    *)
(* (or, moov, as large as the rest of the file) or smaller than a header,   *)
(* with too many entries or none, without a clock; or the file cut at it.   *)
(* A table of chunks may be too small for the counts of its own, and then   *)
(* the next header is read from its entries, which are none.                *)
Hits == {"absent", "foreign", "swollen", "tiny", "short", "huge", "empty", "stopped", "cut"}

Hit(f, i, how) ==
  LET a == f.atoms[i]
      new == CASE how = "absent"  -> [a EXCEPT !.tag = IF a.tag \in Tables THEN "tkhd" ELSE @]
               [] how = "foreign" -> [a EXCEPT !.tag = "?"]
               [] how = "swollen" /\ a.tag \notin {"ftyp", "mdat"} /\ i # Len(f.atoms) ->
                    [a EXCEPT !.size = f.size - a.off]
               [] how = "tiny"    -> [a EXCEPT !.size = 4]
               [] how = "short" /\ a.tag \in {"stco", "co64"} -> [a EXCEPT !.size = 12]
               [] how = "huge"    -> [a EXCEPT !.num = 1000]
               [] how = "empty" /\ a.tag = "stsz" -> [a EXCEPT !.num = 0, !.body.sizes = << >>]
               [] how = "empty" /\ a.tag \in {"stsc", "stco", "co64", "stts", "edts"} ->
                    [a EXCEPT !.num = 0, !.body = << >>]
               [] how = "stopped" /\ a.tag = "mdhd" -> [a EXCEPT !.body.demon = 0]
               [] OTHER -> a
      entries == [a EXCEPT !.tag = "?", !.off = @ + 12, !.size = @ - 12]
      with == [f.atoms EXCEPT ![i] = new]
  IN [f EXCEPT !.atoms = IF new.size = 12 /\ new # a THEN InsertAt(with, i + 1, entries) ELSE with,
               !.size = IF how = "cut" THEN a.off + 9 ELSE @,
               !.whole = FALSE, !.hit = a.tag]

Damaged ==
  LET base(t, co) == FileOf([truth |-> t, order |-> Camera, late |-> TRUE, moov |-> "last",
                             co |-> co, tracks |-> 4])
      bases == <<base(1, "stco"), base(2, "stco"), base(3, "co64")>>
  IN Shelf([d \in UNION {[of: {b}, atom: DOMAIN bases[b].atoms, how: Hits] : b \in DOMAIN bases}
              |-> Hit(bases[d.of], d.atom, d.how)])

(* User data of the movie with a payload or without, in front of the tracks *)
(* or behind them, and with a name that is no fourcc as its first.          *)
UserData(kept, named) ==
  Box("udta", (IF named THEN << >> ELSE <<Leaf("?", 30, 0, 0)>>)
                \o <<Leaf("FIRM", 22, 0, 0)>>
                \o [i \in 1..kept |-> Leaf("GPMF", 64, 0, 0)] \o <<Leaf("FIRM", 12, 0, 0)>>)

GlobalFile(o) ==
  LET t     == Truths[1]
      trak  == Trak("meta", "gpmd", t, Camera, "stco", TRUE)
      user  == UserData(o.kept, o.named)
      mvhd  == Leaf("mvhd", 40, 0, [demon |-> t.movie])
      movie == Box("moov", <<mvhd>> \o IF o.user = "first" THEN <<user, trak>> ELSE <<trak, user>>)
      all   == Laid(FlattenSeq(
        (IF o.moov = "first" THEN <<Ftyp, movie, Mdat(o.wide)>> ELSE <<Ftyp, Mdat(o.wide), movie>>)
          \o IF o.more THEN <<Udta>> ELSE << >>))
  IN [atoms |-> all, size |-> all[Len(all)].off + all[Len(all)].size, whole |-> TRUE,
      order |-> Camera, late |-> TRUE, tracks |-> 1, truth |-> t, hit |-> "none"]

Global ==
  Shelf([o \in [kept: 0..1, named: BOOLEAN, user: {"first", "last"}, moov: {"first", "last"},
                wide: BOOLEAN, more: BOOLEAN] |-> GlobalFile(o)])

Library == Shelf(Whole @@ Ordered @@ Damaged @@ Global)

(* TLC evaluates the tables once, and these at every use.                   *)
AllFiles == Library

WholeFiles == Whole @@ Ordered
=============================================================================
