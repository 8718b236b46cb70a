# A verification of gpmf-parser in TLA+

gpmf-parser reads GPMF, the telemetry track of GoPro cameras: a C library that
walks a buffer of nested KLV (key, length, value) entries, helpers that turn the
samples into numbers and rates, an MP4 reader that finds the payloads in a file,
a demo program, and an exporter to CSV and XML. The library is single-threaded
and keeps nothing on disk. Its difficulty is not in concurrency but in long
sequences of legal calls on a stateful cursor whose books (a level, a remaining
size and a parent per level) every call updates by increments, in the same
calls on damaged buffers, and in indexes joined from tables of different length.

## The system

| component | state | operations | who uses it |
|---|---|---|---|
| KLV format (`GPMF_common.h`) | none: 32-bit words, a FourCC key, a type-size-repeat word, data padded to words | size and key macros, `GPMF_SizeofType`, `GPMF_Reserved` | all |
| Stream and navigation (`GPMF_parser.c:42-690`) | `GPMF_stream`: `pos`, `nest_level`, `nest_size[]`, `last_level_pos[]`, `last_seek[]`, `device_id`, `device_name` | `GPMF_Init`, `ResetState`, `CopyState`, `Next`, `FindNext`, `FindPrev`, `SeekToSamples`, `PayloadSampleCount` | utilities, demo, exporter |
| Validation (`:74-197`) | the stream, `device_count` | `GPMF_Validate` | demo |
| Modification (`:883-1031`) | the buffer itself | `GPMF_Modify`, byte swapping | callers that edit a file |
| Typed data (`:695-880`, `:1035-1894`) | none | `Type`, `StructSize`, `ElementsInStruct`, `Repeat`, `FormattedData`, `ScaledData`, TYPE expansion | demo, exporter |
| Compression (`:1898-2284`) | a code book, the stream's `cbhandle` | `AllocCodebook`, `Decompress`, `Free` | `FormattedData`, `ScaledData` |
| Sample rate (`GPMF_utils.c`) | locals over several payloads | `GetGPMFSampleRate` | demo, exporter |
| MP4 reader (`demo/GPMF_mp4reader.c`) | `mp4object`: index of sizes and offsets, time scales; a payload resource | `OpenMP4Source`, `GetPayload*`, `WritePayload`, `CloseSource`, `OpenMP4SourceUDTA` | demo, exporter, sample rate (as callbacks) |
| Demo, printing (`demo/GPMF_demo.c`, `GPMF_print.c`) | none | read and print a file | - |
| Exporter (`exporter/`) | the entries of a payload by key, two open files, CSV rows by time | collect, merge, CSV, XML | - |

Calls go downwards only: the programs open a file with the MP4 reader, take one
payload after the other into one buffer, and put one or more streams on it. The
sample rate is handed the reader's functions as callbacks. Streams share the
buffer, nothing else; a finder is normally run on a copy of a stream
(`GPMF_CopyState`), and a stream that met an error is rewound
(`GPMF_ResetState`) before it is used again (`GPMF_demo.c:303-320, 384-392,
515`, `exporter/main.cpp:153-239, 425`).

What makes each part correct:

* navigation: a stream is on an entry of its buffer and its books are those of
  that entry; what a call answers depends on the forest of entries and the place
  alone, not on the way there; a failed search leaves no trace; on any buffer
  sizes never wrap, a live stream stays inside, and every call ends;
* validation: accepts what a writer produces, and what it accepts can be walked;
* modification: changes one entry, found where documented, of the same size;
* typed data and compression: every element is read once, within its entry, and
  put in its place of the caller's buffer; the size the caller was told suffices;
  the decoder stays in step with the bits of the stream;
* sample rate: counts the samples between the first and last payload that have
  the key, whichever of its ways of counting it takes;
* MP4 reader: the payload index lists the chunks in file order whatever the
  order of the boxes; a payload resource is as large as what is read into it;
* exporter: every sample in its row and column, under its key, name and unit, in
  files that are complete however the export ends.

## Modules

| module | what it is |
|---|---|
| `GpmfFormat` | words, types, keys; a payload as a buffer with the outline it was written from; `Sound`, what a writer produces |
| `GpmfCursor` | the `GPMF_stream` record and one pass of `GPMF_Next` as a pure operator; extended by the three state machines on payloads |
| `GpmfOnKlv` | what the books of a stream say on a sound payload, level by level; the proofs and the properties of walks share it |
| `GpmfNav` | several streams on one payload, every navigation call step by step |
| `KlvCursor` | the abstract specification of `GpmfNav`: a place in a forest, a call answered in one step |
| `GpmfNavClaims` | what the header says of navigation and the code does not do |
| `GpmfValidate` | `GPMF_Validate` and the walk of `GPMF_Next` on the same stream |
| `GpmfModify` | `GPMF_Modify` between the steps of a caller's stream |
| `Mp4Index` | `OpenMP4Source`: the pass over the atoms that builds the index |
| `Mp4Udta` | `OpenMP4SourceUDTA`, the other pass, for the one payload in the user data of the movie; extends `Mp4Index`, whose files it opens |
| `Mp4Payloads` | the payload buffers of an open file: `GetPayloadResource`, `GetPayload`, `FreePayloadResource`, `WritePayload` |
| `SampleRate` | `GetGPMFSampleRate` |
| `Codebook` | the prefix codes, and the code book `GPMF_AllocCodebook` makes of them: what each window of 16 bits stands for |
| `Decompress` | `GPMF_Decompress` turn by turn: the two words read ahead, the codes, the channels |
| `TypedData` | the getters of size, TYPE, `GPMF_FormattedData` and `GPMF_ScaledData` element by element, on entries that are plain, complex or compressed; extends `Decompress` |
| `Exporter` | the export of a file: payloads, entries by key, the two writers |
| `GpmfKlvProofs` | TLAPS proofs about one pass of `GPMF_Next`: on any payload, then on a sound one |
| `GpmfPromiseProofs` | the TLAPS proof that `GpmfNav` implements `KlvCursor` |
| `GpmfNavProofs`, `GpmfValidateProofs`, `GpmfModifyProofs`, `Mp4Proofs`, `Mp4PayloadsProofs`, `SampleRateProofs` | TLAPS proofs of each of these state machines, for every value of its constants |
| `MCPayloads` | an encoder of payloads, and damage to them |
| `MCGpmfNav`, `MCGpmfValidate`, `MCGpmfModify`, `MCMp4Index`, `MCMp4Payloads`, `MCSampleRate`, `MCTypedData`, `MCExporter` | what each module is given by TLC |

Each state machine checks one side of an interface and assumes the other:
`Mp4Index` shows that the index is right and `Mp4Payloads` starts from any index
whose payloads do not overlap; `GpmfNav`, `GpmfValidate` and `GpmfModify` start
from a payload in memory; `SampleRate` sees of a payload what the finders of
`GpmfNav` answer about one key. `TypedData` is given an entry with what the
finders find beside it (TYPE, SCAL, the matrices), and `Exporter` what
`GPMF_SeekToSamples`, the finders and `GPMF_ScaledData` answer about each stream.

### The format and the cursor

A word of the buffer is a record with both its readings, as a key and as a
type-size-repeat triple; keys and types are strings compared for identity; the
data words are opaque. `GpmfCursor!Stream` is the C struct field by field
(`last_seek` is the local `call.mark` of a running `GPMF_FindPrev`;
`device_count` is a variable of `GpmfValidate`, the only code that changes it;
the code book is not used here). `GPMF_Next(words, ms, flags)` follows the
function: `IsValidSize`, `Advance` (step over, open a nest, start a device),
`Settle` (padding, used-up levels), `Land` (key, size, type, device name). It
returns a *set* of outcomes because `SkipLevel` may read a word past the buffer,
where any value can be.

The per-level arrays have `GPMF_NEST_LIMIT` entries, but the code tests `nest_level >
GPMF_NEST_LIMIT`, so a stream may stand one level beyond them. What it finds there are
the next fields of the struct, and the model has them as they lie in memory:
`nest_size[NestLimit]` is `last_seek[0]`, which only `GPMF_ResetState` touches otherwise,
so that `nest_size` has a slot for it; a nest that is one too deep writes its place to
`last_level_pos[NestLimit]`, which is `nest_size[0]` (`OpenNest`); and `GPMF_FindPrev`
begun at that level writes to `last_seek[NestLimit]`, which is `nest_level` (`:665`). From
there on its positions come from anywhere. That is undefined behaviour, and the model
follows it no further than the answer (`FindPrevOverrun`): the stream is `raw`
afterwards, to be opened anew, and no property or theorem speaks of it.

### Navigation

`GPMF_Next` calls itself on an unknown type when the caller is tolerant. The
call is in tail position, so a pass answers `AGAIN` and the call goes on with
another step. Every loop of a finder is a step per turn. While a call runs
`call.ms` is the stream it works on and `cur[c]` is what the C code keeps in
`prevstate`. Since the program has one thread, a call starts only when none
runs; within that, any call on any stream in any order is possible, with two
provisos taken from the callers: a stream that `GPMF_Next` answered
`BAD_STRUCTURE`, or that `GPMF_FindPrev` took out of its nest, is `spent` and is
rewound or overwritten before it is walked on, and the sample count is asked for
the entry the stream stands on.

`KlvCursor` is the ideal with the three departures the code really makes, each a named
choice: a `DEVC` refused at the current level, a recursive search backwards that loses
its place or misses what is there, and `GPMF_SeekToSamples`. Of this one the header says
"find the last FourCC in the current level" (`SeekLast`); the code looks from the next
entry on, for a nest, an entry followed by its own key, or the last of its nest
(`SeekAhead`). The two agree where the samples are one entry, the last, and others
come before it; `Seek` admits both.

### Validation

`GPMF_Validate` calls itself on every nest, on the stream itself. Its
activations are the sequence `frames`: what each keeps in its locals (`currpos`,
the unsigned `nestsize`, `ret`, and the size of the nest it has called itself
for). A step is a turn of the innermost loop or a return; between validations the
program walks the stream with `GPMF_Next` or rewinds it. `vetted` and `deep`
are history, which only the properties read.

### Modification

`GPMF_Modify` overwrites the entry the stream is on if it has the key, and looks
for it on a copy (`job.fs`) if not: ahead in the nest, back to its start and
forward from there (`GPMF_FindPrev`), then from the start of the payload. A step
is a pass of `GPMF_Next` or what is done between two. The new data is known by
the word of the caller's array it came from and the units its bytes were reversed
in, so that storing it unswapped, or in the wrong units, shows. Assumed: the
payloads are sound, the new structures are whole elements, and the key that is
replaced is not `DEVC`. Data of a type without a unit is not stored by the code; the old
data stays under the new header (`Swapped`).

### The MP4 index

A file is a sequence of atoms, and what they were written from (`truth`), which
only the properties read. A step is a turn of the reader's loop: it takes the
header of the next atom off the open atoms (`nest`, `nestsize`), and enters it,
skips it, or reads its table. The joins of the tables (`stsc`, `stsz`, `stco` or
`co64`, `stts`) follow the loops of the code, with the totals of a loop as folds.
Memory is always granted: a table that cannot be allocated ends the reader's pass
as a missing table does. Sizes are unsigned as in the code where it matters: a table of
chunks of less than 16 bytes lets every count pass the first of its two checks
(`CountFits`, `Overlong`).

`OpenMP4SourceUDTA` (`Mp4Udta`) runs over the same atoms with an account of its place
(`filepos`) that is not its place: `ahead` is the difference. A 64-bit header and a
name that is no fourcc are added to it twice. `LongSeek` does not move when the
account reaches the end of the file, and the reader then takes bytes inside an atom
for a header; where it is not stopped by then, the model ends as `astray`, since
what follows is up to those bytes. A name that is no fourcc is met as the first of a
`udta` only: further behind, the code goes on by the size of the atom before it.

### The payload buffers

The demo and the exporter ask for room before every payload and keep the handle
they get (`Careful`); the sample rate asks for the first payload only and lets
`GetPayload` grow the buffer. `memory` is `"short"` when any request may be
refused. The contents of the file are versions of its payloads, so a read shows
what it read.

### The sample rate

A step is one payload read, or the code between two reads. Rates and times are
fractions, where the code has doubles: the properties are about what is summed
and divided, not about rounding. `0/0` stays a fraction that
equals nothing. The offset of a key's own clock (`TIMO`) is 0. Reading a stream
whose buffer is `NULL` is a `Crash`.

### Typed data and compression

An entry is its header, its bytes, and the entries the getters look up beside it.
The caller's buffer of formatted data is `dec.buf`, byte by byte. A scaled value is
the set of terms the code adds up: each the bytes of an element and the place they
were read at, the divisor, and the coefficient of the matrix. So the models show
what is read, turned, divided, mixed and written where; the arithmetic of doubles is
left out.

A call is a step to start (every check up to the first element, in the order of the
code, with its refusals), then a step per element; in between, a compressed entry is
decompressed by steps of `Decompress`, one per turn of its inner loop. `Turn` keeps
the two words read ahead, the bits left of each, the channel, the sum (`last`) and
the place of the next sample, as the C locals do. `Codebook` derives the meaning of
each window of 16 bits the way `GPMF_AllocCodebook` does, from the tables of
`GPMF_bitstream.h`; only the windows the entries need are evaluated.

Assumed of a program and of what a camera writes: the offset does not exceed the
repeat; structures are whole elements; an entry is whole in its nest (the walk has
checked it with `IsValidSize`); SCAL has a count of at least 1; the structure size of
compressed data is that of the entry inside it; compressed elements are integers of
1, 2 or 4 bytes; scaled compressed data are asked for from the first sample on, in a
buffer of at least the formatted size. Samples that a matrix or orientations are applied
to have at most eight elements, and their matrix fits into 64 words (`MatrixAssumption`):
the code puts a sum together in `tmpbuf[8]` and the matrix in `mtrx_buffer[64]` and holds
neither against the elements. Codes that store more samples in a channel than the entry
has make the code count down from below zero (`GPMF_parser.c:2045-2069`); a channel that
ends so is `overrun` and not followed, and `TypeOK` says that no entry of the run comes
to it.

### The exporter

A file is its payloads, a payload the sequence of its streams with what the library
answers about each. `LoadPayload` is the head of the loop, `CollectStream` a turn of
the loop over the streams, and `TypeStart`, `Write` and `TypeStop` the calls on each
writer, first XML and then CSV. A line of XML opens or closes an element or holds a
value; a row of CSV is its time, its frame and its fields. A field is what a reader of
the file finds between two delimiters, so a cell of two numbers, which the code joins by
the delimiter and writes bare, makes two fields and puts those behind it out of their
columns (`Written`). What is written to a file that is not open is lost, as with a
stream of the C++ library.

Times count units small enough for every sample. The code's are doubles and the keys of
a map, and two equal fractions of a payload need not come out as the same double: `late`
is the set of fractions `<<idx, count>>` that come out a little later than their equals
in this build, `Roundings` the sets considered. A late time is another key of the map,
next to the other, with a row of its own. Assumed: there is at least one unit, memory is
granted, no text holds the delimiter or a quote, and no two names differ by case only.

## Runs

`Modulus` stands for 2^32; it is larger than any size the words of the payloads
can claim plus any position (65536), than any count of samples (4096), and, in
`payloads`, small enough (24) that a size does wrap. `NestLimit` is 16 in the
code; 4 in `nav_sound` is deeper than any of its payloads, a nest in a stream, goes, 2 in
`nav_damaged` is the level of what is in a stream, so that a stream stands at the last
level there is, and a nest in a nest in a stream (`DeepDevice`) is one too deep; 3 in
`validate` is where damage can exceed it on a payload with one nest in a stream. In
`exporter` a payload lasts 420 units, which 1 to 7 samples divide, and the fractions of
thirds come out late or not.

| run | checks | bounds |
|---|---|---|
| `nav_sound` | `CursorOnKlv`, `DeviceNamed`, `KeepsPromise` | four sound payloads: a device with nested, empty, repeated and unknown entries; three devices; a device followed by a larger one; a small one, the only one with two streams (`LoneCursor`) |
| `nav_damaged` | `TypeOK`, `CursorInBuffer`, `CallsEnd` | a two-device payload with one word overwritten in one of nine ways; one that is whole but nested one level too deep |
| `validate` | `TypeOK`, `VettedWalks`, `VerdictOnSound`, `StreamKept` | a two-device payload with a nest in a stream and padding between, behind and instead of entries, behind the inner nest too; whole or with one key or type word damaged; three devices counted |
| `modify` | `TypeOK`, `WalksOn`, `RightEntry`, `StoredByType` | two modifications by six entries, of three keys, from every place of a two-device payload |
| `mp4` | `OpenTypeOK`, `NestKept`, `OpenedRight`, `SizesFirst`, `DamageRefused`, `TimesRight`, `LateEditsOfTrack` | whole files: six metadata tracks, `moov` first or last, 32- and 64-bit offsets, one to four tracks, edit list early or late; tables in every order; every atom damaged in nine ways; user data with a payload or without, before or behind the tracks, beginning with a proper name or not, 32- and 64-bit media |
| `payloads` | `TypeOK`, `RoomForRead`, `HandleLive`, `ReadBack` | four indexes of two or three payloads, a client of each kind, 32 bytes of file |
| `sample_rate` | `TypeOK`, `SamplesComplete`, `RateRight`, `TimesRight`, `AbsentNoRate`, `StreamOpen` | tracks of up to three payloads of 0, 2 or 3 samples and four of 0 or 2 |
| `typed_data` | `TypeOK`, `InStep`, `FormattedRight`, `ScaledRight`, `SizesSuffice` | 50 entries, of them seven compressed whose codes have every length, sit at every place of a window and run across words; buffers of the told size, larger and too small; offsets and counts from nothing to all samples |
| `exporter` | `TypeOK`, `FilesAgree`, `XmlRight`, `CsvRight` | 300 files of none to four payloads of none to three streams, with and without `-a`, one payload of no length, one that cannot be loaded at every place; equal times that come out equal, or not |
| `claim_bad`, `claim_edits`, `claim_lossless` | one property each, violated | see findings |

What the properties say:

* **Navigation.** `CursorOnKlv` is the invariant a stream lives by: level,
  remaining size and parents are those of the entry it stands on. `KeepsPromise`
  is a refinement (`KlvCursor` with the place of a stream for its state): the
  promise says, from the forest alone, which entry each call may reach and what
  it answers, and every behaviour of the C code's loops must come to one of them.
  The three departures the code really makes are choices of the promise, stated as
  such, so that everything else about these calls is checked beyond them. That the run
  passes does not say that the code keeps to the header: with `SeekLast` alone for
  `Seek` it fails (finding 4).
* **Damage.** One overwritten word reaches every check of `GPMF_Next`: a word can
  become zero, a non-key, a `DEVC`, a nest, an unknown type, or a size one more,
  one less, far too large or zero. With two damaged words a position can pass the
  end of the buffer between calls (every later read is checked against the size
  again), for a `DEVC` that claims more than is left, or one inside another, takes
  the hops of `GPMF_Init` astray. So `CursorInBuffer` is a property of payloads whose
  DEVCs are whole (`WholeDevices`: nests in a row up to the bound that `GPMF_Init`
  chose), whatever they hold.
* **Validation.** From the start of a payload that is compliant but for padding,
  the verdict is acceptance and names its unknown types (`VerdictOnSound`); what
  a recursive validation accepts is walked without a bad structure (`VettedWalks`),
  provided the DEVCs are a row of nests, which `GPMF_Validate` does not look at, and
  but for one place: the padding at the end of a nest behind an inner one, where
  `GPMF_Next` stops (`PaddedOut`; see below); a stream that passes is put back
  (`StreamKept`).
* **Modification.** The overwritten entry is the one the documented order of
  search gives, whatever the finders' books are (`RightEntry`, from the outline
  alone), and every stream walks on over it (`WalksOn`). Taken over from the code is
  that a call is refused where the stream has no room for the data, whatever entry is
  meant (`:951`). `StoredByType` is about every overwritten entry of data: the new
  elements, turned each, or, where their type has no unit, the old data untouched
  (finding 5).
* **MP4.** `OpenedRight` is `IndexRight` for `OpenMP4Source` and `GlobalRight` for
  `OpenMP4SourceUDTA`: the payload of the user data is found, at its place and of its
  size, and without one the handle is empty. A file that ends with its movie or its
  media and has no such payload may lead the reader astray, as said above. The
  properties of the index compare the index with the format's definition of the
  sample tables, one sample at a time. `IndexRight` is for files whose chunks all
  hold as many samples (the reader takes the first run of the `stsc` table for
  all) and whose chunks come after sizes and runs. `DamageRefused`: no damage to
  one atom makes an index joined from two tracks. Damage to `stsc` is excepted: without
  its runs the reader takes every chunk for a payload, and there is no telling.
* **Buffers.** `RoomForRead` needs that no payload is within 256 bytes of 2^32:
  `vast`, the fourth index, is the one where the room wraps. `HandleLive` holds
  for a careful client even when memory is refused, and for the others while it
  is granted.
* **Rate.** Whichever of the ways (`TSMP`, counting, a line through the payloads,
  timestamps) the call takes, it totals all the samples (`SamplesComplete`), and
  a steady track gets its rate and its times.
* **Typed data.** `FormattedRight` and `ScaledRight` compare the whole buffer, when
  a call returns, with the layout the format describes: place by place the element
  that belongs there, its bytes turned or not, its divisor, its row of the matrix or
  its orientation. A repeated sample of compressed data may read as finding 3 says.
  `SizesSuffice`: a buffer of the told size is never refused. `InStep`: at
  every turn the bits the decoder holds are those of the stream behind the codes it
  has taken, so that no code is read twice, lost, or begun in the middle.
* **Exporter.** `FilesAgree` is about every way the export ends: the XML file is
  nested, and both files tell of exactly the samples of the payloads exported.
  `XmlRight` and `CsvRight` start from the samples of the file and say where each
  of their elements must be. In a row where no column has to hold two elements, each
  field is blank or holds the element its column is named for, each element due has its
  field, and the elements of one key stand together even if equal times come out
  as two rows. Two elements fall on one column only in a payload of no length; there
  `CsvRight` speaks of the columns up to the first such one, and of those behind it says
  only that each element is in some row of its time.

Fairness. In `mp4` and `sample_rate` it is that of the next step (`WF_openVars(OpenNext)`,
`WF_vars(Next)`): one call on one thread,
whose file and callbacks answer, runs until it returns. `OpenedRight` (a file as
cameras write it is opened in the end, with the right index or the right payload) and `RateRight` (the call
returns, with the right rate where there is one) rest on it: both fail if a loop over
atoms or payloads does not end, as well as if it ends with a wrong answer. In
`nav_damaged`, `FairSpec` is weak fairness of `Step`, the steps of a running call
and nothing else: nothing obliges the program to make another call. `Step` is
enabled exactly while a call runs, and the condition is written with that in place
of `ENABLED`, which TLC takes too long to evaluate there.

Deadlock is checked where the program can always make another call. `mp4` and
`sample_rate` model one call that returns, `exporter` a program that ends, and
`modify` a bounded number of calls (`MaxEdits`), so their runs, and the claims on the
same modules, stop.

## Findings

1. `claim_bad`: `GPMF_Next` at the current level keeps the size of the `DEVC` it
   stepped over and refuses a following `DEVC` unless it is smaller by at least its header.
2. `claim_edits`: an edit list that precedes the media of its track, as the format
   orders them, is taken for the track before, or lost.
3. `claim_lossless`: a line of the code book may hold zeros and a value. The code adds
   the value before it stores the zeros, so samples that repeat the one before come
   back as the one behind them; with a quantum of 1 the scheme is said to be lossless.

Two more places contradict what the repository says of them. They have no run that
fails: the property named is what holds, the disagreement stated in it.

4. `nav_sound`, `KeepsPromise`: `GPMF_SeekToSamples` steps before it judges
   (`GPMF_parser.c:594`), so a stream that holds only its samples, or stands on them
   already, is answered `LAST`; the header says "find the last FourCC in the current
   level, this is raw data for any STRM" (`GPMF_parser.h:74`).
5. `modify`, `StoredByType`: data of unknown or complex types is said to be
   stored "as is" by `GPMF_Modify` (`GPMF_parser.c:910`); it is not stored at all (`:918-941`), under
   a header that says it was.

Met while modelling, not claimed against any document, and part of the models
where their module reaches them:

* `GPMF_FindPrev` at the last level overwrites `nest_level` (`:665`; see above);
* a key in payload 0 only, with `TSMP` beside it, is counted as if `TSMP` were not
  there, and then lessened by it (`GPMF_utils.c:134`);
* padding at the end of a nest makes a step at the current level leave the nest
  (`GPMF_parser.c:339`); behind an inner nest it stops the recursive walk: levels used
  up are left (`:339`) before the padding is skipped that uses up the next one (`:350`),
  and what follows does not fit a nest of size 0 (`:415`), so that `GPMF_Next` refuses
  what `GPMF_Validate` has accepted;
* `GPMF_FindPrev` climbing keeps the inner `nest_level` and misses keys of the
  enclosing nest (`:676`): a choice in `KlvCursor`;
* the listed type `'u'` has no size and is answered as unknown;
* `GPMF_Modify` checks the room at the stream, not at the entry it found;
* chunk offsets before the sample-to-chunk table can make `indexcount` exceed the
  offsets (`GPMF_mp4reader.c:688, 950`);
* a handle of `OpenMP4SourceUDTA` has a duration of 1 second but no clock of the movie:
  `GetPayloadTime` divides 0 by 0 (`GPMF_mp4reader.c:1036`); user data that begins with
  a name that is no fourcc is left with the payload in it (`:1142`);
* `GetPayload` frees the resource behind the caller's handle when memory is
  refused, and its 256 bytes of slack can wrap the 32-bit size;
* in `GPMF_utils.c`, the edit list is applied twice when timestamps are there but
  unusable (`:185, 330`), a bad last payload clears the stream that is then read
  (`:157`; `StreamOpen` says what must be so if it happens, not that it then does), an early return leaks `repeatarray`
  (`:218`), and the times are not set when the key is in payload 0 only;
* `GPMF_ScaledData` decompresses all samples whatever number it is asked for, and
  skips the offset in the wrong units;
* a TYPE found only in an outer nest makes `GPMF_ElementsInStruct` answer 0 where
  `GPMF_FormattedData` finds it; on a SCAL or output type it does not know
  `GPMF_ScaledData` leaves the decompressed samples allocated;
* `GPMF_Init` clears the code book of the stream, which `GPMF_Free` then does not free;
* the exporter with `-a` takes payload 0 before it has created its files, and with one
  payload never creates them (`main.cpp:249`); values without a column are dropped; two
  values of one cell are joined by the delimiter itself (`CExporterCsv.cpp:136`);
  TYPE is read unexpanded, so a structure with a repeated type is told by the wrong
  letters; its branch for strings is never reached, since `GPMF_ScaledData` refuses them.

## Proofs

A run looks at the payloads it is given; a theorem holds for every payload, nest
limit, width of integers and number of streams that the assumptions admit. TLC
evaluates every assumption on the constants of the runs. Every inductive
invariant was first an invariant of a run.

### One pass: `GpmfKlvProofs`

Navigation, validation and modification all rest on what one pass of `GPMF_Next` does:

* `NextUsable`: on any payload, from a usable stream (its bound within the buffer, its
  level one of the arrays'), a pass yields a usable one, except with `BAD_STRUCTURE`.
  The number of paddings skipped and the level popped to are `CHOOSE` of a bounded set;
  that they exist is `BoundedMax`.
* `NextOnKlv`: on a sound payload, from an entry with the books of that entry
  (`OnKlv`), a pass ends with `LAST`, at the end, on the entry the outline names next,
  with its books, or refuses a `DEVC` as in finding 1. The hard part is the end of a
  nest, where several levels are left at once (`ClimbOut`): every open level keeps only
  what follows its nest, so that all of them used up means one place. For that the
  outline must say that a nest never reaches into the next: `Laminar`, part of `Sound`.

### Navigation: `GpmfNavProofs`

`SpecTyped` (`TypeOK`), `CursorsOnKlv` (`CursorOnKlv`), `CursorsInBuffer`
(`CursorInBuffer`) and `DevicesNamed` (`DeviceNamed`), for every set of payloads, every number of streams, every
`NestLimit` and `Modulus`.

The interesting part of the type is that `nest_size` and `pos` are natural numbers: the
code's unsigned subtractions never go below zero, at the level beyond the arrays too,
where `nest_size` is `last_seek[0]` and a nest too deep overwrites `nest_size[0]`. A
`GPMF_FindPrev` begun at that level is excepted from all four theorems (`FindPrevOverrun`);
on a sound payload no stream comes to it, since `Sound` bounds its depth. `TypeOK` is not inductive: that a step
over an entry does not take more from its nest than there is left follows from the check
at the start of the pass, but that the words read are words of the buffer needs the
bound of every stream to be within it, and that a level has a slot needs that a stream
walked on is not the one that `GPMF_Next` just refused as too deep. `TypeInv` adds both:
`CursorsFit` and `CallFits`, the same of the running call.

`CursorOnKlv` speaks of streams between calls. `KlvInv` adds what the stream of a
running call is on, with the two exceptions the code makes: `GPMF_Init` hops along the
chain of `DEVC` with a position of its own, and a `GPMF_FindPrev` that has climbed out
of its nest keeps a level of its own beside the stream's (`Climbed`). `CursorInBuffer`
is of damaged payloads, where no outline helps: `RoomInv` says of every level how far
its remainder may reach, from the bound that `GPMF_Init` found by its hops.

`DeviceNamed` says of the latest naming entry behind a stream what the code says of the
last one a pass landed on. They are the same because a pass inside a device passes over
nothing that the device itself holds (`NoneSkipped`, so `PassedGrows`), and because
nothing names a device that a stream has just come to (`NothingPassed`). A search
backwards does go back over a naming entry without forgetting its name, but it starts
again from inside its nest, behind which the names are the same (`NamedRewind`); one that
has climbed is given up (`NamedCall`). `NamesItself` came out of the proof: the code takes
the name from a `DVID` at any depth, and the number from the word behind the header also
where the entry has no data.

### The promise: `GpmfPromiseProofs`

`PromiseKept` (`KeepsPromise`): `GpmfNav` implements `KlvCursor` on a payload that is
sound, whatever the other payloads of the constants are. Every pass is a stutter of
`KlvCursor`, and the one that ends the call is its answer: the right entry, code and
count, with every other stream where it was.

`KlvCursor` chooses among the entries ahead, of the payload or of the siblings; a pass
knows one stream and moves it once. The bridge is `OnWay`: a walk that started at an
entry and has come to `pos` has behind it just the entries of its route up to `pos`, and
ahead of it just the others. `PassOnWay` joins it with `NextOnKlv`: a pass ends at the
end of the route, goes to its next entry, or refuses a `DEVC`. It rests on the shape of
the outline only: no entry of the route lies between an entry and the one a pass goes to
(`NoneBetween`), and none is left at the end of a nest (`NoneAfterLast`).

An answer is right because of what the passes before it did not find, and no state of
the code remembers that. So `PromiseInv` adds `KeptInv` to `TypeInv` and `KlvInv`: of
each kind of call, which entries are behind it and that none of them would have ended
it; of the count, that it is the number of those met; of a seek, the entry its scan
started at. `GPMF_FindPrev` is the hard one. It goes back to the start of its nest, whose
first entry it compares whatever its type, walks forward, and with `RECURSE` climbs and
does the same in the nest around, by then with a level of its own beside the stream's.
In its own nest `KeptInv` has the full account of what is behind; once it has climbed,
that its own nest was searched in vain (`Missed`). That is also what `KlvCursor` promises
of a recursive search backwards, which in the code may lose its place.

The proof showed one place where the model was wrong: `KlvCursor` counted a compressed
entry by the word behind its header, also where an empty one ends the payload and there
is no such word.

### Validation: `GpmfValidateProofs`

`ValidateTyped` (`TypeOK`), `ValidateKeepsStream` (`StreamKept`) and `VettedIsWalked`
(`VettedWalks`), on every payload, damaged or not, and `SoundIsAccepted`
(`VerdictOnSound`) on every payload a writer produces. An activation gives back the
level it took only if levels and stack go together, and it subtracts the nest it has
left from what it remembers of its own. So
`IInv` adds that every activation that waits has room for the nest it waits for
(`RoomToReturn`), that the level is that of the call plus one for each activation, and
that below that level the books are those of the call (`SameBooks`).

`VettedWalks` joins two functions that never meet: what the one established must be enough
for the other, whose steps are of another size and which a second validation may
interrupt anywhere. The bridge is a chart (`Charted`): a set of segments, the words from
some entry to the end of its nest, such that what starts a segment is a right entry and
what it holds and what follows it are segments again. A recursive validation from the
start draws one: `Tracked` says that every segment it has met is judged but those the
innermost activation and the ones that wait have still before them, and when it accepts
none is left (`AcceptJudges`). The walk needs the chart alone: on each open level, what
`nest_size` keeps is a segment of it (`OnPath`). A pass leads from one such place to
another (`NextOnPath`); no entry of a nest is then of a wrong size (`EntryIsRight`), too deep or no
key, since levels of the validation are one ahead of those of the walk. What is left is
`PaddedOut`. It came out of the proof: without it the property is false, in a run as well
once a payload has a padded nest inside a stream.

`VerdictOnSound` compares what a whole recursion notes and counts with the outline. Its
invariant, `OnOutline`, holds between any two turns: every activation but the first is in
a nest of the outline, an entry of the nest around it (`Nested`), and remembers its size
(`Metered`); the place is between entries of the innermost nest (`Between`); the unknown
types noted so far are those of the entries before the place (`Noticed`), and the devices
counted those before the device the validation is in (`CountFor`). So nothing is refused
(`NotRefused`), and when the outermost loop is over no entry is left (`OutlineDone`).
That `GPMF_Init` opens the stream on the whole of such a payload is a lemma of its own
(`ChainIsWhole`): its loop is a recursive function on all numbers, which first has to be
shown to exist (`UpwardRecursion`, from the least word it would fail at). The proof asked
for `Laminar` here too, so it is part of `SoundOrPadded`: an outline with an entry
hidden in the data of a leaf would be counted by the property and not by the code.

### Modification: `GpmfModifyProofs`

`ModifyTyped` (`TypeOK`), `ModifiedWalksOn` (`WalksOn`), `ModifyRightEntry`
(`RightEntry`) and `ModifyStores` (`StoredByType`), for every sound payload and any
entries written. `IInv` says that the payload still has the outline of one the program
was handed (`MadeFrom`), and that the stream and the finder have the books of entries of
it. That an overwritten payload is sound again (`OverwrittenOutlined`) is where the
entry must have the same size, and be a nest exactly if the old one was.

`RightEntry` compares the outcome with the outline alone. `SearchRight` carries what the
searches have established so far: behind the first, that no sibling ahead has the
key; behind the second, that no sibling has it; in the third, that no
entry before the finder has it.

Assumed, beside sound payloads: `KindAssumption` (a nest is replaced by a nest and data
by data; the code does not ask, and would leave another outline), and
`WholeElementsAssumption` (elements of 8 bytes come in pairs of words; the swap of an
odd one would take a word of the next entry).

### The MP4 index: `Mp4Proofs`

`NestsKept` (`NestKept`) and `OpenTyped` (`OpenTypeOK`), for every set of files, whichever
function opens them.

`NESTSIZE` takes each atom off every open level and closes levels from the inside out;
`NestKept` says that what is left are the containers around the next atom, by the places
of all atoms. `NestInv` states it as a list of atoms, outermost first (`Stacked`), and the
step is `NextStacked`: the levels a turn leaves open are those whose end is more than
a header behind the place the reader goes to. That takes three things of a file: that
atoms do not cross (the outer levels have no less left than the inner ones, so that they
are closed from the inside, `AccountedIs`), that a container is filled (so that the next
atom starts just where the reader goes), and that inside a container sizes have 32 bits.
They are `Nested`, which `FilesAssumption` asks of whole files only. The last one is
the code's own limit: it takes the 8 bytes of a 64-bit size off the size, and the levels
around such an atom would be told 8 bytes too few. At the top level there are none.

`OpenTyped` asks nothing of a file but that its sizes and offsets are numbers. Its two hard
parts: what `NESTSIZE` counts never exceeds the open levels, in a search too, where what it
takes off is the size of another atom (`AccountedTyped`); and the offsets that are filled
in one after the other exist and are offsets or `NoOffset` (`ChunkedTyped`).

### Payload buffers: `Mp4PayloadsProofs`

`BuffersTyped`, `BuffersRoomy`, `HandlesLive` and `WritesKept`: the four
invariants of `payloads`, for every index, any clients, any file size, slack and
modulus. The inductive invariant `IInv` adds to them

* what a live handle is made of (`HandleShape`), since a buffer that grows keeps
  the payload it holds, and the size it had must be known to be a number;
* `RoomAsked`: the room that a client asked for is there until it reads. Without
  it `HandleLive` is not inductive: a careful client's `GetPayload` never grows
  the buffer only because the request before it did, and because the request is
  for the same number of bytes (`WholeWords`, payloads of whole words).

`RoomForRead` needs the remainder of a sum of sizes to be the sum (`NoWrap`,
under `Roomy`); `ReadBack` needs `IndexAssumption`, that no two payloads of an
index overlap. Also assumed: `SizeAssumption`, `VersionAssumption`,
`ClientAssumption`, `NumberAssumption` (payload 0 is no payload).

### The sample rate: `SampleRateProofs`

`RateTyped` (`TypeOK`), `RateCountsAll` (`SamplesComplete`), `RateOfAbsent`
(`AbsentNoRate`) and `RateReadsOpen` (`StreamOpen`), for tracks of any length and counts
of any width. `IInv` adds where the loops are (`Placed`: no payload before
`teststart` or behind `testend` has the key), why a stream is open on nothing (`Closed`),
and what is counted so far (`Counted`, in the arithmetic of the counter).

The samples of a track are a sum over any number of payloads, which no induction in
reach could evaluate. So a track carries its running sum, `upto`, beside the payloads:
`TracksAssumption` says how each follows from the one before, the code never sees it,
and the proof needs just those steps.

### Model-checked only

* `CallsEnd`, `OpenedRight` and `RateRight` are liveness, out of the prover's reach.
* `DamageRefused`, `TimesRight` and `LateEditsOfTrack` of the index, `TimesRight` of
  `SampleRate`, and what `TypedData` and `Exporter` check, compare folds and recursive
  functions over sequences of any length. The provers have no induction over data; an
  argument by the least counterexample (`LeastOf`) gave the type of one such function
  (`ChunkedTyped`), not yet the value of any of these.
* `SizesFirst` is about the order the tables of one track were written in, which the
  reader never sees.
* The code of the code book and of the type strings is recursive and is only evaluated.

## Not modelled

* The floating-point arithmetic of scaling, and the text of numbers.
* Memory refused while a file is opened; getters of the MP4 reader that only read a
  field (`GetDuration`, `GetVideoFrameRateAndCount`, `GetEditListOffset`).
* The demo and its printing: calls in sequence, without state of their own; how they
  drive the library is the discipline of a caller in the models.
* Of the exporter: the printing options, `-f`, and the rates it computes at the end.
* The getters of the parser (`GPMF_Key`, `GPMF_Type`, `GPMF_RawData` and the like)
  read the current entry and keep nothing.

## Plan

Done: navigation, validation, modification, MP4 index and buffers, sample rate, typed
data, compression, the exporter, the payload of the user data.

1. Proofs: `Decompress` never takes more bits than it holds.
