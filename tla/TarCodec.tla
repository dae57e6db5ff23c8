------------------------------ MODULE TarCodec ------------------------------
(***************************************************************************)
(* The tar writer and the strict tar reader of the export bundles.         *)
(*                                                                         *)
(* An archive is a sequence of bytes; the bytes of a header block stand    *)
(* for its name and its encoded size field.  A header whose checksum,      *)
(* magic, type, link or name fields the reader refuses is a "broken" one,  *)
(* and so is anything else read where a header should be.                  *)
(***************************************************************************)
EXTENDS Integers, SequencesExt

CONSTANTS
  Names,       \* entry names that pass checkEntryName
  Sizes,       \* entry sizes the caller declares
  Block,       \* BLOCK_SIZE
  Digits,      \* octal digits of the size field: OCTAL_SIZE_LIMIT is 8^Digits - 1
  MaxEntries,  \* maxEntries of the reader
  MaxBytes,    \* maxBytes of the reader
  None

\* What the constants are taken to be.
TarBounds ==
  /\ Block \in Nat \ {0} /\ Digits \in 1..4 /\ MaxEntries \in Nat /\ MaxBytes \in Nat
  /\ Sizes \subseteq 0..(256^Digits - 1)

VARIABLES
  sink,    \* the bytes written so far
  writer,  \* openEntry with its remaining bytes, and sealed
  written, \* the finished entries, in order
  file,    \* the archive as the reader gets it
  reader   \* offset, entries read, their total size, and how it stands

vars == <<sink, writer, written, file, reader>>

-----------------------------------------------------------------------------
(* The size field.                                                         *)

OctalLimit == 8^Digits - 1

OctalField(size) ==
  [i \in 1..(Digits + 1) |-> IF i <= Digits THEN 48 + ((size \div 8^(Digits - i)) % 8) ELSE 0]
Base256Field(size) ==
  [i \in 1..(Digits + 1) |-> IF i = 1 THEN 128 ELSE (size \div 256^(Digits + 1 - i)) % 256]

\* Seeded fault.
EncodeWithinDigits(size) ==
  IF size <= OctalLimit + 1 THEN OctalField(size) ELSE Base256Field(size)

EncodeTarSize(size) == IF size <= OctalLimit THEN OctalField(size) ELSE Base256Field(size)

Horner(field, from, to, base, bias) ==
  LET value[i \in (from - 1)..to] ==
        IF i = from - 1 THEN 0 ELSE base * value[i - 1] + (field[i] - bias)
  IN  value[to]

ParseTarSize(field) ==
  IF field[1] >= 128 THEN Horner(field, 2, Digits + 1, 256, 0)
                     ELSE Horner(field, 1, Digits, 8, 48)

-----------------------------------------------------------------------------
(* The writer.                                                             *)

NoField == OctalField(0)
Byte(kind) == [kind |-> kind, name |-> None, field |-> NoField]
Run(kind, n) == [i \in 1..n |-> Byte(kind)]

\* encodeHeaderBlock
HeaderBlock(name, size) ==
  <<[kind |-> "head", name |-> name, field |-> EncodeTarSize(size)]>> \o Run("rest", Block - 1)

Padding(size) == (Block - (size % Block)) % Block

NoEntry == [name |-> None, size |-> 0, remaining |-> 0]

TarInit ==
  /\ sink = <<>>
  /\ writer = [entry |-> NoEntry, sealed |-> "no"]
  /\ written = <<>>
  /\ file = <<>>
  /\ reader = [offset |-> 0, entries |-> <<>>, total |-> 0, status |-> "waiting"]

Writing == writer.sealed = "no"
EntryOpen == writer.entry.name # None

AddEntry(name, size) ==
  /\ Writing /\ ~EntryOpen
  /\ sink' = sink \o HeaderBlock(name, size)
  /\ writer' = [writer EXCEPT !.entry = [name |-> name, size |-> size, remaining |-> size]]
  /\ UNCHANGED <<written, file, reader>>

\* append refuses more bytes than were declared.
AppendBytes(n) ==
  /\ Writing /\ EntryOpen
  /\ n <= writer.entry.remaining
  /\ sink' = sink \o Run("data", n)
  /\ writer' = [writer EXCEPT !.entry.remaining = @ - n]
  /\ UNCHANGED <<written, file, reader>>

\* finish of an entry refuses missing bytes.
FinishEntry ==
  /\ Writing /\ EntryOpen
  /\ writer.entry.remaining = 0
  /\ sink' = sink \o Run("zero", Padding(writer.entry.size))
  /\ written' = Append(written, [name |-> writer.entry.name, size |-> writer.entry.size])
  /\ writer' = [writer EXCEPT !.entry = NoEntry]
  /\ UNCHANGED <<file, reader>>

FinishArchive ==
  /\ Writing /\ ~EntryOpen
  /\ sink' = sink \o Run("zero", 2 * Block)
  /\ writer' = [writer EXCEPT !.sealed = "yes"]
  /\ UNCHANGED <<written, file, reader>>

\* What may reach the reader: the archive, the beginning of it, more than it,
\* or the archive with a header that does not hold.
Transit(kind) ==
  /\ ~Writing /\ reader.status = "waiting"
  /\ \/ kind = "intact" /\ file' = sink
     \/ /\ kind = "cut"
        /\ \E n \in 0..(Len(sink) - 1) : file' = SubSeq(sink, 1, n)
     \/ /\ kind = "extended"
        /\ \E k \in {"zero", "data"}, n \in {1, Block} : file' = sink \o Run(k, n)
     \/ /\ kind = "damaged"
        /\ \E i \in 1..Len(sink) :
             sink[i].kind = "head" /\ file' = [sink EXCEPT ![i] = Byte("broken")]
  /\ reader' = [reader EXCEPT !.status = "reading"]
  /\ UNCHANGED <<sink, writer, written>>

-----------------------------------------------------------------------------
(* The reader.                                                             *)

Reading == reader.status = "reading"

\* The block at the reader's offset, and its kind: none, zero, header or other.
BlockThere == reader.offset + Block <= Len(file)
AllOf(kind, from, to) == \A i \in from..to : file[i].kind = kind
AtZeroBlock == BlockThere /\ AllOf("zero", reader.offset + 1, reader.offset + Block)
AtHeader ==
  /\ BlockThere
  /\ file[reader.offset + 1].kind = "head"
  /\ AllOf("rest", reader.offset + 2, reader.offset + Block)

HeaderName == file[reader.offset + 1].name
HeaderSize == ParseTarSize(file[reader.offset + 1].field)
PaddedEnd == reader.offset + Block + HeaderSize + Padding(HeaderSize)

\* The bounds and checks of iterateTar on one header.
EntryAllowed ==
  /\ Len(reader.entries) < MaxEntries
  /\ reader.total + HeaderSize <= MaxBytes
  /\ PaddedEnd <= Len(file)
  /\ \A i \in 1..Len(reader.entries) : reader.entries[i].name # HeaderName

ReadEntry ==
  /\ Reading /\ AtHeader /\ EntryAllowed
  /\ reader' = [reader EXCEPT !.offset = PaddedEnd, !.total = @ + HeaderSize,
                  !.entries = Append(@, [name |-> HeaderName, size |-> HeaderSize])]
  /\ UNCHANGED <<sink, writer, written, file>>

Settle(status) ==
  /\ reader' = [reader EXCEPT !.status = status]
  /\ UNCHANGED <<sink, writer, written, file>>

\* After the first zero block there are only whole zero blocks.
TrailerClean ==
  /\ (Len(file) - reader.offset) % Block = 0
  /\ AllOf("zero", reader.offset + 1, Len(file))

\* The end marker, and nothing but zero blocks behind it.
EndReached == AtZeroBlock /\ TrailerClean

ReadEnd == Reading /\ EndReached /\ Settle("accepted")

ReadRefused ==
  /\ Reading
  /\ ~EndReached /\ ~(AtHeader /\ EntryAllowed)
  /\ Settle("refused")

TarNext ==
  \/ \E name \in Names, size \in Sizes : Len(written) < MaxEntries /\ AddEntry(name, size)
  \/ \E n \in 1..writer.entry.remaining : AppendBytes(n)
  \/ FinishEntry \/ FinishArchive
  \/ \E kind \in {"intact", "cut", "extended", "damaged"} : Transit(kind)
  \/ ReadEntry \/ ReadEnd \/ ReadRefused

TarSpec == TarInit /\ [][TarNext]_vars

-----------------------------------------------------------------------------
(* Properties.                                                             *)

\* What the reader accepts is what was written: an archive that lost its tail,
\* gained one or has a bad header never passes with fewer, other or resized
\* entries (iterateTar).
AcceptedIsWritten == reader.status = "accepted" => reader.entries = written

\* An intact archive within the reader's bounds passes: every size, on either
\* side of the octal limit, survives its field, and padding keeps the headers
\* on block boundaries (encodeTarSize, parseTarSize, finish).
Distinct == \A i, j \in 1..Len(written) : written[i].name = written[j].name => i = j
WrittenBytes == FoldSeq(LAMBDA entry, total : entry.size + total, 0, written)
IntactIsAccepted == file = sink /\ Distinct /\ WrittenBytes <= MaxBytes => reader.status # "refused"

\* An accepted archive ends in nothing but zero blocks, so nothing hides behind
\* the end marker (iterateTar's trailer).
NothingAfterTheEnd ==
  reader.status = "accepted" =>
    \A i \in (reader.offset + 1)..Len(file) : file[i].kind = "zero"

\* An archive is accepted exactly as it was written (iterateTar).
ArchiveIsExact == AcceptedIsWritten /\ IntactIsAccepted /\ NothingAfterTheEnd
=============================================================================
