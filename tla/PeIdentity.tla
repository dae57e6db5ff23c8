---------------------------- MODULE PeIdentity ----------------------------
(***************************************************************************)
(* The code identity of an image file, and how identities become store     *)
(* ids.  An image is given by its length and by the fields that the walk   *)
(* reads; what matters is which bytes the walk needs.  Offsets are those   *)
(* of the format.  Ids are digit strings over a small base.                *)
(***************************************************************************)
EXTENDS Integers, SequencesExt

CONSTANTS
  FileSizes,     \* lengths of the files
  PeOffsets,     \* values of e_lfanew
  OptionalSizes, \* values of SizeOfOptionalHeader
  Base,          \* base of the digits, 16 in the code
  Width          \* digits of a padded field, 8 in the code

\* What the constants are taken to be.
PeBounds == Base \in Nat \ {0, 1} /\ Width \in Nat \ {0}

VARIABLES
  image,   \* the file under test
  stamps   \* two pairs of TimeDateStamp and SizeOfImage

peVars == <<image, stamps>>

DosBytes == 64          \* DOS_E_LFANEW_OFFSET + 4
SignatureBytes == 4
CoffBytes == 20         \* COFF_HEADER_BYTES
SizeOfImageOffset == 56 \* OPTIONAL_HEADER_SIZE_OF_IMAGE_OFFSET

Images == [size : FileSizes, peOffset : PeOffsets, optional : OptionalSizes, signed : {"yes", "no"}]

\* byteReaderOf: the range, or nothing at all.
ReadAt(f, offset, length) == offset >= 0 /\ length >= 0 /\ offset + length <= f.size

\* Each early return of parsePeIdentityFrom.
WalkReads(f) ==
  /\ ReadAt(f, 0, DosBytes)
  /\ f.peOffset <= f.size - SignatureBytes
  /\ f.peOffset + SignatureBytes <= f.size - CoffBytes
  /\ f.optional >= SizeOfImageOffset + 4
  /\ ReadAt(f, f.peOffset + SignatureBytes + CoffBytes + SizeOfImageOffset, 4)

ParsePeIdentity(f) == f.signed = "yes" /\ WalkReads(f)

-----------------------------------------------------------------------------
(* formatPeCodeId; formatSymsrvDebugId pads and appends the same way.      *)

Digits(n) ==
  LET d[k \in 0..n] == IF k < Base THEN <<k>> ELSE Append(d[k \div Base], k % Base)
  IN  d[n]

PadStart(digits, width) == [i \in 1..(width - Len(digits)) |-> 0] \o digits

FormatId(stamp, size) == PadStart(Digits(stamp), Width) \o Digits(size)

-----------------------------------------------------------------------------

Fields == 0..(Base^Width - 1)
NoImage == [size |-> 0, peOffset |-> 0, optional |-> 0, signed |-> "no"]

PeInit == image = NoImage /\ stamps = <<0, 0, 0, 0>>

TryImage ==
  /\ image = NoImage /\ stamps = <<0, 0, 0, 0>>
  /\ image' \in Images
  /\ UNCHANGED stamps

TryStamps ==
  /\ image = NoImage /\ stamps = <<0, 0, 0, 0>>
  /\ stamps' \in Fields \X Fields \X Fields \X Fields
  /\ UNCHANGED image

PeNext == TryImage \/ TryStamps
PeSpec == PeInit /\ [][PeNext]_peVars

\* The walk finds an identity exactly when the file holds every byte it needs,
\* up to SizeOfImage and not one byte more, wherever e_lfanew points
\* (parsePeIdentityFrom).
WalkIsExact ==
  ParsePeIdentity(image) <=>
    /\ image.signed = "yes" /\ image.optional >= 60
    /\ image.size >= DosBytes
    /\ image.size >= image.peOffset + 84

\* Different images have different ids: a store path never names two
\* (formatPeCodeId, formatSymsrvDebugId).
IdsAreDistinct ==
  FormatId(stamps[1], stamps[2]) = FormatId(stamps[3], stamps[4]) =>
    stamps[1] = stamps[3] /\ stamps[2] = stamps[4]

\* The identity of an image is found when it is there, and is its own.
PeIsExact == WalkIsExact /\ IdsAreDistinct
=============================================================================
