---------------------------- MODULE PdbIdentity ----------------------------
(***************************************************************************)
(* How the debug identity of a PDB is found in its bytes.                  *)
(*                                                                         *)
(* A file is a sequence of 32-bit words; offsets and sizes are in words.   *)
(* Block 0 holds the superblock: magic, block size, size of the stream     *)
(* directory, block of the block map.  The map names the directory's       *)
(* blocks, the directory lists stream sizes and then the blocks of each    *)
(* stream.  The identity heads stream 1: a known version, then GUID and    *)
(* age, here one word.  The walk must hold on any placement of the blocks  *)
(* and on files that were cut or damaged.                                  *)
(***************************************************************************)
EXTENDS Integers, SequencesExt, FiniteSetsExt

CONSTANTS
  BlockWords,    \* block size of the files that are written
  MinBlock,      \* MSF_MIN_BLOCK_SIZE
  Stream0Sizes,  \* sizes of stream 0, whose block list precedes stream 1's
  Stream1Sizes,  \* sizes of stream 1
  Damages        \* values a damaged word may take

Magic == 90          \* MSF_MAGIC
Nil == 80            \* MSF_NIL_STREAM_SIZE
Version == 70        \* a member of PDB_INFO_VERSIONS
Guid == 60           \* GUID and age of the file under test
Other == 50          \* what else stands in a block
SuperWords == 4
HeaderWords == 2     \* PDB_INFO_HEADER_BYTES

\* What the constants are taken to be.
PdbBounds ==
  /\ MinBlock \in Nat /\ BlockWords \in Nat /\ BlockWords >= MinBlock /\ MinBlock >= SuperWords
  /\ Stream0Sizes \subseteq Nat /\ Stream1Sizes \subseteq Nat /\ Damages \subseteq Nat

VARIABLES
  file,     \* the staged artifact
  damage,   \* none, cut or changed
  absent    \* stream 1 is nil in the file as written

vars == <<file, damage, absent>>

Ceil(n, d) == (n + d - 1) \div d
Word(f, i) == f[i + 1]
Known(word) == word = Version

-----------------------------------------------------------------------------
(* The walk.  A result is an identity, "unreadable" or "other file".       *)

Identity(id) == [outcome |-> "identity", id |-> id]
Unreadable == [outcome |-> "unreadable", id |-> 0]
NotMsf == [outcome |-> "not a PDB", id |-> 0]

LooksLikeMsf(f) == Len(f) > 0 /\ Word(f, 0) = Magic

PowersOfTwo == {2^k : k \in 0..6}

SuperblockOK(f) ==
  /\ Word(f, 1) \in PowersOfTwo /\ Word(f, 1) >= MinBlock /\ Word(f, 1) <= Len(f)
  /\ Word(f, 2) > 0 /\ Word(f, 2) <= Len(f)

\* readConsecutiveBlocksFrom: the map is one range of the file.
BlockMapThere(f) == Word(f, 3) * Word(f, 1) + Ceil(Word(f, 2), Word(f, 1)) <= Len(f)
DirectoryBlocks(f) ==
  SubSeq(f, Word(f, 3) * Word(f, 1) + 1, Word(f, 3) * Word(f, 1) + Ceil(Word(f, 2), Word(f, 1)))

\* copyBlockIntoFrom: what of block b is in the file, at most limit words.
Readable(f, b, limit) ==
  LET start == b * Word(f, 1)
      take == Min({Word(f, 1), Len(f) - start, limit})
  IN  IF b <= Len(f) \div Word(f, 1) /\ take > 0 THEN SubSeq(f, start + 1, start + take) ELSE <<>>

\* The directory, put together block by block; shorter than promised when a
\* block is missing or cut.
Directory(f) ==
  FoldLeft(LAMBDA got, b : got \o Readable(f, b, Word(f, 2) - Len(got)), <<>>, DirectoryBlocks(f))

DirectoryWhole(f) ==
  /\ Len(Directory(f)) = Word(f, 2)
  /\ \A b \in Range(DirectoryBlocks(f)) : Readable(f, b, Word(f, 2)) # <<>>

ListedBlocks(size, block) == IF size = Nil THEN 0 ELSE Ceil(size, block)

\* Seeded fault: streams follow each other without a block list.
StreamBlockConsecutive(f, dir) == 1 + ListedBlocks(dir[2], Word(f, 1))

\* readStreamPrefix of stream 1: its first block, by its list in the directory.
ListOffset(f, dir) == 1 + dir[1] + ListedBlocks(dir[2], Word(f, 1))
StreamBlock(f, dir) == dir[ListOffset(f, dir) + 1]

StreamListed(f, dir) ==
  /\ dir[1] >= 2
  /\ 1 + dir[1] <= Len(dir)
  /\ dir[3] >= HeaderWords
  /\ ListOffset(f, dir) + 1 <= Len(dir)
HeaderThere(f, dir) ==
  /\ StreamBlock(f, dir) <= Len(f) \div Word(f, 1)
  /\ StreamBlock(f, dir) * Word(f, 1) + HeaderWords <= Len(f)

ReadPdbInfoIdentity(f, dir) ==
  IF ~StreamListed(f, dir) \/ ~HeaderThere(f, dir) THEN Unreadable
  ELSE LET start == StreamBlock(f, dir) * Word(f, 1)
       IN  IF Known(Word(f, start)) THEN Identity(Word(f, start + 1)) ELSE Unreadable

ParsePdbIdentityFrom(f) ==
  IF ~LooksLikeMsf(f) THEN NotMsf
  ELSE IF \/ Len(f) < SuperWords
          \/ ~SuperblockOK(f) \/ ~BlockMapThere(f)
          \/ ~DirectoryWhole(f)
       THEN Unreadable
       ELSE ReadPdbInfoIdentity(f, Directory(f))

\* The buffers the walk allocates before it knows that the blocks are there.
Allocations(f) ==
  IF LooksLikeMsf(f) /\ Len(f) >= SuperWords /\ SuperblockOK(f)
  THEN {Ceil(Word(f, 2), Word(f, 1))} \cup IF BlockMapThere(f) THEN {Word(f, 2)} ELSE {}
  ELSE {}

-----------------------------------------------------------------------------
(* A linker writes a file with the blocks in any order.                    *)

Blocks == 1..5
Roles == {"map", "dir1", "dir2", "info", "types"}

DirectoryOf(at, size0, size1) ==
  <<3, size0, size1, BlockWords>>
    \o [i \in 1..ListedBlocks(size0, BlockWords) |-> at["types"]]
    \o [i \in 1..ListedBlocks(size1, BlockWords) |-> at["info"]]
    \o <<at["types"]>>

Pad(words) == words \o [i \in 1..(BlockWords - Len(words)) |-> Other]

\* The block of each role; a directory of one block leaves dir2 unused.
BlockOf(role, at, dir) ==
  CASE role = "map" -> Pad(<<at["dir1"], at["dir2"]>>)
    [] role = "dir1" -> Pad(SubSeq(dir, 1, Min({BlockWords, Len(dir)})))
    [] role = "dir2" -> Pad(SubSeq(dir, BlockWords + 1, Len(dir)))
    [] role = "info" -> Pad(<<Version, Guid>>)
    [] role = "types" -> Pad(<<Version, Other>>)

FileOf(at, size0, size1) ==
  LET dir == DirectoryOf(at, size0, size1)
      role(b) == CHOOSE r \in Roles : at[r] = b
  IN  FlattenSeq(<<Pad(<<Magic, BlockWords, Len(dir), at["map"]>>)>>
                   \o [b \in Blocks |-> BlockOf(role(b), at, dir)])

PdbInit ==
  /\ \E at \in Bijection(Roles, Blocks), size0 \in Stream0Sizes, size1 \in Stream1Sizes :
       file = FileOf(at, size0, size1) /\ absent = (size1 = Nil)
  /\ damage = "none"

Cut ==
  /\ damage = "none"
  /\ \E n \in 0..(Len(file) - 1) : file' = SubSeq(file, 1, n)
  /\ damage' = "cut"
  /\ UNCHANGED absent

Change ==
  /\ damage = "none"
  /\ \E i \in 1..Len(file), word \in Damages : file' = [file EXCEPT ![i] = word]
  /\ damage' = "changed"
  /\ UNCHANGED absent

PdbNext == Cut \/ Change
PdbSpec == PdbInit /\ [][PdbNext]_vars

-----------------------------------------------------------------------------
(* Properties.                                                             *)

\* Wherever the linker put the directory and the streams, and whatever streams
\* precede it, the identity of an intact PDB is the one in stream 1
\* (parsePdbIdentityFrom, readStreamPrefix).
IntactIsIdentified ==
  damage = "none" /\ ~absent => ParsePdbIdentityFrom(file) = Identity(Guid)

\* The file ends inside a block of the directory that is not its last.
EarlierBlockCut(f) ==
  /\ Len(f) >= SuperWords /\ BlockMapThere(f)
  /\ \E i \in 1..(Len(DirectoryBlocks(f)) - 1) : (DirectoryBlocks(f)[i] + 1) * Word(f, 1) > Len(f)

\* A PDB that lost its tail is registered under its own identity or not at all
\* ("stream directory is truncated"), with one exception: when the file ends
\* inside an earlier block of the directory, copyBlockIntoFrom takes what is
\* there and the next block moves up, so the length is right and the list of
\* blocks is not.
CutNeverMisleads ==
  damage = "cut" /\ ~absent /\ ~EarlierBlockCut(file) =>
    ParsePdbIdentityFrom(file) \in {Identity(Guid), Unreadable, NotMsf}

\* The same without the exception does not hold.
CutIsNoticed ==
  damage = "cut" /\ ~absent =>
    ParsePdbIdentityFrom(file) \in {Identity(Guid), Unreadable, NotMsf}

\* No word in the file makes the walk allocate more than the length of the
\* file (the module's read discipline).
AllocationsBounded == \A n \in Allocations(file) : n <= Len(file)

\* The module says that a missing PDB Info stream is reported as unreadable.
MissingInfoIsUnreadable ==
  damage = "none" /\ absent => ParsePdbIdentityFrom(file) = Unreadable

\* The identity of a PDB is its own or none, at bounded cost (identity.ts).
PdbIsExact == IntactIsIdentified /\ CutNeverMisleads /\ AllocationsBounded
=============================================================================
