------------------------------- MODULE MCStores -------------------------------
(***************************************************************************)
(* The parts of the service that write and read files of their own, for    *)
(* TLC: bundles and their tar, symbol files and their names, dumps.  They  *)
(* share no state, so a behaviour follows one of them, chosen at the       *)
(* start, and the others rest.                                             *)
(***************************************************************************)
EXTENDS BundleImport, BundleExport, AcceptedFiles, TLC

CONSTANTS
  Parts,         \* the parts to choose from
  d1, d2, d3, s1, u1, c1, c2, g1, g2

VARIABLES
  part,          \* the part this behaviour follows
  sink, writer, written, archive, reader,            \* TarCodec
  pdb, pdbDamage, absent,                            \* PdbIdentity
  image, stamps,                                     \* PeIdentity
  name, header, raw                                  \* FilenameCodec

-----------------------------------------------------------------------------
(* The parts.                                                              *)

\* One dump names the symbol artifact in its facts, the others do not.
MCRefs == [d \in Dumps |-> IF d = d1 THEN {s1} ELSE {}]

\* Ledgers to export: d1 anywhere on its way, d2 not there yet or available, d3 a
\* tombstone.
MCSources ==
  {[EmptyLedger EXCEPT
     !.customers = {u1}, !.cases = {c1}, !.grants[g1] = "issued", !.slots[g1] = n,
     !.dumps = phases, !.symbols = Symbols,
     !.facts = {d \in Dumps : phases[d] \in {"available", "deleted"}}] :
     n \in ExportSlots,
     phases \in {p \in [Dumps -> TransferPhases] :
                  p[d2] \in {"absent", "available"} /\ p[d3] = "deleted"}}

\* Sizes on both sides of a block and of the octal limit.
Tar == INSTANCE TarCodec WITH
  Names <- {"n1", "n2"}, Sizes <- {0, 1, 4, 64, 65}, Block <- 4, Digits <- 2,
  MaxEntries <- 2, MaxBytes <- 128, file <- archive

Pdb == INSTANCE PdbIdentity WITH
  BlockWords <- 8, MinBlock <- 4, Stream0Sizes <- {0, 30, 80}, Stream1Sizes <- {2, 7},
  Damages <- {0, 1, 9, 80}, file <- pdb, damage <- pdbDamage

\* Files that end one byte before, at and after each field of the walk.
Pe == INSTANCE PeIdentity WITH
  FileSizes <- {0, 63, 64, 67, 83, 84, 85, 87, 88, 147, 148, 200, 283, 284},
  PeOffsets <- {0, 1, 3, 63, 64, 65, 80, 199, 200, 201, 2147483000},
  OptionalSizes <- {0, 59, 60, 224}, Base <- 3, Width <- 2

\* Units and bytes on the edges of the ranges of UTF-16 and UTF-8.
Filename == INSTANCE FilenameCodec WITH
  Units <- {31, 46, 47, 92, 97, 127, 128, 2047, 2048, 55295, 55296, 56319, 56320, 57343,
            65533, 65535},
  Bytes <- {97, 128, 143, 144, 159, 160, 191, 193, 194, 224, 237, 240, 244, 245},
  MaxName <- 2, MaxSegment <- 2, MaxHeader <- 8, LongestName <- 3, LongestBytes <- 4

\* Dumps with up to two ranges in each memory list, and modules whose names and
\* records meet the limits: one word below, at and above the budget.
Shape(ranges, ranges64, names, records, alias) ==
  [ranges |-> ranges, ranges64 |-> ranges64, names |-> names, records |-> records,
   alias |-> alias]
MCShapes ==
  { Shape(<<1, 2>>, <<2, 1>>, <<2, 2>>, <<1, 1>>, TRUE),
    Shape(<<1, 2>>, <<2, 1>>, <<2, 1>>, <<1, 1>>, FALSE),
    Shape(<<>>, <<3>>, <<2, 2>>, <<2, 1>>, TRUE),
    Shape(<<2>>, <<>>, <<2, 1>>, <<1, 3>>, FALSE),
    Shape(<<>>, <<>>, <<>>, <<>>, FALSE) }

ASSUME PartsAssumption ==
  /\ Tar!TarBounds /\ Pdb!PdbBounds /\ Pe!PeBounds
  /\ Filename!FilenameBounds

\* Two builds of one PDB, an image, and a file without an identity.
MCIdentityOf == "build1" :> "pdb" @@ "build2" :> "pdb" @@ "image" :> "exe" @@ "text" :> NoIdentity

-----------------------------------------------------------------------------
(* Bundles to import: what an export of a small ledger writes, under this  *)
(* instance's grant key and under another, and what becomes of it on the   *)
(* way.  The grants differ, so that it shows where one came from.          *)

\* d1 available, d2 a tombstone, d3 still on its way and left behind.
Source(grant, tombstone, third) ==
  [EmptyLedger EXCEPT
    !.customers = {u1}, !.cases = {c1},
    !.grants = [g \in Grants |-> IF g = grant THEN "issued" ELSE "absent"],
    !.slots = [g \in Grants |-> IF g = grant THEN 1 ELSE 0],
    !.dumps = [d \in Dumps |-> IF d = d1 THEN "available" ELSE IF d = d2 THEN tombstone ELSE third],
    !.facts = {d1}, !.symbols = Symbols, !.audit = <<None, d1, d3>>]

Written(l, key) ==
  LET manifest == Select(l, SelectSymbols(l, l))
  IN  [NoFile EXCEPT
        !.manifest = manifest, !.copy = l, !.key = key,
        !.entries = [d \in Promised(manifest) |-> "good"],
        !.symbolEntries = [s \in manifest.symbols |-> "good"]]

Damaged(b) ==
  {[b EXCEPT !.entries[d1] = "changed"], [b EXCEPT !.entries[d1] = "resized"],
   [b EXCEPT !.symbolEntries[s1] = "changed"],
   [b EXCEPT !.entries = <<>>], [b EXCEPT !.layout = "broken"], [b EXCEPT !.version = "newer"],
   [b EXCEPT !.copy.dumps[d1] = "deleting"], [b EXCEPT !.copy.audit = Append(@, None)]}

SameKey == Written(Source(g1, "deleted", "receiving"), "same")
ForeignKey == Written(Source(g2, "rejected", "sealed"), "foreign")

\* A bundle of an instance without rows: its import leaves the ledger empty, and
\* another one may follow.
OfNothing == Written([EmptyLedger EXCEPT !.audit = <<None>>], "same")

MCBundles ==
  {SameKey, OfNothing} \cup Damaged(SameKey) \cup {ForeignKey, [ForeignKey EXCEPT !.entries[d1] = "changed"]}

-----------------------------------------------------------------------------
(* One part moves.                                                         *)

tarVars == <<sink, writer, written, archive, reader>>
pdbVars == <<pdb, pdbDamage, absent>>
peVars == <<image, stamps>>
nameVars == <<name, header, raw>>
codecVars == <<tarVars, pdbVars, peVars, nameVars, dumpVars>>
storeVars == <<part, vars, symbolVars, exportVars, codecVars>>

\* A part at rest has a fixed state; some have many initial ones.
RestingPdb == pdb = <<>> /\ pdbDamage = "none" /\ absent = TRUE
RestingInspector ==
  /\ dump = <<>> /\ dumpDamage = "none" /\ phase = "rest" /\ at = 0 /\ budget = 0
  /\ captured = 0 /\ modules = <<>> /\ outcome = "none" /\ readFaults = 0

StoresInit ==
  /\ part \in Parts
  /\ ImportInit
  /\ ExportInit /\ (part # "export" => ledger = CHOOSE l \in Sources : TRUE)
  /\ SymbolInit /\ (part # "symbols" => content = [a \in Artifacts |-> "text"])
  /\ IF part = "pdb" THEN Pdb!PdbInit ELSE RestingPdb
  /\ IF part = "dump" THEN Inspector!InspectInit ELSE RestingInspector
  /\ Tar!TarInit /\ Pe!PeInit /\ Filename!FilenameInit

OnlyImport == part = "import" /\ UNCHANGED <<part, exportVars, symbolVars, codecVars>>
OnlyExport == part = "export" /\ UNCHANGED <<part, vars, symbolVars, codecVars>>
OnlySymbols == part = "symbols" /\ UNCHANGED <<part, vars, exportVars, codecVars>>
OnlyCodec(p) == part = p /\ UNCHANGED <<part, vars, exportVars, symbolVars>>

StoresNext ==
  \/ OnlyImport /\ ImportNext
  \/ OnlyExport /\ ExportNext
  \/ OnlySymbols /\ SymbolNext
  \/ OnlyCodec("tar") /\ Tar!TarNext /\ UNCHANGED <<pdbVars, peVars, nameVars, dumpVars>>
  \/ OnlyCodec("pdb") /\ Pdb!PdbNext /\ UNCHANGED <<tarVars, peVars, nameVars, dumpVars>>
  \/ OnlyCodec("pe") /\ Pe!PeNext /\ UNCHANGED <<tarVars, pdbVars, nameVars, dumpVars>>
  \/ OnlyCodec("name") /\ Filename!FilenameNext /\ UNCHANGED <<tarVars, pdbVars, peVars, dumpVars>>
  \/ OnlyCodec("dump") /\ Inspector!InspectNext /\ UNCHANGED <<tarVars, pdbVars, peVars, nameVars>>

StoresSafety == StoresInit /\ [][StoresNext]_storeVars

\* The fairness of ExportSpec: a backup ends and the process is restarted.
StoresSpec ==
  /\ StoresSafety
  /\ WF_storeVars(OnlyExport /\ JobStep)
  /\ WF_storeVars(OnlyExport /\ ScanExportsDir)

-----------------------------------------------------------------------------
(* The properties, by what they are about.                                 *)

\* What was written is what is read: archives, entry by entry and to their end
\* (tar.ts), and file names, through header, decoder and store (uploads.ts).
FormatsRoundTrip ==
  /\ part = "tar" => Tar!ArchiveIsExact
  /\ part = "name" => Filename!NamesSurvive

\* A debug file or an image is registered under its own identity or not at all,
\* but for one shape of truncation (identity.ts).
IdentityIsExact ==
  /\ part = "pdb" => Pdb!PdbIsExact
  /\ part = "pe" => Pe!PeIsExact
=============================================================================
