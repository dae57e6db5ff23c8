--------------------------- MODULE TransferBundle ---------------------------
(***************************************************************************)
(* The export bundle: what the exporter selects, what the importer demands *)
(* of it.                                                                  *)
(*                                                                         *)
(* A ledger is a record of the tables the bundle carries.  A dump row has  *)
(* its phase and whether a purge date is set; the audit feed is the        *)
(* sequence of the dumps its events name, None for events without one.     *)
(* Bytes are named by the dump they belong to and have their digest; a     *)
(* tar entry holds the bytes ("good"), other bytes of the same size        *)
(* ("changed"), or a file of another size ("resized").                     *)
(***************************************************************************)
EXTENDS Naturals, FiniteSets, Sequences

CONSTANTS
  Customers, Cases, Grants, Dumps,
  Symbols,      \* symbol artifacts of kind pdb, one per debug identity
  Refs,         \* Refs[d]: the artifacts the inspection facts of d name
  SlotLimit,    \* the largest slot count the import of a grant row accepts
  None

ASSUME RefsAreSymbols == Refs \in [Dumps -> SUBSET Symbols]
ASSUME SlotLimitIsNat == SlotLimit \in Nat
ASSUME NoneIsNoDump == None \notin Dumps

StablePhases == {"available", "rejected", "deleted"}
UnstablePhases == {"receiving", "sealed", "quarantined", "deleting"}
TransferPhases == StablePhases \cup UnstablePhases \cup {"absent"}
GrantStates == {"absent", "issued", "consumed", "revoked", "expired"}

\* facts: the dumps with inspection facts; rich: canonical analysis details exist.
Ledgers ==
  [customers: SUBSET Customers, cases: SUBSET Cases, grants: [Grants -> GrantStates],
   slots: [Grants -> Nat], dumps: [Dumps -> TransferPhases], dated: SUBSET Dumps,
   facts: SUBSET Dumps, audit: Seq(Dumps \cup {None}), symbols: SUBSET Symbols,
   rich: {"none", "some"}]

EmptyLedger ==
  [customers |-> {}, cases |-> {}, grants |-> [g \in Grants |-> "absent"],
   slots |-> [g \in Grants |-> 0], dumps |-> [d \in Dumps |-> "absent"], dated |-> {},
   facts |-> {}, audit |-> <<>>, symbols |-> {}, rich |-> "none"]

DumpRows(l) == {d \in Dumps : l.dumps[d] # "absent"}
GrantRows(l) == {g \in Grants : l.grants[g] # "absent"}
Declared(l) == {d \in Dumps : l.dumps[d] \in StablePhases}
AvailableDumps(l) == {d \in Dumps : l.dumps[d] = "available"}

-----------------------------------------------------------------------------
(* The manifest.                                                           *)

\* Events of dumps that stay behind are not counted.
CountedEvents(l, declared) == Cardinality({k \in DOMAIN l.audit : l.audit[k] \in declared \cup {None}})

\* Artifacts come from the snapshot, the facts that name them from the copy.
SelectSymbols(snapshot, copy) ==
  {s \in snapshot.symbols : \E d \in Declared(snapshot) \cap copy.facts : s \in Refs[d]}

\* Everything but the choice of symbols is computed from the snapshot.
Select(snapshot, symbols) ==
  [phases |-> [d \in Declared(snapshot) |-> snapshot.dumps[d]],
   skipped |-> DumpRows(snapshot) \ Declared(snapshot),
   customers |-> Cardinality(snapshot.customers),
   cases |-> Cardinality(snapshot.cases),
   grants |-> Cardinality(GrantRows(snapshot)),
   events |-> CountedEvents(snapshot, Declared(snapshot)),
   symbols |-> symbols]

Promised(manifest) == {d \in DOMAIN manifest.phases : manifest.phases[d] = "available"}

\* Of the fields of an entry, the phase is the one the model can get wrong.
ParseDumpEntry(manifest, d) == manifest.phases[d] \in StablePhases

\* parseExportManifest: a dump is listed once, as exported or as skipped.
ParseExportManifest(manifest) ==
  /\ DOMAIN manifest.phases \cap manifest.skipped = {}
  /\ \A d \in DOMAIN manifest.phases : ParseDumpEntry(manifest, d)

-----------------------------------------------------------------------------
(* The checks of the importer, before it changes anything.                 *)

\* A bundle: the manifest, the ledger copy, and the tar entries by name.
\* version: its schema against the running one; layout: what readTar and
\* collectEntries say of the file.

\* The column readers; the slot counts are the columns they can refuse here.
RowParses(copy, g) == copy.slots[g] <= SlotLimit

\* readBundleLedger: a copy with canonical analysis details, or with a row that
\* does not parse, is refused.
RowsReadable(copy) ==
  /\ copy.rich = "none"
  /\ \A g \in GrantRows(copy) : RowParses(copy, g)

CheckDumpRows(manifest, copy, entries) ==
  /\ \A d \in DOMAIN manifest.phases : copy.dumps[d] = manifest.phases[d]
  /\ Promised(manifest) \subseteq DOMAIN entries
  /\ DumpRows(copy) \subseteq DOMAIN manifest.phases \cup manifest.skipped

CheckEntries(manifest, entries, symbolEntries) ==
  /\ DOMAIN entries \subseteq Promised(manifest)
  /\ DOMAIN symbolEntries = manifest.symbols

\* Seeded fault.
CheckRowCounts(manifest, copy) ==
  /\ manifest.customers = Cardinality(copy.customers)
  /\ manifest.cases = Cardinality(copy.cases)
  /\ manifest.grants = Cardinality(GrantRows(copy))

CheckCounts(manifest, copy) ==
  /\ manifest.customers = Cardinality(copy.customers)
  /\ manifest.cases = Cardinality(copy.cases)
  /\ manifest.grants = Cardinality(GrantRows(copy))
  /\ manifest.events = CountedEvents(copy, DOMAIN manifest.phases)

CheckConsistency(b) ==
  /\ CheckDumpRows(b.manifest, b.copy, b.entries)
  /\ CheckEntries(b.manifest, b.entries, b.symbolEntries)
  /\ CheckCounts(b.manifest, b.copy)

\* openImportSession: every gate, in an order that does not matter here.
OpenImportSession(b) ==
  /\ b.layout = "strict"
  /\ b.version # "newer"
  /\ ParseExportManifest(b.manifest)
  /\ RowsReadable(b.copy)
  /\ CheckConsistency(b)
=============================================================================
