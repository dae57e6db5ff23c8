---------------------------- MODULE TransferProofs ----------------------------
(***************************************************************************)
(* Proofs about the two sides of a transfer, for any sets of rows and any  *)
(* number of commands beside it, faults and crashes: BundleExport first,   *)
(* then BundleImport.                                                      *)
(***************************************************************************)
EXTENDS BundleExport, BundleImport, FiniteSetTheorems, TLAPS

\* Every grant of the instance has a slot count that the importer reads.
SlotsReadable(l) == \A g \in Grants : l.slots[g] <= SlotLimit

Jobs == [pc : {"idle", "backup", "stream"}, snapshot : Ledgers, symbols : {"yes", "no"}, copy : Ledgers]

ExportTypeInv ==
  /\ ledger \in Ledgers /\ vault \subseteq Dumps /\ exportMode \in {"up", "down"}
  /\ exports \in [Exports -> {"absent", "running", "sealed", "failed"}]
  /\ disk \in [Exports -> {"none", "work", "sealed"}]
  /\ active \in Exports \cup {None} /\ job \in Jobs /\ DOMAIN bundles = Exports

\* One claim, one job, one work area; a process that is down knows of none.
ClaimInv ==
  /\ job.pc = "idle" <=> active = None
  /\ exportMode = "down" => active = None
  /\ exportMode = "up" =>
       \A e \in Exports : /\ exports[e] = "sealed" <=> disk[e] = "sealed"
                          /\ disk[e] = "work" <=> active = e
  /\ job.pc = "stream" => job.copy.rich = "none"

\* A sealed bundle: the manifest was selected from its snapshot, all of what it
\* promises is there, and the copy has no canonical analysis details.
BundleSound(e) ==
  LET b == bundles[e] IN
  /\ \E symbols : b.manifest = Select(b.snapshot, symbols)
  /\ DOMAIN b.entries = AvailableDumps(b.snapshot)
  /\ DOMAIN b.symbolEntries = b.manifest.symbols
  /\ b.layout = "strict" /\ b.version = "current" /\ b.copy.rich = "none"

ExportInv ==
  ExportTypeInv /\ ClaimInv /\ \A e \in Exports : disk[e] = "sealed" => BundleSound(e)

-----------------------------------------------------------------------------
(* The operators.                                                          *)

LEMMA EmptyIsLedger == EmptyLedger \in Ledgers
BY DEF EmptyLedger, Ledgers, TransferPhases, GrantStates

LEMMA IdleJobFacts == IdleJob \in Jobs /\ IdleJob.pc = "idle"
BY EmptyIsLedger DEF IdleJob, Jobs

LEMMA SelectFacts ==
  ASSUME NEW l, NEW symbols
  PROVE  /\ DOMAIN Select(l, symbols).phases = Declared(l)
         /\ \A d \in Declared(l) : Select(l, symbols).phases[d] = l.dumps[d]
         /\ Select(l, symbols).skipped = DumpRows(l) \ Declared(l)
         /\ Select(l, symbols).customers = Cardinality(l.customers)
         /\ Select(l, symbols).cases = Cardinality(l.cases)
         /\ Select(l, symbols).grants = Cardinality(GrantRows(l))
         /\ Select(l, symbols).events = CountedEvents(l, Declared(l))
         /\ Select(l, symbols).symbols = symbols
         /\ Promised(Select(l, symbols)) = AvailableDumps(l)
<1>1. /\ Select(l, symbols).phases = [d \in Declared(l) |-> l.dumps[d]]
      /\ Select(l, symbols).skipped = DumpRows(l) \ Declared(l)
      /\ Select(l, symbols).customers = Cardinality(l.customers)
      /\ Select(l, symbols).cases = Cardinality(l.cases)
      /\ Select(l, symbols).grants = Cardinality(GrantRows(l))
      /\ Select(l, symbols).events = CountedEvents(l, Declared(l))
      /\ Select(l, symbols).symbols = symbols
  BY DEF Select
<1>2. Promised(Select(l, symbols)) = AvailableDumps(l)
  BY <1>1 DEF Promised, AvailableDumps, Declared, StablePhases
<1>3. QED
  BY <1>1, <1>2

\* What WrittenBundle is when the bytes are there.
LEMMA WrittenFacts ==
  ASSUME BytesThere
  PROVE  /\ \E symbols : WrittenBundle.manifest = Select(WrittenBundle.snapshot, symbols)
         /\ DOMAIN WrittenBundle.entries = AvailableDumps(WrittenBundle.snapshot)
         /\ DOMAIN WrittenBundle.symbolEntries = WrittenBundle.manifest.symbols
         /\ WrittenBundle.layout = "strict" /\ WrittenBundle.version = "current"
         /\ WrittenBundle.copy = job.copy /\ WrittenBundle.snapshot = job.snapshot
<1>1. /\ WrittenBundle.manifest = Manifest /\ WrittenBundle.copy = job.copy
      /\ WrittenBundle.snapshot = job.snapshot
      /\ WrittenBundle.layout = "strict" /\ WrittenBundle.version = "current"
      /\ WrittenBundle.entries = [d \in AvailableDumps(job.snapshot) \cap vault |-> "good"]
      /\ WrittenBundle.symbolEntries = [s \in Manifest.symbols \cap ledger.symbols |-> "good"]
  BY DEF WrittenBundle, NoBundle
<1>2. \E symbols : Manifest = Select(job.snapshot, symbols)
  BY DEF Manifest
<1>3. /\ AvailableDumps(job.snapshot) \cap vault = AvailableDumps(job.snapshot)
      /\ Manifest.symbols \cap ledger.symbols = Manifest.symbols
  BY DEF BytesThere
<1>4. QED
  BY <1>1, <1>2, <1>3

\* A bundle that was written from one state of the ledger passes every gate.
LEMMA QuietOpens ==
  ASSUME NEW e \in Exports, BundleSound(e), bundles[e].copy = bundles[e].snapshot,
         \A g \in GrantRows(bundles[e].copy) : RowParses(bundles[e].copy, g)
  PROVE  OpenImportSession(bundles[e])
<1> DEFINE b == bundles[e]
<1> DEFINE l == bundles[e].snapshot
<1>1. PICK symbols : b.manifest = Select(l, symbols)
  BY DEF BundleSound
<1>2. /\ DOMAIN b.manifest.phases = Declared(l)
      /\ \A d \in Declared(l) : b.manifest.phases[d] = l.dumps[d]
      /\ b.manifest.skipped = DumpRows(l) \ Declared(l)
      /\ b.manifest.customers = Cardinality(l.customers) /\ b.manifest.cases = Cardinality(l.cases)
      /\ b.manifest.grants = Cardinality(GrantRows(l))
      /\ b.manifest.events = CountedEvents(l, Declared(l))
      /\ Promised(b.manifest) = AvailableDumps(l)
  BY <1>1, SelectFacts
<1>3. ParseExportManifest(b.manifest)
  BY <1>2 DEF ParseExportManifest, ParseDumpEntry, Declared
<1>4. RowsReadable(b.copy)
  BY DEF RowsReadable, BundleSound
<1>5. CheckDumpRows(b.manifest, b.copy, b.entries)
  BY <1>2 DEF CheckDumpRows, BundleSound
<1>6. CheckEntries(b.manifest, b.entries, b.symbolEntries)
  BY <1>2 DEF CheckEntries, BundleSound
<1>7. CheckCounts(b.manifest, b.copy)
  BY <1>2 DEF CheckCounts
<1>8. QED
  BY <1>3, <1>4, <1>5, <1>6, <1>7 DEF OpenImportSession, CheckConsistency, BundleSound

-----------------------------------------------------------------------------
(* Commands beside the job.                                                *)

\* What a command is to the ledger: one event, about x or about no dump.  It
\* changes no row of another dump and removes none; it touches a customer, a
\* case or a slot count only with an event that names no dump, and a grant only
\* with such an event or with a new dump.
CommandOf(x) ==
  /\ ledger'.audit = Append(ledger.audit, x)
  /\ x # None => /\ ledger'.customers = ledger.customers /\ ledger'.cases = ledger.cases
                 /\ ledger'.slots = ledger.slots
  /\ \A d \in Dumps :
       d # x => ledger'.dumps[d] = ledger.dumps[d] /\ (d \in ledger'.dated <=> d \in ledger.dated)
  /\ DumpRows(ledger) \subseteq DumpRows(ledger')
  /\ \/ x = None
     \/ ledger'.grants = ledger.grants
     \/ x \in DumpRows(ledger') /\ x \notin DumpRows(ledger)

Command == ledger' \in Ledgers /\ \E x \in Dumps \cup {None} : CommandOf(x)

\* A slot count moves only when its grant is issued.
SlotsStay == \A g \in Grants : ledger'.slots[g] \in {ledger.slots[g]} \cup ExportSlots

LEMMA CommitFacts ==
  ASSUME ledger \in Ledgers, NEW l \in Ledgers, NEW x \in Dumps \cup {None}, Commit(l, x),
         l.audit = ledger.audit,
         x # None => /\ l.customers = ledger.customers /\ l.cases = ledger.cases
                     /\ l.slots = ledger.slots,
         \A d \in Dumps : d # x => l.dumps[d] = ledger.dumps[d] /\ (d \in l.dated <=> d \in ledger.dated),
         \A d \in Dumps : ledger.dumps[d] # "absent" => l.dumps[d] # "absent",
         \/ x = None
         \/ l.grants = ledger.grants
         \/ x \in Dumps /\ l.dumps[x] # "absent" /\ ledger.dumps[x] = "absent"
  PROVE  Command /\ ledger'.slots = l.slots
<1>1. l.audit \in Seq(Dumps \cup {None})
  BY DEF Ledgers
<1>2. Append(l.audit, x) \in Seq(Dumps \cup {None})
  BY <1>1
<1>3. ledger' = [l EXCEPT !.audit = Append(l.audit, x)]
  BY DEF Commit
<1>4. ledger' \in Ledgers
  BY <1>2, <1>3 DEF Ledgers
<1>5. /\ ledger'.audit = Append(l.audit, x) /\ ledger'.customers = l.customers
      /\ ledger'.cases = l.cases /\ ledger'.slots = l.slots /\ ledger'.dumps = l.dumps
      /\ ledger'.dated = l.dated /\ ledger'.grants = l.grants
  BY <1>3 DEF Ledgers
<1>6. DumpRows(ledger) \subseteq DumpRows(ledger')
  BY <1>5 DEF DumpRows
<1>7. \/ x = None
      \/ ledger'.grants = ledger.grants
      \/ x \in DumpRows(ledger') /\ x \notin DumpRows(ledger)
  BY <1>5 DEF DumpRows
<1>8. CommandOf(x)
  BY <1>5, <1>6, <1>7 DEF CommandOf
<1>9. QED
  BY <1>4, <1>5, <1>8 DEF Command

LEMMA MoveFacts ==
  ASSUME ledger \in Ledgers, NEW d \in Dumps, NEW from, NEW to \in TransferPhases \ {"absent"},
         MoveDump(d, from, to)
  PROVE  Command /\ ledger'.slots = ledger.slots
<1> DEFINE l == [ledger EXCEPT !.dumps[d] = to]
<1>1. ledger.dumps \in [Dumps -> TransferPhases]
  BY DEF Ledgers
<1>2. /\ l \in Ledgers /\ l.audit = ledger.audit /\ l.customers = ledger.customers
      /\ l.cases = ledger.cases /\ l.slots = ledger.slots /\ l.grants = ledger.grants
      /\ l.dated = ledger.dated /\ l.dumps = [ledger.dumps EXCEPT ![d] = to]
  BY <1>1 DEF Ledgers
<1>3. Commit(l, d)
  BY DEF MoveDump
<1> HIDE DEF l
<1>4. /\ \A e \in Dumps : e # d => l.dumps[e] = ledger.dumps[e]
      /\ \A e \in Dumps : ledger.dumps[e] # "absent" => l.dumps[e] # "absent"
  BY <1>1, <1>2
<1>5. d \in Dumps \cup {None} /\ l.grants = ledger.grants /\ l.slots = ledger.slots
      /\ l.customers = ledger.customers /\ l.cases = ledger.cases /\ l.dated = ledger.dated
  BY <1>2
<1>6. Command /\ ledger'.slots = l.slots
  BY <1>2, <1>3, <1>4, <1>5, CommitFacts
<1>7. QED
  BY <1>5, <1>6

LEMMA LiveFacts ==
  ASSUME ExportTypeInv, CommandBeside
  PROVE  /\ Command /\ ledger' \in Ledgers /\ SlotsStay /\ vault' \subseteq Dumps
         /\ job.pc # "stream"
         /\ exports' = exports /\ active' = active /\ job' = job /\ disk' = disk
         /\ bundles' = bundles /\ exportMode' = exportMode
<1> DEFINE Good == Command /\ SlotsStay /\ vault' \subseteq Dumps
<1>0. /\ ledger \in Ledgers /\ vault \subseteq Dumps
      /\ ledger.dumps \in [Dumps -> TransferPhases] /\ ledger.grants \in [Grants -> GrantStates]
      /\ \A p \in {"receiving", "sealed", "rejected", "quarantined", "deleting", "available", "deleted"} :
           p \in TransferPhases /\ p # "absent"
      /\ \A s \in {"issued", "consumed", "revoked"} : s \in GrantStates
  BY DEF ExportTypeInv, Ledgers, TransferPhases, StablePhases, UnstablePhases, GrantStates
<1>1. ASSUME NEW d \in Dumps, NEW g \in Grants, BeginUpload(d, g) PROVE Good
  <2>1. PICK state \in {"issued", "consumed"} :
          Commit([ledger EXCEPT !.dumps[d] = "receiving", !.grants[g] = state], d)
    BY <1>1 DEF BeginUpload
  <2> DEFINE l == [ledger EXCEPT !.dumps[d] = "receiving", !.grants[g] = state]
  <2>2. /\ l \in Ledgers /\ l.audit = ledger.audit /\ l.customers = ledger.customers
        /\ l.cases = ledger.cases /\ l.slots = ledger.slots /\ l.dated = ledger.dated
        /\ l.dumps = [ledger.dumps EXCEPT ![d] = "receiving"]
    BY <1>0 DEF Ledgers
  <2>3. Commit(l, d)
    BY <2>1
  <2> HIDE DEF l
  <2>4. /\ \A e \in Dumps : e # d => l.dumps[e] = ledger.dumps[e]
        /\ \A e \in Dumps : ledger.dumps[e] # "absent" => l.dumps[e] # "absent"
        /\ l.dumps[d] # "absent" /\ ledger.dumps[d] = "absent"
    BY <1>0, <1>1, <2>2 DEF BeginUpload, SlotsStay
  <2>5. Command /\ ledger'.slots = ledger.slots
    BY <1>0, <2>2, <2>3, <2>4, CommitFacts
  <2>6. QED
    BY <1>0, <1>1, <2>5 DEF BeginUpload, SlotsStay
<1>2. ASSUME NEW d \in Dumps, AdvanceDump(d) PROVE Good
  <2>1. \E to \in TransferPhases \ {"absent"} : \E from : MoveDump(d, from, to)
    BY <1>0, <1>2 DEF AdvanceDump
  <2>2. QED
    BY <1>0, <1>2, <2>1, MoveFacts DEF AdvanceDump, SlotsStay
<1>3. ASSUME NEW d \in Dumps, PromoteBeside(d) \/ AuthorizeDownload(d) PROVE Good
  <2>1. Command /\ ledger'.slots = ledger.slots
    BY <1>0, <1>3, CommitFacts DEF PromoteBeside, AuthorizeDownload
  <2>2. QED
    BY <1>0, <1>3, <2>1 DEF PromoteBeside, AuthorizeDownload, SlotsStay
<1>4. ASSUME NEW d \in Dumps, AcceptDump(d) PROVE Good
  <2> DEFINE l == [ledger EXCEPT !.dumps[d] = "available", !.facts = @ \cup {d}]
  <2>1. /\ l \in Ledgers /\ l.audit = ledger.audit /\ l.customers = ledger.customers
        /\ l.cases = ledger.cases /\ l.slots = ledger.slots /\ l.dated = ledger.dated
        /\ l.grants = ledger.grants /\ l.dumps = [ledger.dumps EXCEPT ![d] = "available"]
    BY <1>0 DEF Ledgers
  <2>2. Commit(l, d)
    BY <1>4 DEF AcceptDump
  <2> HIDE DEF l
  <2>3. /\ \A e \in Dumps : e # d => l.dumps[e] = ledger.dumps[e]
        /\ \A e \in Dumps : ledger.dumps[e] # "absent" => l.dumps[e] # "absent"
    BY <1>0, <2>1
  <2>4. Command /\ ledger'.slots = ledger.slots
    BY <1>0, <2>1, <2>2, <2>3, CommitFacts
  <2>5. QED
    BY <1>0, <1>4, <2>4 DEF AcceptDump, SlotsStay
<1>5. ASSUME NEW d \in Dumps, FinishPurge(d) PROVE Good
  BY <1>0, <1>5, MoveFacts DEF FinishPurge, SlotsStay
<1>6. ASSUME NEW d \in Dumps, SetRetention(d) PROVE Good
  <2> DEFINE l == [ledger EXCEPT !.dated = @ \cup {d}]
  <2>1. /\ l \in Ledgers /\ l.audit = ledger.audit /\ l.customers = ledger.customers
        /\ l.cases = ledger.cases /\ l.slots = ledger.slots /\ l.dated = ledger.dated \cup {d}
        /\ l.grants = ledger.grants /\ l.dumps = ledger.dumps
    BY <1>0 DEF Ledgers
  <2>2. Commit(l, d)
    BY <1>6 DEF SetRetention
  <2> HIDE DEF l
  <2>3. Command /\ ledger'.slots = ledger.slots
    BY <1>0, <2>1, <2>2, CommitFacts
  <2>4. QED
    BY <1>0, <1>6, <2>3 DEF SetRetention, SlotsStay
<1>7. ASSUME NEW d \in Dumps, RecordRichAnalysis(d) PROVE Good
  <2> DEFINE l == [ledger EXCEPT !.rich = "some"]
  <2>1. /\ l \in Ledgers /\ l.audit = ledger.audit /\ l.customers = ledger.customers
        /\ l.cases = ledger.cases /\ l.slots = ledger.slots /\ l.dated = ledger.dated
        /\ l.grants = ledger.grants /\ l.dumps = ledger.dumps
    BY <1>0 DEF Ledgers
  <2>2. Commit(l, d)
    BY <1>7 DEF RecordRichAnalysis
  <2> HIDE DEF l
  <2>3. Command /\ ledger'.slots = ledger.slots
    BY <1>0, <2>1, <2>2, CommitFacts
  <2>4. QED
    BY <1>0, <1>7, <2>3 DEF RecordRichAnalysis, SlotsStay
<1>8. ASSUME CreateRow PROVE Good
  <2>1. ASSUME NEW u \in Customers, Commit([ledger EXCEPT !.customers = @ \cup {u}], None)
       PROVE  Command /\ ledger'.slots = ledger.slots
    <3> DEFINE l == [ledger EXCEPT !.customers = @ \cup {u}]
    <3>1. /\ l \in Ledgers /\ l.audit = ledger.audit /\ l.slots = ledger.slots
          /\ l.dated = ledger.dated /\ l.grants = ledger.grants /\ l.dumps = ledger.dumps
      BY <1>0 DEF Ledgers
    <3>2. Commit(l, None)
      BY <2>1
    <3> HIDE DEF l
    <3>3. QED
      BY <1>0, <3>1, <3>2, CommitFacts
  <2>2. ASSUME NEW c \in Cases, Commit([ledger EXCEPT !.cases = @ \cup {c}], None)
       PROVE  Command /\ ledger'.slots = ledger.slots
    <3> DEFINE l == [ledger EXCEPT !.cases = @ \cup {c}]
    <3>1. /\ l \in Ledgers /\ l.audit = ledger.audit /\ l.slots = ledger.slots
          /\ l.dated = ledger.dated /\ l.grants = ledger.grants /\ l.dumps = ledger.dumps
      BY <1>0 DEF Ledgers
    <3>2. Commit(l, None)
      BY <2>2
    <3> HIDE DEF l
    <3>3. QED
      BY <1>0, <3>1, <3>2, CommitFacts
  <2>3. QED
    BY <1>0, <1>8, <2>1, <2>2 DEF CreateRow, SlotsStay
<1>9. ASSUME NEW g \in Grants, IssueGrant(g) PROVE Good
  <2>1. PICK n \in ExportSlots :
          Commit([ledger EXCEPT !.grants[g] = "issued", !.slots[g] = n], None)
    BY <1>9 DEF IssueGrant
  <2> DEFINE l == [ledger EXCEPT !.grants[g] = "issued", !.slots[g] = n]
  <2>2. /\ l \in Ledgers /\ l.audit = ledger.audit /\ l.dated = ledger.dated
        /\ l.dumps = ledger.dumps /\ l.slots = [ledger.slots EXCEPT ![g] = n]
    BY <1>0, ExportBounds DEF Ledgers
  <2>3. Commit(l, None)
    BY <2>1
  <2> HIDE DEF l
  <2>4. Command /\ ledger'.slots = l.slots
    BY <1>0, <2>2, <2>3, CommitFacts
  <2>5. SlotsStay
    <3>1. ledger.slots \in [Grants -> Nat]
      BY <1>0 DEF Ledgers
    <3>2. QED
      BY <2>2, <2>4, <3>1 DEF SlotsStay
  <2>6. QED
    BY <1>0, <1>9, <2>4, <2>5 DEF IssueGrant
<1>10. ASSUME NEW revoked \in SUBSET Grants, RevokeGrants(revoked) PROVE Good
  <2> DEFINE l == [ledger EXCEPT !.grants = [g \in Grants |-> IF g \in revoked THEN "revoked" ELSE @[g]]]
  <2>1. /\ l \in Ledgers /\ l.audit = ledger.audit /\ l.customers = ledger.customers
        /\ l.cases = ledger.cases /\ l.slots = ledger.slots /\ l.dated = ledger.dated
        /\ l.dumps = ledger.dumps
    BY <1>0 DEF Ledgers
  <2>2. Commit(l, None)
    BY <1>10 DEF RevokeGrants
  <2> HIDE DEF l
  <2>3. Command /\ ledger'.slots = ledger.slots
    BY <1>0, <2>1, <2>2, CommitFacts
  <2>4. QED
    BY <1>0, <1>10, <2>3 DEF RevokeGrants, SlotsStay
<1>11. ASSUME NEW s \in Symbols, PurgeSymbolRow(s) PROVE Good
  <2> DEFINE l == [ledger EXCEPT !.symbols = @ \ {s}]
  <2>1. /\ l \in Ledgers /\ l.audit = ledger.audit /\ l.customers = ledger.customers
        /\ l.cases = ledger.cases /\ l.slots = ledger.slots /\ l.dated = ledger.dated
        /\ l.grants = ledger.grants /\ l.dumps = ledger.dumps
    BY <1>0 DEF Ledgers
  <2>2. Commit(l, None)
    BY <1>11 DEF PurgeSymbolRow
  <2> HIDE DEF l
  <2>3. Command /\ ledger'.slots = ledger.slots
    BY <1>0, <2>1, <2>2, CommitFacts
  <2>4. QED
    BY <1>0, <1>11, <2>3 DEF PurgeSymbolRow, SlotsStay
<1>12. Good
  BY <1>1, <1>2, <1>3, <1>4, <1>5, <1>6, <1>7, <1>8, <1>9, <1>10, <1>11 DEF CommandBeside
<1>13. QED
  BY <1>12 DEF CommandBeside, exportJobVars, Command, CommandOf

-----------------------------------------------------------------------------
(* One step.                                                               *)

LEMMA FailedExportKeeps ==
  ASSUME ExportInv, job.pc # "idle", FailExport
  PROVE  ExportInv'
<1>0. /\ exports' = [exports EXCEPT ![active] = "failed"] /\ disk' = [disk EXCEPT ![active] = "none"]
      /\ active' = None /\ job' = IdleJob /\ ledger' = ledger /\ vault' = vault /\ exportMode' = exportMode
      /\ bundles' = bundles
  BY DEF FailExport, liveVars
<1>1. active \in Exports /\ active # None /\ exportMode = "up" /\ None \notin Exports
  BY ExportBounds DEF ExportInv, ClaimInv, ExportTypeInv
<1>2. ExportTypeInv'
  BY <1>0, <1>1, IdleJobFacts DEF ExportInv, ExportTypeInv
<1>3. ClaimInv'
  BY <1>0, <1>1, IdleJobFacts DEF ExportInv, ExportTypeInv, ClaimInv
<1>4. \A e \in Exports : disk'[e] = "sealed" => BundleSound(e)'
  BY <1>0, <1>1 DEF ExportInv, ExportTypeInv, BundleSound
<1>5. QED
  BY <1>2, <1>3, <1>4 DEF ExportInv

\* bundle.tar takes its place, in a process that goes on or in one that dies.
LEMMA SealedBundle ==
  ASSUME ExportInv, job.pc = "stream", BytesThere,
         bundles' = [bundles EXCEPT ![active] = WrittenBundle],
         disk' = [disk EXCEPT ![active] = "sealed"]
  PROVE  \A e \in Exports : disk'[e] = "sealed" => BundleSound(e)'
<1>1. PICK a \in Exports : a = active
  BY DEF ExportInv, ClaimInv, ExportTypeInv
<1>2. job.copy.rich = "none"
  BY DEF ExportInv, ClaimInv
<1>3. bundles'[a] = WrittenBundle /\ \A e \in Exports \ {a} : bundles'[e] = bundles[e]
  BY <1>1 DEF ExportInv, ExportTypeInv
<1>4. BundleSound(a)'
  BY <1>2, <1>3, WrittenFacts DEF BundleSound
<1>5. ASSUME NEW e \in Exports \ {a}, disk'[e] = "sealed" PROVE BundleSound(e)'
  <2>1. disk[e] = "sealed"
    BY <1>1, <1>5 DEF ExportInv, ExportTypeInv
  <2>2. QED
    BY <1>3, <2>1 DEF ExportInv, BundleSound
<1>6. QED
  BY <1>4, <1>5

LEMMA ExportStep ==
  ASSUME ExportInv, [ExportNext]_exportVars
  PROVE  ExportInv'
<1>0. None \notin Exports /\ IdleJob \in Jobs /\ IdleJob.pc = "idle"
  BY IdleJobFacts, ExportBounds
<1>1. CASE CommandBeside
  <2>1. /\ ledger' \in Ledgers /\ vault' \subseteq Dumps
        /\ exports' = exports /\ active' = active /\ job' = job /\ disk' = disk
        /\ bundles' = bundles /\ exportMode' = exportMode
    BY <1>1, LiveFacts DEF ExportInv
  <2>2. QED
    BY <2>1 DEF ExportInv, ExportTypeInv, ClaimInv, BundleSound
<1>2. ASSUME NEW x \in Exports, NEW symbols \in {"yes", "no"}, StartExport(x, symbols)
      PROVE  ExportInv'
  <2>0. /\ exportMode = "up" /\ active = None /\ exports[x] = "absent" /\ disk[x] = "none"
        /\ active' = x /\ exports' = [exports EXCEPT ![x] = "running"]
        /\ disk' = [disk EXCEPT ![x] = "work"] /\ ledger' = ledger /\ vault' = vault
        /\ exportMode' = exportMode /\ bundles' = bundles
        /\ job' = [IdleJob EXCEPT !.pc = "backup", !.snapshot = ledger, !.symbols = symbols]
    BY <1>2 DEF StartExport, Claim, liveVars
  <2>1. job' \in Jobs /\ job'.pc = "backup"
    BY <1>0, <2>0 DEF ExportInv, ExportTypeInv, Jobs
  <2>2. ExportTypeInv'
    BY <2>0, <2>1 DEF ExportInv, ExportTypeInv
  <2>3. ClaimInv'
    BY <1>0, <2>0, <2>1 DEF ExportInv, ExportTypeInv, ClaimInv
  <2>4. \A e \in Exports : disk'[e] = "sealed" => BundleSound(e)'
    BY <2>0 DEF ExportInv, ExportTypeInv, BundleSound
  <2>5. QED
    BY <2>2, <2>3, <2>4 DEF ExportInv
<1>3. ASSUME NEW x \in Exports, DeleteExport(x)
      PROVE  ExportInv'
  <2>0. /\ exportMode = "up" /\ active # x /\ disk' = [disk EXCEPT ![x] = "none"]
        /\ bundles' = [bundles EXCEPT ![x] = NoBundle] /\ exports' = [exports EXCEPT ![x] = "absent"]
        /\ ledger' = ledger /\ vault' = vault /\ exportMode' = exportMode /\ active' = active /\ job' = job
    BY <1>3 DEF DeleteExport, liveVars
  <2>1. ExportTypeInv'
    BY <2>0 DEF ExportInv, ExportTypeInv
  <2>2. ClaimInv'
    BY <2>0 DEF ExportInv, ExportTypeInv, ClaimInv
  <2>3. \A e \in Exports : disk'[e] = "sealed" => BundleSound(e)'
    <3> SUFFICES ASSUME NEW e \in Exports, disk'[e] = "sealed" PROVE BundleSound(e)'
      OBVIOUS
    <3>1. e # x /\ disk[e] = "sealed" /\ bundles'[e] = bundles[e]
      BY <2>0 DEF ExportInv, ExportTypeInv
    <3>2. QED
      BY <3>1 DEF ExportInv, BundleSound
  <2>4. QED
    BY <2>1, <2>2, <2>3 DEF ExportInv
<1>4. CASE BackupEnds
  <2>0. /\ job.pc = "backup" /\ ledger.rich = "none"
        /\ job' = [job EXCEPT !.pc = "stream", !.copy = ledger]
        /\ ledger' = ledger /\ vault' = vault /\ exportMode' = exportMode /\ exports' = exports
        /\ active' = active /\ disk' = disk /\ bundles' = bundles
    BY <1>4 DEF BackupEnds, liveVars
  <2>1. job' \in Jobs /\ job'.pc = "stream" /\ job'.copy = ledger
    BY <2>0 DEF ExportInv, ExportTypeInv, Jobs
  <2>2. QED
    BY <2>0, <2>1 DEF ExportInv, ExportTypeInv, ClaimInv, BundleSound
<1>5. CASE BackupRefused \/ RaceAborts \/ ExportFails
  <2>1. job.pc # "idle" /\ FailExport
    BY <1>5 DEF BackupRefused, RaceAborts, ExportFails
  <2>2. QED
    BY <2>1, FailedExportKeeps
<1>6. CASE SealExport
  <2>0. /\ job.pc = "stream" /\ BytesThere
        /\ bundles' = [bundles EXCEPT ![active] = WrittenBundle]
        /\ disk' = [disk EXCEPT ![active] = "sealed"]
        /\ exports' = [exports EXCEPT ![active] = "sealed"] /\ active' = None /\ job' = IdleJob
        /\ ledger' = ledger /\ vault' = vault /\ exportMode' = exportMode
    BY <1>6 DEF SealExport, liveVars
  <2>1. active \in Exports /\ exportMode = "up"
    BY <2>0 DEF ExportInv, ExportTypeInv, ClaimInv
  <2>2. ExportTypeInv'
    BY <1>0, <2>0, <2>1 DEF ExportInv, ExportTypeInv
  <2>3. ClaimInv'
    BY <1>0, <2>0, <2>1 DEF ExportInv, ExportTypeInv, ClaimInv
  <2>4. QED
    BY <2>0, <2>2, <2>3, SealedBundle DEF ExportInv
<1>7. CASE ExportCrash
  <2>0. /\ exportMode' = "down" /\ exports' = [e \in Exports |-> "absent"] /\ active' = None
        /\ job' = IdleJob /\ ledger' = ledger /\ vault' = vault
        /\ \/ disk' = disk /\ bundles' = bundles
           \/ /\ job.pc = "stream" /\ BytesThere
              /\ bundles' = [bundles EXCEPT ![active] = WrittenBundle]
              /\ disk' = [disk EXCEPT ![active] = "sealed"]
    BY <1>7 DEF ExportCrash, liveVars
  <2>1. ExportTypeInv'
    BY <1>0, <2>0 DEF ExportInv, ExportTypeInv
  <2>2. ClaimInv'
    BY <1>0, <2>0 DEF ClaimInv
  <2>3. CASE disk' = disk /\ bundles' = bundles
    <3>1. \A e \in Exports : disk'[e] = "sealed" => BundleSound(e)'
      BY <2>3 DEF ExportInv, BundleSound
    <3>2. QED
      BY <2>1, <2>2, <3>1 DEF ExportInv
  <2>4. CASE /\ job.pc = "stream" /\ BytesThere
             /\ bundles' = [bundles EXCEPT ![active] = WrittenBundle]
             /\ disk' = [disk EXCEPT ![active] = "sealed"]
    BY <2>1, <2>2, <2>4, SealedBundle DEF ExportInv
  <2>5. QED
    BY <2>0, <2>3, <2>4
<1>8. CASE ScanExportsDir
  <2>0. /\ exportMode = "down" /\ exportMode' = "up"
        /\ exports' = [e \in Exports |-> IF disk[e] = "sealed" THEN "sealed" ELSE "absent"]
        /\ disk' = [e \in Exports |-> IF disk[e] = "sealed" THEN "sealed" ELSE "none"]
        /\ ledger' = ledger /\ vault' = vault /\ active' = active /\ job' = job /\ bundles' = bundles
    BY <1>8 DEF ScanExportsDir, liveVars
  <2>1. active = None
    BY <2>0 DEF ExportInv, ClaimInv
  <2>2. ExportTypeInv'
    BY <2>0 DEF ExportInv, ExportTypeInv
  <2>3. ClaimInv'
    BY <1>0, <2>0, <2>1 DEF ExportInv, ClaimInv
  <2>4. \A e \in Exports : disk'[e] = "sealed" => BundleSound(e)'
    BY <2>0 DEF ExportInv, BundleSound
  <2>5. QED
    BY <2>2, <2>3, <2>4 DEF ExportInv
<1>9. CASE UNCHANGED exportVars
  BY <1>9 DEF exportVars, liveVars, exportJobVars, ExportInv, ExportTypeInv, ClaimInv, BundleSound
<1>10. QED
  BY <1>1, <1>2, <1>3, <1>4, <1>5, <1>6, <1>7, <1>8, <1>9 DEF ExportNext, JobStep

LEMMA ExportStart ==
  ASSUME ExportInit
  PROVE  ExportInv
<1>0. ledger \in Ledgers /\ None \notin Exports /\ IdleJob \in Jobs /\ IdleJob.pc = "idle"
  BY IdleJobFacts, ExportBounds DEF ExportInit
<1>1. ExportTypeInv
  BY <1>0 DEF ExportInit, ExportTypeInv
<1>2. ClaimInv
  BY <1>0 DEF ExportInit, ClaimInv
<1>3. QED
  BY <1>1, <1>2 DEF ExportInit, ExportInv

\* What the importer reads of the first ledger, and of the grants issued since,
\* it reads of every copy.
SlotsInv ==
  /\ SlotsReadable(ledger)
  /\ job.pc = "stream" => SlotsReadable(job.copy)
  /\ \A e \in Exports : disk[e] = "sealed" => SlotsReadable(bundles[e].copy)

LEMMA SlotsStep ==
  ASSUME ExportInv, SlotsInv, [ExportNext]_exportVars, \A n \in ExportSlots : n <= SlotLimit
  PROVE  SlotsInv'
<1>0. IdleJob.pc = "idle"
  BY IdleJobFacts
<1>1. CASE CommandBeside
  <2>1. /\ SlotsStay /\ job' = job /\ disk' = disk /\ bundles' = bundles
    BY <1>1, LiveFacts DEF ExportInv
  <2>2. SlotsReadable(ledger')
    BY <2>1 DEF SlotsInv, SlotsReadable, SlotsStay
  <2>3. QED
    BY <2>1, <2>2 DEF SlotsInv
<1>2. ASSUME NEW x \in Exports, NEW symbols \in {"yes", "no"}, StartExport(x, symbols)
      PROVE  SlotsInv'
  <2>0. /\ disk' = [disk EXCEPT ![x] = "work"] /\ ledger' = ledger /\ bundles' = bundles
        /\ job' = [IdleJob EXCEPT !.pc = "backup", !.snapshot = ledger, !.symbols = symbols]
    BY <1>2 DEF StartExport, liveVars
  <2>1. job'.pc = "backup"
    BY <2>0 DEF IdleJob
  <2>2. QED
    BY <2>0, <2>1 DEF ExportInv, ExportTypeInv, SlotsInv
<1>3. ASSUME NEW x \in Exports, DeleteExport(x)
      PROVE  SlotsInv'
  <2>0. /\ disk' = [disk EXCEPT ![x] = "none"] /\ ledger' = ledger /\ job' = job
        /\ bundles' = [bundles EXCEPT ![x] = NoBundle]
    BY <1>3 DEF DeleteExport, liveVars
  <2>1. \A e \in Exports : disk'[e] = "sealed" => disk[e] = "sealed" /\ bundles'[e] = bundles[e]
    BY <2>0 DEF ExportInv, ExportTypeInv
  <2>2. QED
    BY <2>0, <2>1 DEF SlotsInv
<1>4. CASE BackupEnds
  <2>0. /\ job' = [job EXCEPT !.pc = "stream", !.copy = ledger]
        /\ ledger' = ledger /\ disk' = disk /\ bundles' = bundles
    BY <1>4 DEF BackupEnds, liveVars
  <2>1. job'.copy = ledger
    BY <2>0 DEF ExportInv, ExportTypeInv, Jobs
  <2>2. QED
    BY <2>0, <2>1 DEF SlotsInv
<1>5. CASE BackupRefused \/ RaceAborts \/ ExportFails
  <2>1. /\ disk' = [disk EXCEPT ![active] = "none"] /\ job' = IdleJob /\ ledger' = ledger
        /\ bundles' = bundles
    BY <1>5 DEF BackupRefused, RaceAborts, ExportFails, FailExport, liveVars
  <2>2. \A e \in Exports : disk'[e] = "sealed" => disk[e] = "sealed"
    BY <2>1 DEF ExportInv, ExportTypeInv
  <2>3. QED
    BY <1>0, <2>1, <2>2 DEF SlotsInv
<1>6. ASSUME job.pc = "stream", BytesThere, ledger' = ledger, job' = IdleJob,
             bundles' = [bundles EXCEPT ![active] = WrittenBundle],
             disk' = [disk EXCEPT ![active] = "sealed"]
      PROVE  SlotsInv'
  <2>1. PICK a \in Exports : a = active
    BY <1>6 DEF ExportInv, ClaimInv, ExportTypeInv
  <2>2. bundles'[a] = WrittenBundle /\ \A e \in Exports \ {a} : bundles'[e] = bundles[e] /\ disk'[e] = disk[e]
    BY <1>6, <2>1 DEF ExportInv, ExportTypeInv
  <2>3. WrittenBundle.copy = job.copy
    BY <1>6, WrittenFacts
  <2>4. QED
    BY <1>0, <1>6, <2>2, <2>3 DEF SlotsInv
<1>7. CASE SealExport
  BY <1>6, <1>7 DEF SealExport, liveVars
<1>8. CASE ExportCrash
  <2>1. CASE disk' = disk /\ bundles' = bundles
    BY <1>0, <1>8, <2>1 DEF ExportCrash, liveVars, SlotsInv
  <2>2. QED
    BY <1>6, <1>8, <2>1 DEF ExportCrash, liveVars
<1>9. CASE ScanExportsDir
  <2>1. /\ disk' = [e \in Exports |-> IF disk[e] = "sealed" THEN "sealed" ELSE "none"]
        /\ ledger' = ledger /\ job' = job /\ bundles' = bundles
    BY <1>9 DEF ScanExportsDir, liveVars
  <2>2. QED
    BY <2>1 DEF SlotsInv
<1>10. CASE UNCHANGED exportVars
  BY <1>10 DEF exportVars, liveVars, exportJobVars, SlotsInv
<1>11. QED
  BY <1>1, <1>2, <1>3, <1>4, <1>5, <1>7, <1>8, <1>9, <1>10 DEF ExportNext, JobStep

-----------------------------------------------------------------------------
(* Skew.  A command between snapshot and copy shows in the count of events *)
(* the importer compares, or in a dump row that the manifest does not      *)
(* list, unless it was about a dump that stays behind.                     *)

Skew(s, l) ==
  /\ DumpRows(s) \subseteq DumpRows(l)
  /\ CountedEvents(s, Declared(s)) <= CountedEvents(l, Declared(s))
  /\ CountedEvents(s, Declared(s)) = CountedEvents(l, Declared(s)) /\ DumpRows(l) \subseteq DumpRows(s)
       => /\ l.customers = s.customers /\ l.cases = s.cases
          /\ l.grants = s.grants /\ l.slots = s.slots
          /\ \A d \in Declared(s) : l.dumps[d] = s.dumps[d] /\ (d \in l.dated <=> d \in s.dated)

LEMMA CountIsNat ==
  ASSUME NEW l \in Ledgers, NEW D
  PROVE  CountedEvents(l, D) \in Nat
<1> DEFINE E == {k \in DOMAIN l.audit : l.audit[k] \in D \cup {None}}
<1>1. DOMAIN l.audit = 1..Len(l.audit) /\ Len(l.audit) \in Nat
  BY DEF Ledgers
<1>2. IsFiniteSet(1..Len(l.audit))
  BY <1>1, FS_Interval
<1>3. IsFiniteSet(E)
  <2>1. E \subseteq 1..Len(l.audit)
    BY <1>1
  <2> HIDE DEF E
  <2> QED  BY <1>2, <2>1, FS_Subset
<1>4. Cardinality(E) \in Nat
  <2> HIDE DEF E
  <2> QED  BY <1>3, FS_CardinalityType
<1>5. QED
  BY <1>4 DEF CountedEvents

\* One more event counts if its dump is declared, or if it names none.
LEMMA CountOfAppend ==
  ASSUME ledger \in Ledgers, ledger' \in Ledgers, NEW x, NEW D,
         ledger'.audit = Append(ledger.audit, x)
  PROVE  CountedEvents(ledger', D) =
           CountedEvents(ledger, D) + (IF x \in D \cup {None} THEN 1 ELSE 0)
<1> DEFINE a == ledger.audit
           n == Len(ledger.audit)
           E == {k \in DOMAIN a : a[k] \in D \cup {None}}
           F == {k \in DOMAIN ledger'.audit : ledger'.audit[k] \in D \cup {None}}
<1>1. a \in Seq(Dumps \cup {None}) /\ DOMAIN a = 1..n /\ n \in Nat
  BY DEF Ledgers
<1>2. /\ DOMAIN ledger'.audit = 1..(n + 1)
      /\ \A k \in 1..n : ledger'.audit[k] = a[k]
      /\ ledger'.audit[n + 1] = x
  BY <1>1
<1>3. F = IF x \in D \cup {None} THEN E \cup {n + 1} ELSE E
  BY <1>1, <1>2
<1>4. IsFiniteSet(E) /\ n + 1 \notin E
  <2>1. IsFiniteSet(1..n)
    BY <1>1, FS_Interval
  <2>2. E \subseteq 1..n /\ n + 1 \notin 1..n
    BY <1>1
  <2> HIDE DEF E
  <2> QED  BY <2>1, <2>2, FS_Subset
<1>5. CountedEvents(ledger, D) = Cardinality(E) /\ CountedEvents(ledger', D) = Cardinality(F)
  BY DEF CountedEvents
<1> HIDE DEF E, F
<1>6. Cardinality(E) \in Nat /\ Cardinality(E \cup {n + 1}) = Cardinality(E) + 1
  BY <1>4, FS_AddElement, FS_CardinalityType
<1>7. QED
  BY <1>3, <1>5, <1>6

LEMMA SkewGrows ==
  ASSUME NEW s \in Ledgers, ledger \in Ledgers, Skew(s, ledger), Command
  PROVE  Skew(s, ledger')
<1>1. PICK x \in Dumps \cup {None} : CommandOf(x)
  BY DEF Command
<1> DEFINE D == Declared(s)
<1> DEFINE before == CountedEvents(ledger, D)
           after == CountedEvents(ledger', D)
           there == CountedEvents(s, D)
<1>2. ledger' \in Ledgers /\ ledger'.audit = Append(ledger.audit, x)
  BY <1>1 DEF Command, CommandOf
<1>3. before \in Nat /\ there \in Nat /\ there <= before
  BY CountIsNat DEF Skew
<1>4. after = before + (IF x \in D \cup {None} THEN 1 ELSE 0)
  BY <1>2, CountOfAppend
<1>5. DumpRows(s) \subseteq DumpRows(ledger')
  BY <1>1 DEF Skew, CommandOf
<1>6. ASSUME there = after, DumpRows(ledger') \subseteq DumpRows(s)
      PROVE  /\ ledger'.customers = s.customers /\ ledger'.cases = s.cases
             /\ ledger'.grants = s.grants /\ ledger'.slots = s.slots
             /\ \A d \in D : ledger'.dumps[d] = s.dumps[d] /\ (d \in ledger'.dated <=> d \in s.dated)
  <2> HIDE DEF D, before, after, there
  <2>1. x \notin D \cup {None} /\ there = before
    BY <1>3, <1>4, <1>6
  <2>2. DumpRows(ledger) \subseteq DumpRows(s)
    BY <1>1, <1>6 DEF CommandOf
  <2>3. /\ ledger.customers = s.customers /\ ledger.cases = s.cases
        /\ ledger.grants = s.grants /\ ledger.slots = s.slots
        /\ \A d \in D : ledger.dumps[d] = s.dumps[d] /\ (d \in ledger.dated <=> d \in s.dated)
    BY <2>1, <2>2 DEF Skew, D, before, there
  <2>4. ledger'.grants = ledger.grants
    <3>1. x \in DumpRows(ledger') => x \in DumpRows(ledger)
      BY <1>6 DEF Skew
    <3>2. QED
      BY <1>1, <2>1, <3>1 DEF CommandOf
  <2>5. \A d \in D : ledger'.dumps[d] = ledger.dumps[d] /\ (d \in ledger'.dated <=> d \in ledger.dated)
    BY <1>1, <2>1 DEF CommandOf, D, Declared
  <2>6. /\ ledger'.customers = ledger.customers /\ ledger'.cases = ledger.cases
        /\ ledger'.slots = ledger.slots
    BY <1>1, <2>1 DEF CommandOf
  <2>7. QED
    BY <2>3, <2>4, <2>5, <2>6
<1>7. there <= after
  <2> HIDE DEF D, before, after, there
  <2> QED  BY <1>3, <1>4
<1>8. QED
  BY <1>5, <1>6, <1>7 DEF Skew

SkewInv ==
  /\ job.pc = "backup" => Skew(job.snapshot, ledger)
  /\ job.pc = "stream" => Skew(job.snapshot, job.copy)
  /\ \A e \in Exports : disk[e] = "sealed" => Skew(bundles[e].snapshot, bundles[e].copy)

LEMMA SkewStep ==
  ASSUME ExportInv, SkewInv, [ExportNext]_exportVars
  PROVE  SkewInv'
<1>0. IdleJob.pc = "idle"
  BY IdleJobFacts
<1>1. CASE CommandBeside
  <2>1. /\ Command /\ job' = job /\ disk' = disk /\ bundles' = bundles /\ job.pc # "stream"
    BY <1>1, LiveFacts DEF ExportInv
  <2>2. ledger \in Ledgers /\ job.snapshot \in Ledgers
    BY DEF ExportInv, ExportTypeInv, Jobs
  <2>3. job.pc = "backup" => Skew(job.snapshot, ledger')
    BY <2>1, <2>2, SkewGrows DEF SkewInv
  <2>4. QED
    BY <2>1, <2>3 DEF SkewInv
<1>2. ASSUME NEW x \in Exports, NEW symbols \in {"yes", "no"}, StartExport(x, symbols)
      PROVE  SkewInv'
  <2>0. /\ disk' = [disk EXCEPT ![x] = "work"] /\ ledger' = ledger /\ bundles' = bundles
        /\ job' = [IdleJob EXCEPT !.pc = "backup", !.snapshot = ledger, !.symbols = symbols]
    BY <1>2 DEF StartExport, liveVars
  <2>1. job'.pc = "backup" /\ job'.snapshot = ledger
    BY <2>0 DEF IdleJob
  <2>2. ledger \in Ledgers
    BY DEF ExportInv, ExportTypeInv
  <2>3. Skew(ledger, ledger)
    <3>1. CountedEvents(ledger, Declared(ledger)) \in Nat
      BY <2>2, CountIsNat
    <3>2. QED
      BY <3>1 DEF Skew
  <2>4. \A e \in Exports : disk'[e] = "sealed" => disk[e] = "sealed"
    BY <2>0 DEF ExportInv, ExportTypeInv
  <2>5. QED
    BY <2>0, <2>1, <2>3, <2>4 DEF SkewInv
<1>3. ASSUME NEW x \in Exports, DeleteExport(x)
      PROVE  SkewInv'
  <2>0. /\ disk' = [disk EXCEPT ![x] = "none"] /\ ledger' = ledger /\ job' = job
        /\ bundles' = [bundles EXCEPT ![x] = NoBundle]
    BY <1>3 DEF DeleteExport, liveVars
  <2>1. \A e \in Exports : disk'[e] = "sealed" => disk[e] = "sealed" /\ bundles'[e] = bundles[e]
    BY <2>0 DEF ExportInv, ExportTypeInv
  <2>2. QED
    BY <2>0, <2>1 DEF SkewInv
<1>4. CASE BackupEnds
  <2>0. /\ job.pc = "backup" /\ job' = [job EXCEPT !.pc = "stream", !.copy = ledger]
        /\ ledger' = ledger /\ disk' = disk /\ bundles' = bundles
    BY <1>4 DEF BackupEnds, liveVars
  <2>1. job'.copy = ledger /\ job'.snapshot = job.snapshot /\ job'.pc = "stream"
    BY <2>0 DEF ExportInv, ExportTypeInv, Jobs
  <2>2. QED
    BY <2>0, <2>1 DEF SkewInv
<1>5. CASE BackupRefused \/ RaceAborts \/ ExportFails
  <2>1. /\ disk' = [disk EXCEPT ![active] = "none"] /\ job' = IdleJob /\ ledger' = ledger
        /\ bundles' = bundles
    BY <1>5 DEF BackupRefused, RaceAborts, ExportFails, FailExport, liveVars
  <2>2. \A e \in Exports : disk'[e] = "sealed" => disk[e] = "sealed"
    BY <2>1 DEF ExportInv, ExportTypeInv
  <2>3. QED
    BY <1>0, <2>1, <2>2 DEF SkewInv
<1>6. ASSUME job.pc = "stream", BytesThere, ledger' = ledger, job' = IdleJob,
             bundles' = [bundles EXCEPT ![active] = WrittenBundle],
             disk' = [disk EXCEPT ![active] = "sealed"]
      PROVE  SkewInv'
  <2>1. PICK a \in Exports : a = active
    BY <1>6 DEF ExportInv, ClaimInv, ExportTypeInv
  <2>2. bundles'[a] = WrittenBundle /\ \A e \in Exports \ {a} : bundles'[e] = bundles[e] /\ disk'[e] = disk[e]
    BY <1>6, <2>1 DEF ExportInv, ExportTypeInv
  <2>3. WrittenBundle.copy = job.copy /\ WrittenBundle.snapshot = job.snapshot
    BY <1>6, WrittenFacts
  <2>4. QED
    BY <1>0, <1>6, <2>2, <2>3 DEF SkewInv
<1>7. CASE SealExport
  BY <1>6, <1>7 DEF SealExport, liveVars
<1>8. CASE ExportCrash
  <2>1. CASE disk' = disk /\ bundles' = bundles
    BY <1>0, <1>8, <2>1 DEF ExportCrash, liveVars, SkewInv
  <2>2. QED
    BY <1>6, <1>8, <2>1 DEF ExportCrash, liveVars
<1>9. CASE ScanExportsDir
  <2>1. /\ disk' = [e \in Exports |-> IF disk[e] = "sealed" THEN "sealed" ELSE "none"]
        /\ ledger' = ledger /\ job' = job /\ bundles' = bundles
    BY <1>9 DEF ScanExportsDir, liveVars
  <2>2. QED
    BY <2>1 DEF SkewInv
<1>10. CASE UNCHANGED exportVars
  BY <1>10 DEF exportVars, liveVars, exportJobVars, SkewInv
<1>11. QED
  BY <1>1, <1>2, <1>3, <1>4, <1>5, <1>7, <1>8, <1>9, <1>10 DEF ExportNext, JobStep

\* The gates of the importer compare what Skew speaks about.
LEMMA OpenedHasNoSkew ==
  ASSUME NEW e \in Exports, BundleSound(e), Skew(bundles[e].snapshot, bundles[e].copy),
         OpenImportSession(bundles[e])
  PROVE  SameRows(bundles[e].snapshot, bundles[e].copy)
<1> DEFINE b == bundles[e]
           s == bundles[e].snapshot
<1>1. PICK symbols : b.manifest = Select(s, symbols)
  BY DEF BundleSound
<1>2. /\ DOMAIN b.manifest.phases = Declared(s) /\ b.manifest.skipped = DumpRows(s) \ Declared(s)
      /\ b.manifest.events = CountedEvents(s, Declared(s))
  BY <1>1, SelectFacts
<1>3. CountedEvents(s, Declared(s)) = CountedEvents(b.copy, Declared(s))
  BY <1>2 DEF OpenImportSession, CheckConsistency, CheckCounts
<1>4. DumpRows(b.copy) \subseteq DumpRows(s)
  <2>1. DumpRows(b.copy) \subseteq DOMAIN b.manifest.phases \cup b.manifest.skipped
    BY DEF OpenImportSession, CheckConsistency, CheckDumpRows
  <2>2. Declared(s) \subseteq DumpRows(s)
    BY DEF Declared, DumpRows, StablePhases
  <2>3. QED
    BY <1>2, <2>1, <2>2
<1> HIDE DEF b, s
<1>5. Skew(s, b.copy)
  BY DEF s, b
<1>6. SameRows(s, b.copy)
  BY <1>3, <1>4, <1>5 DEF Skew, SameRows
<1>7. QED
  BY <1>6 DEF s, b

-----------------------------------------------------------------------------
(* The theorems.                                                           *)

\* The job, the commands beside it, faults, crashes and restarts keep one claim
\* for one work area, and bundles that hold what their manifest was selected for.
THEOREM ExportInvariant == ExportSafety => []ExportInv
<1>1. ExportInit => ExportInv
  BY ExportStart
<1>2. ExportInv /\ [ExportNext]_exportVars => ExportInv'
  BY ExportStep
<1>3. QED
  BY <1>1, <1>2, PTL DEF ExportSafety

\* A sealed bundle has the bytes of all its manifest promises, whatever was
\* purged while the backup ran, and the registry is the disk's, across crashes
\* and restarts (writeDumpEntry, writeSymbolEntry, #scanExportsDir).
THEOREM BundlesKeepPromises ==
  ExportSafety => [](ExportTypeOK /\ SealedKeepsPromise /\ RegistryMatchesDisk)
<1>1. ExportInv => ExportTypeOK /\ RegistryMatchesDisk
  BY DEF ExportInv, ExportTypeInv, ClaimInv, Jobs, ExportTypeOK, RegistryMatchesDisk
<1>2. ExportInv => SealedKeepsPromise
  <2> SUFFICES ASSUME ExportInv, NEW e \in Exports, disk[e] = "sealed"
               PROVE  /\ DOMAIN bundles[e].entries = Promised(bundles[e].manifest)
                      /\ DOMAIN bundles[e].symbolEntries = bundles[e].manifest.symbols
    BY DEF SealedKeepsPromise
  <2>1. BundleSound(e)
    BY DEF ExportInv
  <2>2. QED
    BY <2>1, SelectFacts DEF BundleSound
<1>3. QED
  BY <1>1, <1>2, ExportInvariant, PTL

\* A bundle whose backup ran undisturbed passes the gates of openImportSession,
\* if the slot counts of the first ledger and those grants are issued with are
\* ones the importer reads.  The condition is needed: the limit of the importer
\* is below that of the service.
THEOREM QuietExportsOpen ==
  ASSUME \A l \in Sources : SlotsReadable(l), \A n \in ExportSlots : n <= SlotLimit
  PROVE  ExportSafety => []QuietExportOpens
<1>1. ExportInit => SlotsInv
  BY IdleJobFacts DEF ExportInit, SlotsInv
<1>2. ExportInv /\ SlotsInv /\ [ExportNext]_exportVars => SlotsInv'
  BY SlotsStep
<1>3. ExportInv /\ SlotsInv => QuietExportOpens
  BY QuietOpens DEF ExportInv, SlotsInv, SlotsReadable, QuietExportOpens, GrantRows, RowParses
<1>4. QED
  BY <1>1, <1>2, <1>3, ExportInvariant, PTL DEF ExportSafety

\* Skew between the snapshot and the backup never gets into an import: whatever
\* commands ran between the two, a bundle that passes the gates of
\* openImportSession carries the rows of the snapshot, except those of dumps it
\* leaves behind (checkConsistency's counts and rows).
THEOREM SkewsAreCaught == ExportSafety => []SkewIsCaught
<1>1. ExportInit => SkewInv
  BY IdleJobFacts DEF ExportInit, SkewInv
<1>2. ExportInv /\ SkewInv /\ [ExportNext]_exportVars => SkewInv'
  BY SkewStep
<1>3. ExportInv /\ SkewInv => SkewIsCaught
  BY OpenedHasNoSkew DEF ExportInv, SkewInv, SkewIsCaught
<1>4. QED
  BY <1>1, <1>2, <1>3, ExportInvariant, PTL DEF ExportSafety

\* Whatever grants are issued with, a bundle whose backup ran undisturbed opens
\* unless the importer cannot read the slot count of one of its grants: no other
\* gate of openImportSession refuses it.
LEMMA OnlySlotsRefuse == ExportInv => ReadableExportOpens
BY QuietOpens DEF ExportInv, ReadableExportOpens

\* All an export promises, from any ledger and beside any commands: whole
\* bundles, a registry that is the disk's, no skew that gets through the gates,
\* and quiet bundles that only an unreadable slot count keeps out.
THEOREM BundlesAreSound == ExportSafety => []BundleIsSound
BY BundlesKeepPromises, SkewsAreCaught, OnlySlotsRefuse, ExportInvariant, PTL DEF BundleIsSound

-----------------------------------------------------------------------------
(* The import: the inductive invariant.                                    *)

OneDump == {"staged", "promote", "quarantine", "inspect"}
PastGrants == {"symbols", "dumps", "audit"} \cup OneDump
PastCases == {"grants"} \cup PastGrants
PastCustomers == {"cases"} \cup PastCases
Running == {"customers"} \cup PastCustomers

\* What an audit feed may replay.
Events == {Kept(b)[k] : b \in Bundles, k \in Nat}

Sessions ==
  [pc : {"idle", "open"} \cup Running, id : Imports \cup {None}, file : Bundles \cup {NoFile},
   dump : Dumps \cup {None}, next : Nat]

Bytes == {"none", "good", "changed"}

TypeInv ==
  /\ dest \in Ledgers /\ replayed \in Seq(Events)
  /\ begun \subseteq Imports /\ finished \subseteq begun
  /\ staging \in [Dumps -> Bytes] /\ objects \in [Dumps -> Bytes]
  /\ mode \in {"up", "down", "boot"}
  /\ jobs \in [Imports -> {"absent", "running", "finished", "failed"}]
  /\ session \in Sessions

\* A session is open for one job and one work area, in a process that is up, on
\* a file that passed the gates; once it has its marker it has the only one that
\* is unfinished.
SessionInv ==
  /\ session.pc = "idle" <=> session.id = None
  /\ session.pc # "idle" =>
       mode = "up" /\ session.file \in Bundles /\ OpenImportSession(session.file)
  /\ session.pc = "open" => session.id \notin begun
  /\ session.pc \in Running => Unfinished = {session.id}
  /\ session.pc # "audit" => session.next = 0
  /\ \A i \in Imports : jobs[i] = "running" <=> i = session.id
  /\ mode = "up" => workDir = {session.id} \ {None}

\* Where the bytes of a dump row are, by its phase.
DumpSound(d) ==
  /\ objects[d] # "changed"
  /\ dest.dumps[d] = "sealed" => \/ staging[d] = "good" /\ objects[d] = "none"
                                 \/ staging[d] = "none" /\ objects[d] = "good"
  /\ dest.dumps[d] \in {"quarantined", "available"} => objects[d] = "good"

Stuck(d) == dest.dumps[d] \in {"sealed", "quarantined"}

\* The dump in hand has the phase its step expects; no other is stuck while an
\* import runs, and one that is stuck without one has a failed job.
HandInv ==
  /\ session.pc \in OneDump =>
       session.dump \in Dumps /\ session.dump \in DOMAIN session.file.manifest.phases
  /\ session.pc = "staged" => dest.dumps[session.dump] = "absent"
  /\ session.pc \in {"promote", "quarantine"} => dest.dumps[session.dump] = "sealed"
  /\ session.pc = "quarantine" => objects[session.dump] = "good"
  /\ session.pc = "inspect" => dest.dumps[session.dump] = "quarantined"
  /\ session.pc \in Running =>
       \A d \in Dumps : Stuck(d) => session.pc \in OneDump /\ d = session.dump
  /\ mode = "up" /\ session.pc \notin Running /\ (\E d \in Dumps : Stuck(d)) =>
       \E i \in Unfinished : jobs[i] = "failed"

\* The ledger of a running import has rows of its file only, and has all of each
\* table the session is past.
RowInv ==
  LET file == session.file IN
  session.pc \in Running =>
    /\ dest.customers \subseteq file.copy.customers /\ dest.cases \subseteq file.copy.cases
    /\ GrantRows(dest) \subseteq GrantRows(file.copy)
    /\ DumpRows(dest) \subseteq DOMAIN file.manifest.phases
    /\ session.pc \in PastCustomers => file.copy.customers \subseteq dest.customers
    /\ session.pc \in PastCases => file.copy.cases \subseteq dest.cases
    /\ session.pc \in PastGrants => GrantRows(file.copy) \subseteq GrantRows(dest)
    /\ session.pc = "audit" => DOMAIN file.manifest.phases \subseteq DumpRows(dest)
    /\ Replayed(Kept(file), session.next)

\* A usable grant came in a bundle of this instance's key.
GrantInv ==
  \A g \in Grants :
    dest.grants[g] = "issued" => \E b \in Bundles : g \in GrantRows(b.copy) /\ b.key # "foreign"

ImportInv ==
  /\ TypeInv /\ SessionInv /\ (\A d \in Dumps : DumpSound(d)) /\ HandInv /\ RowInv /\ GrantInv
  /\ FinishedImportIsWhole

-----------------------------------------------------------------------------
(* What the changes of the ledger and of the session do, field by field.   *)

LEMMA EmptyLedgerFacts ==
  /\ EmptyLedger \in Ledgers
  /\ EmptyLedger.dumps = [d \in Dumps |-> "absent"] /\ EmptyLedger.grants = [g \in Grants |-> "absent"]
BY DEF EmptyLedger, Ledgers, TransferPhases, GrantStates

LEMMA LedgerFacts ==
  ASSUME NEW l \in Ledgers
  PROVE  /\ l.customers \subseteq Customers /\ l.cases \subseteq Cases /\ l.symbols \subseteq Symbols
         /\ l.grants \in [Grants -> GrantStates] /\ l.slots \in [Grants -> Nat]
         /\ l.dumps \in [Dumps -> TransferPhases]
BY DEF Ledgers

LEMMA LandRowFacts ==
  ASSUME dest \in Ledgers, NEW d \in Dumps, NEW phase \in TransferPhases \ {"absent"}, LandRow(d, phase)
  PROVE  /\ dest' \in Ledgers /\ dest'.dumps = [dest.dumps EXCEPT ![d] = phase]
         /\ dest'.customers = dest.customers /\ dest'.cases = dest.cases /\ dest'.grants = dest.grants
         /\ DumpRows(dest') = DumpRows(dest) \cup {d} /\ GrantRows(dest') = GrantRows(dest)
<1>1. /\ dest' \in Ledgers /\ dest'.dumps = [dest.dumps EXCEPT ![d] = phase]
      /\ dest'.customers = dest.customers /\ dest'.cases = dest.cases /\ dest'.grants = dest.grants
  BY DEF LandRow, Ledgers
<1>2. dest.dumps \in [Dumps -> TransferPhases]
  BY DEF Ledgers
<1>3. QED
  BY <1>1, <1>2 DEF DumpRows, GrantRows

LEMMA CustomerFacts ==
  ASSUME dest \in Ledgers, NEW u \in Customers, dest' = [dest EXCEPT !.customers = @ \cup {u}]
  PROVE  /\ dest' \in Ledgers /\ dest'.customers = dest.customers \cup {u}
         /\ dest'.cases = dest.cases /\ dest'.grants = dest.grants /\ dest'.dumps = dest.dumps
         /\ DumpRows(dest') = DumpRows(dest) /\ GrantRows(dest') = GrantRows(dest)
BY DEF Ledgers, DumpRows, GrantRows

LEMMA CaseFacts ==
  ASSUME dest \in Ledgers, NEW c \in Cases, dest' = [dest EXCEPT !.cases = @ \cup {c}]
  PROVE  /\ dest' \in Ledgers /\ dest'.cases = dest.cases \cup {c}
         /\ dest'.customers = dest.customers /\ dest'.grants = dest.grants /\ dest'.dumps = dest.dumps
         /\ DumpRows(dest') = DumpRows(dest) /\ GrantRows(dest') = GrantRows(dest)
BY DEF Ledgers, DumpRows, GrantRows

LEMMA SymbolFacts ==
  ASSUME dest \in Ledgers, NEW s \in Symbols, dest' = [dest EXCEPT !.symbols = @ \cup {s}]
  PROVE  /\ dest' \in Ledgers
         /\ dest'.customers = dest.customers /\ dest'.cases = dest.cases
         /\ dest'.grants = dest.grants /\ dest'.dumps = dest.dumps
         /\ DumpRows(dest') = DumpRows(dest) /\ GrantRows(dest') = GrantRows(dest)
BY DEF Ledgers, DumpRows, GrantRows

LEMMA GrantFacts ==
  ASSUME dest \in Ledgers, NEW g \in Grants, NEW state \in GrantStates \ {"absent"}, NEW n \in Nat,
         dest' = [dest EXCEPT !.grants[g] = state, !.slots[g] = n]
  PROVE  /\ dest' \in Ledgers /\ dest'.grants = [dest.grants EXCEPT ![g] = state]
         /\ dest'.customers = dest.customers /\ dest'.cases = dest.cases /\ dest'.dumps = dest.dumps
         /\ DumpRows(dest') = DumpRows(dest) /\ GrantRows(dest') = GrantRows(dest) \cup {g}
<1>1. dest.grants \in [Grants -> GrantStates] /\ dest.slots \in [Grants -> Nat]
  BY DEF Ledgers
<1>2. /\ dest'.grants = [dest.grants EXCEPT ![g] = state] /\ dest'.slots = [dest.slots EXCEPT ![g] = n]
      /\ dest'.customers = dest.customers /\ dest'.cases = dest.cases /\ dest'.dumps = dest.dumps
  BY DEF Ledgers
<1>3. dest' \in Ledgers
  BY <1>1 DEF Ledgers
<1>4. QED
  BY <1>1, <1>2, <1>3 DEF DumpRows, GrantRows

\* What the gates of openImportSession guarantee to the steps after them.
LEMMA OpenedFile ==
  ASSUME NEW b \in Bundles, OpenImportSession(b)
  PROVE  /\ DOMAIN b.manifest.phases \subseteq Dumps
         /\ \A d \in DOMAIN b.manifest.phases :
              /\ b.manifest.phases[d] \in StablePhases
              /\ b.manifest.phases[d] = "available" => b.entries[d] \in {"good", "changed", "resized"}
         /\ b.copy \in Ledgers /\ b.manifest.symbols \subseteq Symbols
<1>1. /\ b.copy \in Ledgers
      /\ DOMAIN b.manifest.phases \subseteq Dumps /\ b.manifest.symbols \subseteq Symbols
      /\ \A d \in DOMAIN b.entries : b.entries[d] \in {"good", "changed", "resized"}
  BY BundlesAreFiles
<1>2. \A d \in DOMAIN b.manifest.phases : b.manifest.phases[d] \in StablePhases
  BY DEF OpenImportSession, ParseExportManifest, ParseDumpEntry
<1>3. Promised(b.manifest) \subseteq DOMAIN b.entries
  BY DEF OpenImportSession, CheckConsistency, CheckDumpRows
<1>4. QED
  BY <1>1, <1>2, <1>3 DEF Promised

LEMMA NoSessionFacts ==
  /\ NoSession \in Sessions
  /\ NoSession.pc = "idle" /\ NoSession.id = None /\ NoSession.next = 0
BY DEF NoSession, Sessions

LEMMA GotoFacts ==
  ASSUME session \in Sessions, NEW pc \in Running, Goto(pc)
  PROVE  /\ session' \in Sessions /\ session'.pc = pc
         /\ session'.id = session.id /\ session'.file = session.file
         /\ session'.dump = session.dump /\ session'.next = session.next
BY DEF Goto, Sessions

LEMMA NextDumpFacts ==
  ASSUME session \in Sessions, NEW pc \in Running, NEW d \in Dumps \cup {None}, NextDump(d, pc)
  PROVE  /\ session' \in Sessions /\ session'.pc = pc /\ session'.dump = d
         /\ session'.id = session.id /\ session'.file = session.file
         /\ session'.next = session.next
BY DEF NextDump, Sessions

LEMMA StartFacts ==
  ASSUME NEW i \in Imports, NEW b \in Bundles,
         session' = [NoSession EXCEPT !.pc = "open", !.id = i, !.file = b]
  PROVE  /\ session' \in Sessions /\ session'.pc = "open" /\ session'.id = i /\ session'.file = b
         /\ session'.next = 0
BY DEF NoSession, Sessions

LEMMA SessionFacts ==
  ASSUME session \in Sessions
  PROVE  /\ session.pc \in {"idle", "open"} \cup Running /\ session.id \in Imports \cup {None}
         /\ session.next \in Nat /\ session.dump \in Dumps \cup {None}
BY DEF Sessions

\* One more event of the feed.
LEMMA ReplayOne ==
  ASSUME NEW b \in Bundles, replayed \in Seq(Events), NEW n \in Nat, Replayed(Kept(b), n),
         replayed' = Append(replayed, Kept(b)[n + 1])
  PROVE  replayed' \in Seq(Events) /\ Replayed(Kept(b), n + 1)'
<1> DEFINE K == Kept(b)
<1>1. K[n + 1] \in Events
  BY DEF Events
<1> HIDE DEF K
<1>2. replayed' \in Seq(Events) /\ Len(replayed') = Len(replayed) + 1 /\ Len(replayed) \in Nat
  BY <1>1 DEF K
<1>3. /\ \A j \in 1..Len(replayed) : replayed'[j] = replayed[j]
      /\ replayed'[Len(replayed) + 1] = K[n + 1]
  BY <1>1 DEF K
<1>4. n <= Len(replayed) /\ \A k \in 1..n : replayed[Len(replayed) - n + k] = K[k]
  BY DEF Replayed, K
<1>5. ASSUME NEW k \in 1..(n + 1)
      PROVE  replayed'[Len(replayed') - (n + 1) + k] = K[k]
  <2>1. Len(replayed') - (n + 1) + k = Len(replayed) - n + k
    BY <1>2
  <2>2. CASE k = n + 1
    BY <1>2, <1>3, <2>1, <2>2
  <2>3. CASE k \in 1..n
    <3>1. Len(replayed) - n + k \in 1..Len(replayed)
      BY <1>2, <1>4, <2>3
    <3>2. QED
      BY <1>3, <1>4, <2>1, <2>3, <3>1
  <2>4. k = n + 1 \/ k \in 1..n
    OBVIOUS
  <2>5. QED
    BY <2>2, <2>3, <2>4
<1>6. Kept(b)' = Kept(b)
  OBVIOUS
<1>7. n + 1 <= Len(replayed')
  BY <1>2, <1>4
<1>8. QED
  BY <1>2, <1>5, <1>6, <1>7 DEF Replayed, K

-----------------------------------------------------------------------------
(* Steps of one kind.                                                      *)

\* What a running session keeps, whatever table it is at.
SameRun ==
  /\ mode' = mode /\ begun' = begun /\ finished' = finished /\ jobs' = jobs /\ workDir' = workDir
  /\ session'.id = session.id /\ session'.file = session.file

LEMMA RunningFacts ==
  ASSUME ImportInv, session.pc \in Running
  PROVE  /\ session.file \in Bundles /\ OpenImportSession(session.file) /\ mode = "up"
         /\ session.id \in Imports /\ session.id # None /\ session.id \in begun /\ session.id \notin finished
         /\ session.file.copy \in Ledgers /\ DOMAIN session.file.manifest.phases \subseteq Dumps
<1>1. session.pc # "idle"
  BY DEF Running, PastCustomers, PastCases, PastGrants, OneDump
<1>2. session.file \in Bundles /\ OpenImportSession(session.file) /\ mode = "up"
  BY <1>1 DEF ImportInv, SessionInv
<1>3. session.id \in begun /\ session.id \notin finished
  BY DEF ImportInv, SessionInv, Unfinished
<1>4. session.id \in Imports /\ session.id # None
  BY <1>3, BundlesAreFiles DEF ImportInv, TypeInv
<1>5. QED
  BY <1>2, <1>3, <1>4, OpenedFile

LEMMA RunGoesOn ==
  ASSUME ImportInv, SameRun, session.pc \in Running, session'.pc \in Running,
         session'.pc # "audit" => session'.next = 0
  PROVE  SessionInv' /\ FinishedImportIsWhole'
<1>1. session.pc # "idle" /\ session'.pc # "idle" /\ session'.pc # "open"
  BY DEF Running, PastCustomers, PastCases, PastGrants, OneDump
<1>2. Unfinished' = Unfinished /\ Unfinished = {session.id}
  BY DEF SameRun, Unfinished, ImportInv, SessionInv
<1>3. SessionInv'
  BY <1>1, <1>2, RunningFacts DEF SameRun, ImportInv, SessionInv
<1>4. QED
  BY <1>2, <1>3 DEF FinishedImportIsWhole

\* A row of a customer, a case, a grant or a symbol lands.
LEMMA RowLands ==
  ASSUME ImportInv, session.pc \in Running, session.pc \notin OneDump, SameRun, session' = session,
         replayed' = replayed, staging' = staging, objects' = objects,
         dest' \in Ledgers, dest'.dumps = dest.dumps, DumpRows(dest') = DumpRows(dest),
         dest.customers \subseteq dest'.customers, dest.cases \subseteq dest'.cases,
         GrantRows(dest) \subseteq GrantRows(dest'),
         dest'.customers \subseteq session.file.copy.customers,
         dest'.cases \subseteq session.file.copy.cases,
         GrantRows(dest') \subseteq GrantRows(session.file.copy), GrantInv'
  PROVE  ImportInv'
<1>1. SessionInv' /\ FinishedImportIsWhole'
  BY RunGoesOn DEF ImportInv, SessionInv
<1>2. TypeInv'
  BY DEF ImportInv, TypeInv, SameRun
<1>3. \A d \in Dumps : DumpSound(d)'
  BY DEF ImportInv, DumpSound
<1>4. HandInv'
  BY DEF ImportInv, HandInv, Stuck, SameRun, Unfinished
<1>5. RowInv'
  BY DEF ImportInv, RowInv, Replayed
<1>6. QED
  BY <1>1, <1>2, <1>3, <1>4, <1>5 DEF ImportInv

\* A table is through, and the session goes on to the next one.
LEMMA TableDone ==
  ASSUME ImportInv, NEW pc \in Running \ OneDump, session.pc \in Running \ (OneDump \cup {"audit"}),
         Goto(pc), dest' = dest, replayed' = replayed, staging' = staging, objects' = objects,
         mode' = mode, begun' = begun, finished' = finished, jobs' = jobs, workDir' = workDir, RowInv'
  PROVE  ImportInv'
<1>1. /\ session' \in Sessions /\ session'.pc = pc /\ session'.id = session.id
      /\ session'.file = session.file /\ session'.dump = session.dump /\ session'.next = session.next
  BY GotoFacts DEF ImportInv, TypeInv
<1>2. SessionInv' /\ FinishedImportIsWhole'
  BY <1>1, RunGoesOn DEF ImportInv, SessionInv, SameRun
<1>3. TypeInv'
  BY <1>1 DEF ImportInv, TypeInv
<1>4. \A d \in Dumps : DumpSound(d)'
  BY DEF ImportInv, DumpSound
<1>5. HandInv'
  BY <1>1 DEF ImportInv, HandInv, Stuck, OneDump
<1>6. GrantInv'
  BY DEF ImportInv, GrantInv
<1>7. QED
  BY <1>2, <1>3, <1>4, <1>5, <1>6 DEF ImportInv

\* A step on the dumps: what it has to show is about the dumps only.
LEMMA DumpMoves ==
  ASSUME ImportInv, session.pc \in {"dumps"} \cup OneDump, session'.pc \in {"dumps"} \cup OneDump,
         SameRun, session' \in Sessions, session'.next = session.next, replayed' = replayed,
         dest' \in Ledgers, dest'.customers = dest.customers, dest'.cases = dest.cases,
         dest'.grants = dest.grants, GrantRows(dest') = GrantRows(dest),
         DumpRows(dest') \subseteq DOMAIN session.file.manifest.phases,
         staging' \in [Dumps -> Bytes], objects' \in [Dumps -> Bytes],
         \A d \in Dumps : DumpSound(d)', HandInv'
  PROVE  ImportInv'
<1>1. /\ session.pc \in Running /\ session'.pc \in Running /\ session.pc # "audit" /\ session'.pc # "audit"
      /\ session.pc \in PastGrants /\ session.pc \in PastCases /\ session.pc \in PastCustomers
  BY DEF Running, PastCustomers, PastCases, PastGrants, OneDump
<1>2. SessionInv' /\ FinishedImportIsWhole'
  BY <1>1, RunGoesOn DEF ImportInv, SessionInv
<1>3. TypeInv'
  BY DEF ImportInv, TypeInv, SameRun
<1>4. RowInv'
  BY <1>1 DEF ImportInv, RowInv, Replayed, SameRun
<1>5. GrantInv'
  BY DEF ImportInv, GrantInv
<1>6. QED
  BY <1>2, <1>3, <1>4, <1>5 DEF ImportInv

\* importBundle's catch, from any step.
FailStep ==
  /\ session.pc # "idle" /\ mode = "up" /\ Failed
  /\ dest' = dest /\ replayed' = replayed /\ begun' = begun /\ finished' = finished
  /\ objects' = objects /\ mode' = mode
  /\ \/ staging' = staging
     \/ session.pc = "staged" /\ staging' = [staging EXCEPT ![session.dump] = "none"]

LEMMA FailingSteps ==
  ASSUME BeginRefused \/ SymbolRefused \/ StagingInTheWay \/ ImportDumpRefused \/ StepFails
  PROVE  FailStep
BY DEF BeginRefused, SymbolRefused, StagingInTheWay, ImportDumpRefused, StepFails, FailStep, At,
       ledgerVars, vaultVars

LEMMA FailKeeps ==
  ASSUME ImportInv, FailStep
  PROVE  ImportInv'
<1>0. /\ session' = NoSession /\ jobs' = [jobs EXCEPT ![session.id] = "failed"]
      /\ workDir' = workDir \ {session.id}
  BY DEF FailStep, Failed
<1>1. session' \in Sessions /\ session'.pc = "idle" /\ session'.id = None /\ session'.next = 0
  BY <1>0, NoSessionFacts
<1>2. session.id \in Imports /\ session.id # None /\ None \notin Imports
  BY BundlesAreFiles, SessionFacts DEF FailStep, ImportInv, TypeInv, SessionInv
<1>3. Unfinished' = Unfinished
  BY DEF FailStep, Unfinished
<1>4. staging' \in [Dumps -> Bytes]
  BY DEF FailStep, ImportInv, TypeInv, Bytes
<1>5. TypeInv'
  BY <1>0, <1>1, <1>2, <1>4 DEF FailStep, ImportInv, TypeInv
<1>6. "idle" \notin Running
  BY DEF Running, PastCustomers, PastCases, PastGrants, OneDump
<1>7. SessionInv'
  <2>1. \A i \in Imports : jobs'[i] = "running" <=> i = session'.id
    BY <1>0, <1>1, <1>2 DEF ImportInv, TypeInv, SessionInv
  <2>2. workDir' = {session'.id} \ {None}
    BY <1>0, <1>1, <1>2 DEF FailStep, ImportInv, SessionInv
  <2>3. QED
    BY <1>1, <1>6, <2>1, <2>2 DEF SessionInv
<1>8. \A d \in Dumps : DumpSound(d)'
  <2> SUFFICES ASSUME NEW d \in Dumps PROVE DumpSound(d)'
    OBVIOUS
  <2>1. staging'[d] = staging[d] \/ dest.dumps[d] = "absent"
    BY DEF FailStep, ImportInv, HandInv, TypeInv
  <2>2. QED
    BY <2>1 DEF FailStep, ImportInv, DumpSound
<1>9. HandInv'
  <2>1. ASSUME NEW d \in Dumps, Stuck(d) PROVE \E i \in Unfinished : jobs'[i] = "failed"
    <3>1. CASE session.pc \in Running
      BY <1>0, <1>2, <3>1, RunningFacts DEF ImportInv, TypeInv, Unfinished
    <3>2. CASE session.pc \notin Running
      <4>1. PICK i \in Unfinished : jobs[i] = "failed"
        BY <2>1, <3>2 DEF FailStep, ImportInv, HandInv
      <4>2. i \in Imports
        BY DEF Unfinished, ImportInv, TypeInv
      <4>3. QED
        BY <1>0, <1>2, <4>1, <4>2 DEF ImportInv, TypeInv
    <3>3. QED
      BY <3>1, <3>2
  <2>2. \A d \in Dumps : Stuck(d)' <=> Stuck(d)
    BY DEF Stuck, FailStep
  <2>3. session'.pc \notin OneDump /\ session'.pc \notin Running
    BY <1>1, <1>6 DEF OneDump
  <2>4. QED
    BY <1>1, <1>3, <2>1, <2>2, <2>3 DEF HandInv
<1>10. RowInv'
  BY <1>1, <1>6 DEF RowInv
<1>11. GrantInv'
  BY DEF FailStep, ImportInv, GrantInv
<1>12. FinishedImportIsWhole'
  BY <1>3 DEF FailStep, ImportInv, FinishedImportIsWhole, Replayed
<1>13. QED
  BY <1>5, <1>7, <1>8, <1>9, <1>10, <1>11, <1>12 DEF ImportInv

-----------------------------------------------------------------------------
(* The session, action by action.                                          *)

LEMMA BeginKeeps ==
  ASSUME ImportInv, BeginImport
  PROVE  ImportInv'
<1>0. /\ session.pc = "open" /\ mode = "up" /\ IsEmpty /\ Unfinished = {} /\ Goto("customers")
      /\ begun' = begun \cup {session.id} /\ finished' = finished /\ jobs' = jobs /\ workDir' = workDir
      /\ dest' = dest /\ replayed' = replayed /\ staging' = staging /\ objects' = objects /\ mode' = mode
  BY DEF BeginImport, Mark, At, vaultVars
<1>1. "customers" \in Running /\ "customers" \notin PastCustomers /\ "customers" \notin PastCases
      /\ "customers" \notin PastGrants /\ "customers" \notin OneDump
  BY DEF Running, PastCustomers, PastCases, PastGrants, OneDump
<1>2. /\ session' \in Sessions /\ session'.pc = "customers" /\ session'.id = session.id
      /\ session'.file = session.file /\ session'.next = 0
  BY <1>0, <1>1, GotoFacts DEF ImportInv, TypeInv, SessionInv
<1>3. session.id \in Imports /\ session.id # None /\ session.id \notin begun
  BY <1>0, SessionFacts DEF ImportInv, TypeInv, SessionInv
<1>4. Unfinished' = {session.id}
  BY <1>0, <1>3 DEF Unfinished, ImportInv, TypeInv
<1>5. TypeInv'
  BY <1>0, <1>2, <1>3 DEF ImportInv, TypeInv
<1>6. SessionInv'
  BY <1>0, <1>2, <1>3, <1>4 DEF ImportInv, SessionInv
<1>7. \A d \in Dumps : DumpSound(d)'
  BY <1>0 DEF ImportInv, DumpSound
<1>8. dest.customers = {} /\ dest.cases = {} /\ GrantRows(dest) = {} /\ DumpRows(dest) = {}
  BY <1>0 DEF IsEmpty
<1>9. HandInv'
  <2>1. \A d \in Dumps : ~Stuck(d)'
    BY <1>0, <1>8 DEF Stuck, DumpRows
  <2>2. QED
    BY <1>1, <1>2, <2>1 DEF HandInv
<1>10. RowInv'
  <2>1. replayed' \in Seq(Events)
    BY <1>5 DEF TypeInv
  <2>2. Replayed(Kept(session.file), session.next)'
    BY <1>2, <2>1 DEF Replayed
  <2>3. QED
    BY <1>0, <1>1, <1>2, <1>8, <2>2 DEF RowInv
<1>11. GrantInv'
  BY <1>0 DEF ImportInv, GrantInv
<1>12. FinishedImportIsWhole'
  BY <1>4 DEF FinishedImportIsWhole
<1>13. QED
  BY <1>5, <1>6, <1>7, <1>9, <1>10, <1>11, <1>12 DEF ImportInv

LEMMA CustomersKeep ==
  ASSUME ImportInv, ImportCustomer
  PROVE  ImportInv'
<1>0. /\ session.pc = "customers" /\ mode' = mode /\ begun' = begun /\ finished' = finished
      /\ jobs' = jobs /\ workDir' = workDir /\ replayed' = replayed
      /\ staging' = staging /\ objects' = objects
  BY DEF ImportCustomer, At, vaultVars
<1>1. session.pc \in Running \ (OneDump \cup {"audit"}) /\ "cases" \in Running \ OneDump
  BY <1>0 DEF Running, PastCustomers, PastCases, PastGrants, OneDump
<1>2. ASSUME NEW u \in session.file.copy.customers, dest' = [dest EXCEPT !.customers = @ \cup {u}],
             session' = session
      PROVE  ImportInv'
  <2>1. u \in Customers /\ dest \in Ledgers
    BY <1>1, RunningFacts, LedgerFacts DEF ImportInv, TypeInv
  <2>2. /\ dest' \in Ledgers /\ dest'.customers = dest.customers \cup {u}
        /\ dest'.cases = dest.cases /\ dest'.grants = dest.grants /\ dest'.dumps = dest.dumps
        /\ DumpRows(dest') = DumpRows(dest) /\ GrantRows(dest') = GrantRows(dest)
    BY <1>2, <2>1, CustomerFacts
  <2>3. GrantInv'
    BY <2>2 DEF ImportInv, GrantInv
  <2>4. QED
    BY <1>0, <1>1, <1>2, <2>2, <2>3, RowLands DEF ImportInv, RowInv, SameRun
<1>3. ASSUME session.file.copy.customers \subseteq dest.customers, Goto("cases"), dest' = dest
      PROVE  ImportInv'
  <2>1. session'.pc = "cases" /\ session'.file = session.file /\ session'.next = session.next
    BY <1>1, <1>3, GotoFacts DEF ImportInv, TypeInv
  <2>2. "cases" \notin PastCases /\ "cases" \notin PastGrants
    BY DEF PastCases, PastGrants, OneDump
  <2>3. RowInv'
    BY <1>0, <1>1, <1>3, <2>1, <2>2 DEF ImportInv, RowInv, Replayed
  <2>4. QED
    BY <1>0, <1>1, <1>3, <2>3, TableDone
<1>4. QED
  BY <1>2, <1>3 DEF ImportCustomer

LEMMA CasesKeep ==
  ASSUME ImportInv, ImportCase
  PROVE  ImportInv'
<1>0. /\ session.pc = "cases" /\ mode' = mode /\ begun' = begun /\ finished' = finished
      /\ jobs' = jobs /\ workDir' = workDir /\ replayed' = replayed
      /\ staging' = staging /\ objects' = objects
  BY DEF ImportCase, At, vaultVars
<1>1. session.pc \in Running \ (OneDump \cup {"audit"}) /\ "grants" \in Running \ OneDump
      /\ session.pc \in PastCustomers
  BY <1>0 DEF Running, PastCustomers, PastCases, PastGrants, OneDump
<1>2. ASSUME NEW c \in session.file.copy.cases, dest' = [dest EXCEPT !.cases = @ \cup {c}],
             session' = session
      PROVE  ImportInv'
  <2>1. c \in Cases /\ dest \in Ledgers
    BY <1>1, RunningFacts, LedgerFacts DEF ImportInv, TypeInv
  <2>2. /\ dest' \in Ledgers /\ dest'.cases = dest.cases \cup {c}
        /\ dest'.customers = dest.customers /\ dest'.grants = dest.grants /\ dest'.dumps = dest.dumps
        /\ DumpRows(dest') = DumpRows(dest) /\ GrantRows(dest') = GrantRows(dest)
    BY <1>2, <2>1, CaseFacts
  <2>3. GrantInv'
    BY <2>2 DEF ImportInv, GrantInv
  <2>4. QED
    BY <1>0, <1>1, <1>2, <2>2, <2>3, RowLands DEF ImportInv, RowInv, SameRun
<1>3. ASSUME session.file.copy.cases \subseteq dest.cases, Goto("grants"), dest' = dest
      PROVE  ImportInv'
  <2>1. session'.pc = "grants" /\ session'.file = session.file /\ session'.next = session.next
    BY <1>1, <1>3, GotoFacts DEF ImportInv, TypeInv
  <2>2. "grants" \notin PastGrants
    BY DEF PastGrants, OneDump
  <2>3. RowInv'
    BY <1>0, <1>1, <1>3, <2>1, <2>2 DEF ImportInv, RowInv, Replayed
  <2>4. QED
    BY <1>0, <1>1, <1>3, <2>3, TableDone
<1>4. QED
  BY <1>2, <1>3 DEF ImportCase

\* The key of the bundle decides what an issued grant becomes.
LEMMA GrantsKeep ==
  ASSUME ImportInv, ImportGrant
  PROVE  ImportInv'
<1>0. /\ session.pc = "grants" /\ mode' = mode /\ begun' = begun /\ finished' = finished
      /\ jobs' = jobs /\ workDir' = workDir /\ replayed' = replayed
      /\ staging' = staging /\ objects' = objects
  BY DEF ImportGrant, At, vaultVars
<1>1. session.pc \in Running \ (OneDump \cup {"audit"}) /\ "symbols" \in Running \ OneDump
      /\ session.pc \in PastCustomers /\ session.pc \in PastCases
  BY <1>0 DEF Running, PastCustomers, PastCases, PastGrants, OneDump
<1>2. ASSUME NEW g \in GrantRows(session.file.copy), session' = session,
             dest' = [dest EXCEPT !.grants[g] = ImportedState(g), !.slots[g] = session.file.copy.slots[g]]
      PROVE  ImportInv'
  <2>0. session.file \in Bundles /\ session.file.copy \in Ledgers /\ dest \in Ledgers
    BY <1>1, RunningFacts DEF ImportInv, TypeInv
  <2>1. /\ g \in Grants /\ session.file.copy.grants[g] \in GrantStates \ {"absent"}
        /\ session.file.copy.slots[g] \in Nat
    BY <1>2, <2>0, LedgerFacts DEF GrantRows
  <2>2. /\ ImportedState(g) \in GrantStates \ {"absent"}
        /\ ImportedState(g) = "issued" => session.file.key # "foreign"
    BY <2>1 DEF ImportedState, GrantStates
  <2>3. /\ dest' \in Ledgers /\ dest'.grants = [dest.grants EXCEPT ![g] = ImportedState(g)]
        /\ dest'.customers = dest.customers /\ dest'.cases = dest.cases /\ dest'.dumps = dest.dumps
        /\ DumpRows(dest') = DumpRows(dest) /\ GrantRows(dest') = GrantRows(dest) \cup {g}
    BY <1>2, <2>0, <2>1, <2>2, GrantFacts
  <2>4. ASSUME NEW h \in Grants, dest'.grants[h] = "issued"
        PROVE  \E b \in Bundles : h \in GrantRows(b.copy) /\ b.key # "foreign"
    <3>1. dest.grants \in [Grants -> GrantStates]
      BY <2>0, LedgerFacts
    <3>2. CASE h = g
      BY <1>2, <2>0, <2>2, <2>3, <2>4, <3>1, <3>2
    <3>3. CASE h # g
      BY <2>3, <2>4, <3>1, <3>3 DEF ImportInv, GrantInv
    <3>4. QED
      BY <3>2, <3>3
  <2>5. GrantInv'
    BY <2>4 DEF GrantInv
  <2>6. QED
    BY <1>0, <1>1, <1>2, <2>3, <2>5, RowLands DEF ImportInv, RowInv, SameRun
<1>3. ASSUME GrantRows(session.file.copy) \subseteq GrantRows(dest), Goto("symbols"), dest' = dest
      PROVE  ImportInv'
  <2>1. session'.pc = "symbols" /\ session'.file = session.file /\ session'.next = session.next
    BY <1>1, <1>3, GotoFacts DEF ImportInv, TypeInv
  <2>2. RowInv'
    BY <1>0, <1>1, <1>3, <2>1 DEF ImportInv, RowInv, Replayed
  <2>3. QED
    BY <1>0, <1>1, <1>3, <2>2, TableDone
<1>4. QED
  BY <1>2, <1>3 DEF ImportGrant

LEMMA SymbolsKeep ==
  ASSUME ImportInv, ImportSymbols
  PROVE  ImportInv'
<1>0. /\ session.pc = "symbols" /\ mode' = mode /\ begun' = begun /\ finished' = finished
      /\ jobs' = jobs /\ workDir' = workDir /\ replayed' = replayed
      /\ staging' = staging /\ objects' = objects
  BY DEF ImportSymbols, At, vaultVars
<1>1. session.pc \in Running \ (OneDump \cup {"audit"}) /\ "dumps" \in Running \ OneDump
      /\ session.pc \in PastCustomers /\ session.pc \in PastCases /\ session.pc \in PastGrants
  BY <1>0 DEF Running, PastCustomers, PastCases, PastGrants, OneDump
<1>2. ASSUME NEW s \in session.file.manifest.symbols, dest' = [dest EXCEPT !.symbols = @ \cup {s}],
             session' = session
      PROVE  ImportInv'
  <2>1. s \in Symbols /\ dest \in Ledgers
    BY <1>1, <1>2, RunningFacts, OpenedFile DEF ImportInv, TypeInv
  <2>2. /\ dest' \in Ledgers
        /\ dest'.customers = dest.customers /\ dest'.cases = dest.cases
        /\ dest'.grants = dest.grants /\ dest'.dumps = dest.dumps
        /\ DumpRows(dest') = DumpRows(dest) /\ GrantRows(dest') = GrantRows(dest)
    BY <1>2, <2>1, SymbolFacts
  <2>3. GrantInv'
    BY <2>2 DEF ImportInv, GrantInv
  <2>4. QED
    BY <1>0, <1>1, <1>2, <2>2, <2>3, RowLands DEF ImportInv, RowInv, SameRun
<1>3. ASSUME Goto("dumps"), dest' = dest
      PROVE  ImportInv'
  <2>1. session'.pc = "dumps" /\ session'.file = session.file /\ session'.next = session.next
    BY <1>1, <1>3, GotoFacts DEF ImportInv, TypeInv
  <2>2. RowInv'
    BY <1>0, <1>1, <1>3, <2>1 DEF ImportInv, RowInv, Replayed
  <2>3. QED
    BY <1>0, <1>1, <1>3, <2>2, TableDone
<1>4. QED
  BY <1>2, <1>3 DEF ImportSymbols

LEMMA TombstonesKeep ==
  ASSUME ImportInv, ImportTombstone
  PROVE  ImportInv'
<1>0. /\ session.pc = "dumps" /\ session' = session /\ mode' = mode /\ begun' = begun
      /\ finished' = finished /\ jobs' = jobs /\ workDir' = workDir /\ replayed' = replayed
      /\ staging' = staging /\ objects' = objects
  BY DEF ImportTombstone, At, vaultVars, jobVars
<1>1. session.pc \in Running /\ session.pc \notin OneDump
  BY <1>0 DEF Running, PastCustomers, PastCases, PastGrants, OneDump
<1>2. PICK d \in Remaining, phase \in {"rejected", "deleted"} : LandRow(d, phase)
  BY DEF ImportTombstone
<1>3. d \in DOMAIN session.file.manifest.phases /\ d \in Dumps /\ phase \in TransferPhases \ {"absent"}
  BY <1>1, RunningFacts DEF Remaining, TransferPhases, StablePhases
<1>4. /\ dest' \in Ledgers /\ dest'.dumps = [dest.dumps EXCEPT ![d] = phase]
      /\ dest'.customers = dest.customers /\ dest'.cases = dest.cases /\ dest'.grants = dest.grants
      /\ DumpRows(dest') = DumpRows(dest) \cup {d} /\ GrantRows(dest') = GrantRows(dest)
  BY <1>2, <1>3, LandRowFacts DEF ImportInv, TypeInv
<1>5. dest.dumps \in [Dumps -> TransferPhases]
  BY LedgerFacts DEF ImportInv, TypeInv
<1>6. \A e \in Dumps : DumpSound(e)'
  BY <1>0, <1>4, <1>5 DEF ImportInv, DumpSound
<1>7. \A e \in Dumps : Stuck(e)' => Stuck(e)
  BY <1>4, <1>5 DEF Stuck
<1>8. HandInv'
  BY <1>0, <1>1, <1>7 DEF ImportInv, HandInv
<1>9. DumpRows(dest') \subseteq DOMAIN session.file.manifest.phases
  BY <1>1, <1>3, <1>4 DEF ImportInv, RowInv
<1>10. QED
  BY <1>0, <1>4, <1>6, <1>8, <1>9, DumpMoves DEF SameRun, ImportInv, TypeInv

LEMMA StageKeeps ==
  ASSUME ImportInv, StageBytes
  PROVE  ImportInv'
<1>0. /\ session.pc = "dumps" /\ mode' = mode /\ begun' = begun /\ finished' = finished
      /\ jobs' = jobs /\ workDir' = workDir /\ replayed' = replayed /\ dest' = dest /\ objects' = objects
  BY DEF StageBytes, At, ledgerVars
<1>1. session.pc \in Running /\ session.pc \notin OneDump /\ "staged" \in Running /\ "staged" \in OneDump
  BY <1>0 DEF Running, PastCustomers, PastCases, PastGrants, OneDump
<1>2. PICK d \in Remaining : /\ session.file.manifest.phases[d] = "available"
                             /\ session.file.entries[d] # "resized"
                             /\ staging' = [staging EXCEPT ![d] = session.file.entries[d]]
                             /\ NextDump(d, "staged")
  BY DEF StageBytes
<1>3. d \in DOMAIN session.file.manifest.phases /\ d \in Dumps /\ dest.dumps[d] = "absent"
  BY <1>1, RunningFacts DEF Remaining, DumpRows
<1>4. session.file.entries[d] \in {"good", "changed"}
  BY <1>1, <1>2, <1>3, RunningFacts, OpenedFile
<1>5. staging' \in [Dumps -> Bytes] /\ \A e \in Dumps \ {d} : staging'[e] = staging[e]
  BY <1>2, <1>4 DEF ImportInv, TypeInv, Bytes
<1>6. /\ session' \in Sessions /\ session'.pc = "staged" /\ session'.dump = d
      /\ session'.id = session.id /\ session'.file = session.file /\ session'.next = session.next
  BY <1>1, <1>2, <1>3, NextDumpFacts DEF ImportInv, TypeInv
<1>7. \A e \in Dumps : DumpSound(e)'
  BY <1>0, <1>3, <1>5 DEF ImportInv, DumpSound
<1>8. \A e \in Dumps : ~Stuck(e)
  BY <1>0, <1>1 DEF ImportInv, HandInv
<1>9. HandInv'
  BY <1>0, <1>1, <1>3, <1>6, <1>8 DEF HandInv, Stuck
<1>10. DumpRows(dest') \subseteq DOMAIN session.file.manifest.phases
  BY <1>0, <1>1 DEF ImportInv, RowInv
<1>11. QED
  BY <1>0, <1>1, <1>5, <1>6, <1>7, <1>9, <1>10, DumpMoves DEF SameRun, ImportInv, TypeInv

LEMMA StagedKeeps ==
  ASSUME ImportInv, ImportDumpStaged
  PROVE  ImportInv'
<1> DEFINE d == session.dump
<1>0. /\ session.pc = "staged" /\ mode' = mode /\ begun' = begun /\ finished' = finished
      /\ jobs' = jobs /\ workDir' = workDir /\ replayed' = replayed /\ objects' = objects
  BY DEF ImportDumpStaged, At
<1>1. /\ session.pc \in Running /\ session.pc \in OneDump
      /\ "promote" \in Running /\ "promote" \in OneDump /\ "dumps" \in Running /\ "dumps" \notin OneDump
  BY <1>0 DEF Running, PastCustomers, PastCases, PastGrants, OneDump
<1>2. d \in Dumps /\ d \in DOMAIN session.file.manifest.phases /\ dest.dumps[d] = "absent"
  BY <1>0, <1>1 DEF ImportInv, HandInv
<1>3. dest.dumps \in [Dumps -> TransferPhases] /\ dest \in Ledgers
      /\ staging \in [Dumps -> Bytes] /\ objects \in [Dumps -> Bytes] /\ session \in Sessions
  BY LedgerFacts DEF ImportInv, TypeInv
<1>4. \A e \in Dumps : ~Stuck(e)
  BY <1>0, <1>1, <1>2 DEF ImportInv, HandInv, Stuck
<1>5. ASSUME NEW phase \in {"sealed", "rejected"}, LandRow(d, phase)
      PROVE  /\ dest' \in Ledgers /\ dest'.dumps = [dest.dumps EXCEPT ![d] = phase]
             /\ dest'.customers = dest.customers /\ dest'.cases = dest.cases
             /\ dest'.grants = dest.grants /\ GrantRows(dest') = GrantRows(dest)
             /\ DumpRows(dest') \subseteq DOMAIN session.file.manifest.phases
  <2>1. phase \in TransferPhases \ {"absent"}
    BY DEF TransferPhases, StablePhases, UnstablePhases
  <2>2. DumpRows(dest) \subseteq DOMAIN session.file.manifest.phases
    BY <1>1 DEF ImportInv, RowInv
  <2>3. QED
    BY <1>2, <1>3, <1>5, <2>1, <2>2, LandRowFacts
<1>6. ASSUME staging[d] = "good", objects[d] = "none", LandRow(d, "sealed"), Goto("promote"),
             staging' = staging
      PROVE  ImportInv'
  <2>1. /\ session' \in Sessions /\ session'.pc = "promote" /\ session'.dump = d
        /\ session'.id = session.id /\ session'.file = session.file /\ session'.next = session.next
    BY <1>1, <1>3, <1>6, GotoFacts
  <2>2. \A e \in Dumps : DumpSound(e)'
    BY <1>0, <1>2, <1>3, <1>5, <1>6 DEF ImportInv, DumpSound
  <2>3. \A e \in Dumps : Stuck(e)' => e = d
    BY <1>3, <1>4, <1>5, <1>6 DEF Stuck
  <2>4. HandInv'
    BY <1>1, <1>2, <1>3, <1>5, <1>6, <2>1, <2>3 DEF HandInv
  <2>5. QED
    BY <1>0, <1>1, <1>3, <1>5, <1>6, <2>1, <2>2, <2>4, DumpMoves DEF SameRun
<1>7. ASSUME staging' = [staging EXCEPT ![d] = "none"], LandRow(d, "rejected"), NextDump(None, "dumps")
      PROVE  ImportInv'
  <2>1. /\ session' \in Sessions /\ session'.pc = "dumps"
        /\ session'.id = session.id /\ session'.file = session.file /\ session'.next = session.next
    BY <1>1, <1>3, <1>7, NextDumpFacts
  <2>2. staging' \in [Dumps -> Bytes]
    BY <1>3, <1>7 DEF Bytes
  <2>3. \A e \in Dumps : DumpSound(e)'
    BY <1>0, <1>2, <1>3, <1>5, <1>7 DEF ImportInv, DumpSound
  <2>4. \A e \in Dumps : ~Stuck(e)'
    BY <1>3, <1>4, <1>5, <1>7 DEF Stuck
  <2>5. HandInv'
    BY <1>1, <2>1, <2>4 DEF HandInv
  <2>6. QED
    BY <1>0, <1>1, <1>3, <1>5, <1>7, <2>1, <2>2, <2>3, <2>5, DumpMoves DEF SameRun
<1>8. QED
  BY <1>6, <1>7 DEF ImportDumpStaged

LEMMA PromoteKeeps ==
  ASSUME ImportInv, PromoteObject
  PROVE  ImportInv'
<1> DEFINE d == session.dump
<1>0. /\ session.pc = "promote" /\ mode' = mode /\ begun' = begun /\ finished' = finished
      /\ jobs' = jobs /\ workDir' = workDir /\ replayed' = replayed /\ dest' = dest
      /\ Promote(d) /\ Goto("quarantine")
  BY DEF PromoteObject, At, ledgerVars
<1>1. /\ session.pc \in Running /\ session.pc \in OneDump
      /\ "quarantine" \in Running /\ "quarantine" \in OneDump
  BY <1>0 DEF Running, PastCustomers, PastCases, PastGrants, OneDump
<1>2. d \in Dumps /\ d \in DOMAIN session.file.manifest.phases /\ dest.dumps[d] = "sealed"
  BY <1>0, <1>1 DEF ImportInv, HandInv
<1>3. staging \in [Dumps -> Bytes] /\ objects \in [Dumps -> Bytes] /\ session \in Sessions
  BY DEF ImportInv, TypeInv
<1>4. staging[d] = "good"
  BY <1>0, <1>2 DEF ImportInv, DumpSound, Promote
<1>5. /\ staging' \in [Dumps -> Bytes] /\ objects' \in [Dumps -> Bytes]
      /\ staging'[d] = "none" /\ objects'[d] = "good"
      /\ \A e \in Dumps \ {d} : staging'[e] = staging[e] /\ objects'[e] = objects[e]
  BY <1>0, <1>2, <1>3, <1>4 DEF Promote, Bytes
<1>6. /\ session' \in Sessions /\ session'.pc = "quarantine" /\ session'.dump = d
      /\ session'.id = session.id /\ session'.file = session.file /\ session'.next = session.next
  BY <1>0, <1>1, <1>3, GotoFacts
<1>7. \A e \in Dumps : DumpSound(e)'
  BY <1>0, <1>2, <1>5 DEF ImportInv, DumpSound
<1>8. HandInv'
  BY <1>0, <1>1, <1>2, <1>5, <1>6 DEF ImportInv, HandInv, Stuck
<1>9. DumpRows(dest') \subseteq DOMAIN session.file.manifest.phases
  BY <1>0, <1>1 DEF ImportInv, RowInv
<1>10. QED
  BY <1>0, <1>1, <1>5, <1>6, <1>7, <1>8, <1>9, DumpMoves DEF SameRun, ImportInv, TypeInv

LEMMA QuarantineKeeps ==
  ASSUME ImportInv, MarkQuarantined \/ InspectDump
  PROVE  ImportInv'
<1> DEFINE d == session.dump
<1>0. /\ session.pc \in {"quarantine", "inspect"} /\ mode' = mode /\ begun' = begun
      /\ finished' = finished /\ jobs' = jobs /\ workDir' = workDir /\ replayed' = replayed
      /\ staging' = staging /\ objects' = objects
  BY DEF MarkQuarantined, InspectDump, At, vaultVars
<1>1. /\ session.pc \in Running /\ session.pc \in OneDump
      /\ "inspect" \in Running /\ "inspect" \in OneDump /\ "dumps" \in Running /\ "dumps" \notin OneDump
  BY <1>0 DEF Running, PastCustomers, PastCases, PastGrants, OneDump
<1>2. d \in Dumps /\ d \in DOMAIN session.file.manifest.phases /\ objects[d] = "good"
  BY <1>0, <1>1 DEF ImportInv, HandInv, DumpSound
<1>3. dest.dumps \in [Dumps -> TransferPhases] /\ dest \in Ledgers
      /\ staging \in [Dumps -> Bytes] /\ objects \in [Dumps -> Bytes] /\ session \in Sessions
  BY LedgerFacts DEF ImportInv, TypeInv
<1>4. \A e \in Dumps \ {d} : ~Stuck(e)
  BY <1>1 DEF ImportInv, HandInv
<1>5. ASSUME NEW phase \in {"quarantined", "available", "rejected"}, LandRow(d, phase)
      PROVE  /\ dest' \in Ledgers /\ dest'.dumps = [dest.dumps EXCEPT ![d] = phase]
             /\ dest'.customers = dest.customers /\ dest'.cases = dest.cases
             /\ dest'.grants = dest.grants /\ GrantRows(dest') = GrantRows(dest)
             /\ DumpRows(dest') \subseteq DOMAIN session.file.manifest.phases
             /\ \A e \in Dumps : DumpSound(e)'
  <2>1. phase \in TransferPhases \ {"absent"}
    BY DEF TransferPhases, StablePhases, UnstablePhases
  <2>2. DumpRows(dest) \subseteq DOMAIN session.file.manifest.phases
    BY <1>1 DEF ImportInv, RowInv
  <2>3. /\ dest' \in Ledgers /\ dest'.dumps = [dest.dumps EXCEPT ![d] = phase]
        /\ dest'.customers = dest.customers /\ dest'.cases = dest.cases
        /\ dest'.grants = dest.grants /\ GrantRows(dest') = GrantRows(dest)
        /\ DumpRows(dest') = DumpRows(dest) \cup {d}
    BY <1>2, <1>3, <1>5, <2>1, LandRowFacts
  <2>4. \A e \in Dumps : DumpSound(e)'
    BY <1>0, <1>2, <1>3, <2>3 DEF ImportInv, DumpSound
  <2>5. QED
    BY <1>2, <2>2, <2>3, <2>4
<1>6. CASE MarkQuarantined
  <2>0. LandRow(d, "quarantined") /\ Goto("inspect")
    BY <1>6 DEF MarkQuarantined
  <2>1. /\ session' \in Sessions /\ session'.pc = "inspect" /\ session'.dump = d
        /\ session'.id = session.id /\ session'.file = session.file /\ session'.next = session.next
    BY <1>1, <1>3, <2>0, GotoFacts
  <2>2. \A e \in Dumps : Stuck(e)' => e = d
    BY <1>3, <1>4, <1>5, <2>0 DEF Stuck
  <2>3. HandInv'
    BY <1>1, <1>2, <1>3, <1>5, <2>0, <2>1, <2>2 DEF HandInv
  <2>4. QED
    BY <1>0, <1>1, <1>3, <1>5, <2>0, <2>1, <2>3, DumpMoves DEF SameRun
<1>7. CASE InspectDump
  <2>0. PICK phase \in {"available", "rejected"} : LandRow(d, phase) /\ NextDump(None, "dumps")
    BY <1>7 DEF InspectDump
  <2>1. /\ session' \in Sessions /\ session'.pc = "dumps"
        /\ session'.id = session.id /\ session'.file = session.file /\ session'.next = session.next
    BY <1>1, <1>3, <2>0, NextDumpFacts
  <2>2. \A e \in Dumps : ~Stuck(e)'
    BY <1>3, <1>4, <1>5, <2>0 DEF Stuck
  <2>3. HandInv'
    BY <1>1, <2>1, <2>2 DEF HandInv
  <2>4. QED
    BY <1>0, <1>1, <1>3, <1>5, <2>0, <2>1, <2>3, DumpMoves DEF SameRun
<1>8. QED
  BY <1>6, <1>7

LEMMA DumpsDoneKeeps ==
  ASSUME ImportInv, DumpsDone
  PROVE  ImportInv'
<1>0. /\ session.pc = "dumps" /\ mode' = mode /\ begun' = begun /\ finished' = finished
      /\ jobs' = jobs /\ workDir' = workDir /\ replayed' = replayed /\ dest' = dest
      /\ staging' = staging /\ objects' = objects /\ Remaining = {} /\ Goto("audit")
  BY DEF DumpsDone, At, ledgerVars, vaultVars
<1>1. /\ session.pc \in Running \ (OneDump \cup {"audit"}) /\ "audit" \in Running \ OneDump
      /\ session.pc \in PastCustomers /\ session.pc \in PastCases /\ session.pc \in PastGrants
  BY <1>0 DEF Running, PastCustomers, PastCases, PastGrants, OneDump
<1>2. session'.pc = "audit" /\ session'.file = session.file /\ session'.next = session.next
  BY <1>0, <1>1, GotoFacts DEF ImportInv, TypeInv
<1>3. DOMAIN session.file.manifest.phases \subseteq DumpRows(dest)
  BY <1>0 DEF Remaining
<1>4. RowInv'
  BY <1>0, <1>1, <1>2, <1>3 DEF ImportInv, RowInv, Replayed
<1>5. QED
  BY <1>0, <1>1, <1>4, TableDone

LEMMA AuditKeeps ==
  ASSUME ImportInv, ImportAuditEvent
  PROVE  ImportInv'
<1>0. /\ session.pc = "audit" /\ mode' = mode /\ begun' = begun /\ finished' = finished
      /\ jobs' = jobs /\ workDir' = workDir /\ dest' = dest /\ staging' = staging /\ objects' = objects
      /\ replayed' = Append(replayed, Kept(session.file)[session.next + 1])
      /\ session' = [session EXCEPT !.next = @ + 1]
  BY DEF ImportAuditEvent, At, vaultVars
<1>1. session.pc \in Running /\ session.pc \notin OneDump
  BY <1>0 DEF Running, PastCustomers, PastCases, PastGrants, OneDump
<1>2. session \in Sessions /\ session.next \in Nat /\ replayed \in Seq(Events)
  BY SessionFacts DEF ImportInv, TypeInv
<1>3. /\ session' \in Sessions /\ session'.pc = session.pc /\ session'.id = session.id
      /\ session'.file = session.file /\ session'.dump = session.dump
      /\ session'.next = session.next + 1
  BY SMTT(20), <1>0, <1>2 DEF Sessions
<1>4. PICK b \in Bundles : b = session.file
  BY <1>1, RunningFacts
<1>5. PICK n \in Nat : n = session.next
  BY <1>2
<1>6. Replayed(Kept(b), n)
  BY <1>1, <1>4, <1>5 DEF ImportInv, RowInv
<1>7. replayed' = Append(replayed, Kept(b)[n + 1])
  BY <1>0, <1>4, <1>5
<1>8. replayed' \in Seq(Events) /\ Replayed(Kept(b), n + 1)'
  BY <1>2, <1>6, <1>7, ReplayOne
<1>9. session'.file = b /\ session'.next = n + 1
  BY <1>3, <1>4, <1>5
<1>10. Replayed(Kept(session.file), session.next)'
  BY <1>8, <1>9 DEF Replayed
<1>11. SessionInv' /\ FinishedImportIsWhole'
  BY <1>0, <1>1, <1>3, RunGoesOn DEF SameRun
<1>12. TypeInv'
  BY <1>0, <1>3, <1>8 DEF ImportInv, TypeInv
<1>13. \A d \in Dumps : DumpSound(d)'
  BY <1>0 DEF ImportInv, DumpSound
<1>14. HandInv'
  BY <1>0, <1>1, <1>3 DEF ImportInv, HandInv, Stuck
<1>15. RowInv'
  BY <1>0, <1>1, <1>3, <1>10 DEF ImportInv, RowInv
<1>16. GrantInv'
  BY <1>0 DEF ImportInv, GrantInv
<1>17. QED
  BY <1>11, <1>12, <1>13, <1>14, <1>15, <1>16 DEF ImportInv

\* The one step that adds to finished: everything of the file is there by then.
LEMMA FinishKeeps ==
  ASSUME ImportInv, FinishImport
  PROVE  ImportInv'
<1>0. /\ session.pc = "audit" /\ session.next = Len(Kept(session.file))
      /\ finished' = finished \cup {session.id} /\ begun' = begun /\ mode' = mode
      /\ jobs' = [jobs EXCEPT ![session.id] = "finished"] /\ workDir' = workDir \ {session.id}
      /\ session' = NoSession /\ dest' = dest /\ replayed' = replayed
      /\ staging' = staging /\ objects' = objects
  BY DEF FinishImport, At, vaultVars
<1>1. /\ session.pc \in Running /\ session.pc \notin OneDump
      /\ session.pc \in PastCustomers /\ session.pc \in PastCases /\ session.pc \in PastGrants
  BY <1>0 DEF Running, PastCustomers, PastCases, PastGrants, OneDump
<1>2. session' \in Sessions /\ session'.pc = "idle" /\ session'.id = None /\ session'.next = 0
  BY <1>0, NoSessionFacts
<1>3. /\ session.id \in Imports /\ session.id # None /\ session.id \in begun
      /\ session.file \in Bundles /\ mode = "up" /\ None \notin Imports
  BY <1>1, RunningFacts, BundlesAreFiles
<1>4. "idle" \notin Running /\ "idle" \notin OneDump
  BY DEF Running, PastCustomers, PastCases, PastGrants, OneDump
<1>5. TypeInv'
  BY <1>0, <1>2, <1>3 DEF ImportInv, TypeInv
<1>6. SessionInv'
  <2>1. \A i \in Imports : jobs'[i] = "running" <=> i = session'.id
    BY <1>0, <1>2, <1>3 DEF ImportInv, TypeInv, SessionInv
  <2>2. workDir' = {session'.id} \ {None}
    BY <1>0, <1>2, <1>3 DEF ImportInv, SessionInv
  <2>3. QED
    BY <1>2, <1>4, <2>1, <2>2 DEF SessionInv
<1>7. \A d \in Dumps : DumpSound(d)'
  BY <1>0 DEF ImportInv, DumpSound
<1>8. \A d \in Dumps : ~Stuck(d)'
  BY <1>0, <1>1 DEF ImportInv, HandInv, Stuck
<1>9. HandInv'
  BY <1>2, <1>4, <1>8 DEF HandInv
<1>10. RowInv'
  BY <1>2, <1>4 DEF RowInv
<1>11. GrantInv'
  BY <1>0 DEF ImportInv, GrantInv
<1>12. FinishedImportIsWhole'
  <2>1. PICK b \in Bundles : b = session.file
    BY <1>3
  <2>2. /\ b.copy.customers \subseteq dest.customers /\ b.copy.cases \subseteq dest.cases
        /\ GrantRows(b.copy) \subseteq GrantRows(dest)
        /\ DumpRows(dest) = DOMAIN b.manifest.phases
        /\ Replayed(Kept(b), Len(Kept(b)))
    BY <1>0, <1>1, <2>1 DEF ImportInv, RowInv
  <2>3. Replayed(Kept(b), Len(Kept(b)))'
    BY <1>0, <2>2 DEF Replayed
  <2>4. QED
    BY <1>0, <2>2, <2>3 DEF FinishedImportIsWhole
<1>13. QED
  BY <1>5, <1>6, <1>7, <1>9, <1>10, <1>11, <1>12 DEF ImportInv

-----------------------------------------------------------------------------
(* Beside the session.                                                     *)

LEMMA StartKeeps ==
  ASSUME ImportInv, NEW i \in Imports, NEW b \in Bundles, StartImport(i, b)
  PROVE  ImportInv'
<1>0. /\ session.pc = "idle" /\ mode = "up" /\ jobs[i] = "absent" /\ i \notin begun
      /\ dest' = dest /\ replayed' = replayed /\ begun' = begun /\ finished' = finished
      /\ staging' = staging /\ objects' = objects /\ mode' = mode
  BY DEF StartImport, ledgerVars, vaultVars
<1>1. session.id = None /\ None \notin Imports /\ workDir = {}
  BY <1>0, BundlesAreFiles DEF ImportInv, SessionInv
<1>2. {"idle", "open"} \cap (Running \cup OneDump) = {}
  BY DEF Running, PastCustomers, PastCases, PastGrants, OneDump
<1>3. \A d \in Dumps : DumpSound(d)'
  BY <1>0 DEF ImportInv, DumpSound
<1>4. GrantInv' /\ FinishedImportIsWhole'
  BY <1>0 DEF ImportInv, GrantInv, FinishedImportIsWhole, Replayed, Unfinished
<1>5. ASSUME NEW state \in {"running", "failed"}, jobs' = [jobs EXCEPT ![i] = state],
             session'.pc \in {"idle", "open"}
      PROVE  HandInv' /\ RowInv'
  <2>1. \A j \in Unfinished : jobs[j] = "failed" => jobs'[j] = "failed"
    BY <1>0, <1>5 DEF Unfinished, ImportInv, TypeInv
  <2>2. Unfinished' = Unfinished /\ \A d \in Dumps : Stuck(d)' <=> Stuck(d)
    BY <1>0 DEF Unfinished, Stuck
  <2>3. (\E d \in Dumps : Stuck(d)) => \E j \in Unfinished : jobs[j] = "failed"
    BY <1>0, <1>2 DEF ImportInv, HandInv
  <2>4. session'.pc \notin Running /\ session'.pc \notin OneDump
    BY <1>2, <1>5
  <2>5. /\ session'.pc # "staged" /\ session'.pc # "promote" /\ session'.pc # "quarantine"
        /\ session'.pc # "inspect"
    BY <1>5
  <2>6. HandInv'
    BY <2>1, <2>2, <2>3, <2>4, <2>5 DEF HandInv
  <2>7. QED
    BY <2>4, <2>6 DEF RowInv
<1>6. CASE /\ OpenImportSession(b) /\ jobs' = [jobs EXCEPT ![i] = "running"]
           /\ session' = [NoSession EXCEPT !.pc = "open", !.id = i, !.file = b]
           /\ workDir' = workDir \cup {i}
  <2>1. /\ session' \in Sessions /\ session'.pc = "open" /\ session'.id = i /\ session'.file = b
        /\ session'.next = 0
    BY <1>6, StartFacts
  <2>2. TypeInv'
    BY <1>0, <1>6, <2>1 DEF ImportInv, TypeInv
  <2>3. \A j \in Imports : jobs'[j] = "running" <=> j = session'.id
    BY <1>1, <1>6, <2>1 DEF ImportInv, TypeInv, SessionInv
  <2>4. workDir' = {session'.id} \ {None}
    BY <1>1, <1>6, <2>1
  <2>5. SessionInv'
    BY <1>0, <1>1, <1>2, <1>6, <2>1, <2>3, <2>4 DEF SessionInv
  <2>6. QED
    BY <1>3, <1>4, <1>5, <1>6, <2>1, <2>2, <2>5 DEF ImportInv
<1>7. CASE jobs' = [jobs EXCEPT ![i] = "failed"] /\ session' = session /\ workDir' = workDir
  <2>1. TypeInv'
    BY <1>0, <1>7 DEF ImportInv, TypeInv
  <2>2. \A j \in Imports : jobs'[j] = "running" <=> j = session'.id
    BY <1>1, <1>7 DEF ImportInv, TypeInv, SessionInv
  <2>3. SessionInv'
    BY <1>0, <1>1, <1>2, <1>7, <2>2 DEF ImportInv, SessionInv
  <2>4. QED
    BY <1>0, <1>3, <1>4, <1>5, <1>7, <2>1, <2>3 DEF ImportInv
<1>8. QED
  BY <1>6, <1>7 DEF StartImport

\* A session at rest, in a ledger, a vault and a mode that may move.
LEMMA AtRest ==
  ASSUME ImportInv, session.pc = "idle", session' = session, jobs' = jobs,
         begun' = begun, finished' = finished, mode' \in {"up", "down", "boot"},
         mode' = "up" => (mode = "up" /\ workDir' = workDir) \/ workDir' = {},
         dest' \in Ledgers, dest'.grants = dest.grants, replayed' = replayed,
         dest.customers \subseteq dest'.customers, dest'.cases = dest.cases,
         DumpRows(dest') = DumpRows(dest), GrantRows(dest') = GrantRows(dest),
         staging' \in [Dumps -> Bytes], objects' \in [Dumps -> Bytes],
         \A d \in Dumps : DumpSound(d)',
         mode' = "up" => \A d \in Dumps : Stuck(d)' => mode = "up" /\ Stuck(d)
  PROVE  ImportInv'
<1>1. "idle" \notin Running /\ "idle" \notin OneDump
  BY DEF Running, PastCustomers, PastCases, PastGrants, OneDump
<1>2. Unfinished' = Unfinished
  BY DEF Unfinished
<1>3. TypeInv'
  BY DEF ImportInv, TypeInv
<1>4. SessionInv'
  BY <1>1, BundlesAreFiles DEF ImportInv, SessionInv
<1>5. HandInv'
  BY <1>1, <1>2 DEF ImportInv, HandInv
<1>6. RowInv'
  BY <1>1 DEF RowInv
<1>7. GrantInv'
  BY DEF ImportInv, GrantInv
<1>8. FinishedImportIsWhole'
  <2> SUFFICES ASSUME finished # {}, Unfinished = {}
               PROVE  \E b \in Bundles :
                        /\ b.copy.customers \subseteq dest'.customers /\ b.copy.cases \subseteq dest'.cases
                        /\ GrantRows(b.copy) \subseteq GrantRows(dest')
                        /\ DumpRows(dest') = DOMAIN b.manifest.phases
                        /\ Replayed(Kept(b), Len(Kept(b)))'
    BY <1>2 DEF FinishedImportIsWhole
  <2>1. PICK b \in Bundles :
          /\ b.copy.customers \subseteq dest.customers /\ b.copy.cases \subseteq dest.cases
          /\ GrantRows(b.copy) \subseteq GrantRows(dest)
          /\ DumpRows(dest) = DOMAIN b.manifest.phases
          /\ Replayed(Kept(b), Len(Kept(b)))
    BY DEF ImportInv, FinishedImportIsWhole
  <2>2. Replayed(Kept(b), Len(Kept(b)))'
    BY <2>1 DEF Replayed
  <2>3. QED
    BY <2>1, <2>2
<1>9. QED
  BY <1>3, <1>4, <1>5, <1>6, <1>7, <1>8 DEF ImportInv

\* A dump row that is there moves to another phase while no session is open.
LEMMA RestingRow ==
  ASSUME ImportInv, NEW d \in Dumps, dest.dumps[d] # "absent",
         NEW phase \in TransferPhases \ {"absent"}, LandRow(d, phase)
  PROVE  /\ dest' \in Ledgers /\ dest'.dumps = [dest.dumps EXCEPT ![d] = phase]
         /\ dest'.customers = dest.customers /\ dest'.cases = dest.cases /\ dest'.grants = dest.grants
         /\ DumpRows(dest') = DumpRows(dest) /\ GrantRows(dest') = GrantRows(dest)
         /\ dest.dumps \in [Dumps -> TransferPhases]
<1>1. d \in DumpRows(dest)
  BY DEF DumpRows
<1>2. dest \in Ledgers
  BY DEF ImportInv, TypeInv
<1>3. /\ dest' \in Ledgers /\ dest'.dumps = [dest.dumps EXCEPT ![d] = phase]
      /\ dest'.customers = dest.customers /\ dest'.cases = dest.cases /\ dest'.grants = dest.grants
      /\ DumpRows(dest') = DumpRows(dest) \cup {d} /\ GrantRows(dest') = GrantRows(dest)
  BY <1>2, LandRowFacts
<1>4. dest.dumps \in [Dumps -> TransferPhases]
  BY <1>2, LedgerFacts
<1>5. QED
  BY <1>1, <1>3, <1>4

LEMMA LiveKeeps ==
  ASSUME ImportInv, LiveCommand
  PROVE  ImportInv'
<1>0. /\ session.pc = "idle" /\ mode = "up" /\ session' = session /\ jobs' = jobs /\ workDir' = workDir
      /\ begun' = begun /\ finished' = finished /\ mode' = mode /\ replayed' = replayed
      /\ staging' = staging
  BY DEF LiveCommand, jobVars
<1>1. staging \in [Dumps -> Bytes] /\ objects \in [Dumps -> Bytes] /\ dest \in Ledgers
      /\ "none" \in Bytes
  BY DEF ImportInv, TypeInv, Bytes
<1>2. ASSUME NEW u \in Customers, dest' = [dest EXCEPT !.customers = @ \cup {u}], objects' = objects
      PROVE  ImportInv'
  <2>1. /\ dest' \in Ledgers /\ dest'.customers = dest.customers \cup {u}
        /\ dest'.cases = dest.cases /\ dest'.grants = dest.grants /\ dest'.dumps = dest.dumps
        /\ DumpRows(dest') = DumpRows(dest) /\ GrantRows(dest') = GrantRows(dest)
    BY <1>1, <1>2, CustomerFacts
  <2>2. \A d \in Dumps : DumpSound(d)' /\ (Stuck(d)' => Stuck(d))
    BY <1>0, <1>2, <2>1 DEF ImportInv, DumpSound, Stuck
  <2>3. QED
    BY <1>0, <1>1, <1>2, <2>1, <2>2, AtRest
<1>3. ASSUME NEW d \in Dumps, dest.dumps[d] # "absent", NEW phase \in {"deleting", "deleted"},
             LandRow(d, phase), objects' = objects \/ objects' = [objects EXCEPT ![d] = "none"]
      PROVE  ImportInv'
  <2>1. phase \in TransferPhases \ {"absent"}
    BY DEF TransferPhases, StablePhases, UnstablePhases
  <2>2. /\ dest' \in Ledgers /\ dest'.dumps = [dest.dumps EXCEPT ![d] = phase]
        /\ dest'.customers = dest.customers /\ dest'.cases = dest.cases /\ dest'.grants = dest.grants
        /\ DumpRows(dest') = DumpRows(dest) /\ GrantRows(dest') = GrantRows(dest)
        /\ dest.dumps \in [Dumps -> TransferPhases]
    BY <1>3, <2>1, RestingRow
  <2>3. objects' \in [Dumps -> Bytes]
    BY <1>1, <1>3
  <2>4. \A e \in Dumps : DumpSound(e)' /\ (Stuck(e)' => Stuck(e))
    BY <1>0, <1>1, <1>3, <2>2 DEF ImportInv, DumpSound, Stuck
  <2>5. QED
    BY <1>0, <1>1, <2>2, <2>3, <2>4, AtRest
<1>4. QED
  BY <1>2, <1>3 DEF LiveCommand

LEMMA CrashKeeps ==
  ASSUME ImportInv, Crash
  PROVE  ImportInv'
<1>0. /\ mode' = "down" /\ jobs' = [i \in Imports |-> "absent"] /\ session' = NoSession
      /\ dest' = dest /\ replayed' = replayed /\ begun' = begun /\ finished' = finished
      /\ staging' = staging /\ objects' = objects
  BY DEF Crash, ledgerVars, vaultVars
<1>1. session' \in Sessions /\ session'.pc = "idle" /\ session'.id = None /\ session'.next = 0
  BY <1>0, NoSessionFacts
<1>2. "idle" \notin Running /\ "idle" \notin OneDump
  BY DEF Running, PastCustomers, PastCases, PastGrants, OneDump
<1>3. TypeInv'
  BY <1>0, <1>1 DEF ImportInv, TypeInv
<1>4. SessionInv'
  BY <1>0, <1>1, <1>2, BundlesAreFiles DEF SessionInv
<1>5. \A d \in Dumps : DumpSound(d)'
  BY <1>0 DEF ImportInv, DumpSound
<1>6. HandInv' /\ RowInv'
  BY <1>0, <1>1, <1>2 DEF HandInv, RowInv
<1>7. GrantInv' /\ FinishedImportIsWhole'
  BY <1>0 DEF ImportInv, GrantInv, FinishedImportIsWhole, Replayed, Unfinished
<1>8. QED
  BY <1>3, <1>4, <1>5, <1>6, <1>7 DEF ImportInv

\* The rows go and the bytes stay: an object without a row is still no other
\* than the one its digest names.
LEMMA WipeKeeps ==
  ASSUME ImportInv, WipeLedger
  PROVE  ImportInv'
<1>0. /\ mode = "down" /\ mode' = mode /\ dest' = EmptyLedger /\ replayed' = <<>>
      /\ begun' = {} /\ finished' = {} /\ staging' = staging /\ objects' = objects
      /\ session' = session /\ jobs' = jobs /\ workDir' = workDir
  BY DEF WipeLedger, vaultVars, jobVars
<1>1. session.pc = "idle" /\ session.id = None
  BY <1>0 DEF ImportInv, SessionInv
<1>2. "idle" \notin Running /\ "idle" \notin OneDump
  BY DEF Running, PastCustomers, PastCases, PastGrants, OneDump
<1>3. /\ dest' \in Ledgers /\ dest'.dumps = [d \in Dumps |-> "absent"]
      /\ dest'.grants = [g \in Grants |-> "absent"]
  BY <1>0, EmptyLedgerFacts
<1>4. TypeInv'
  BY <1>0, <1>3 DEF ImportInv, TypeInv
<1>5. SessionInv'
  BY <1>0, <1>1, <1>2 DEF ImportInv, SessionInv
<1>6. \A d \in Dumps : DumpSound(d)'
  BY <1>0, <1>3 DEF ImportInv, DumpSound
<1>7. HandInv' /\ RowInv'
  BY <1>0, <1>1, <1>2 DEF HandInv, RowInv
<1>8. GrantInv' /\ FinishedImportIsWhole'
  BY <1>0, <1>3 DEF GrantInv, FinishedImportIsWhole
<1>9. QED
  BY <1>4, <1>5, <1>6, <1>7, <1>8 DEF ImportInv

\* A restart: reconcile takes up what is between two phases.
LEMMA RestartKeeps ==
  ASSUME ImportInv, Boot \/ (\E d \in Dumps : Reconcile(d) \/ RemoveOrphan(d)) \/ ReconcileEnds
  PROVE  ImportInv'
<1>0. /\ mode # "up" /\ session' = session /\ jobs' = jobs
      /\ begun' = begun /\ finished' = finished /\ replayed' = replayed
  BY DEF Boot, Reconcile, RemoveOrphan, ReconcileEnds, ledgerVars, jobVars
<1>1. session.pc = "idle"
  BY <1>0 DEF ImportInv, SessionInv
<1>2. /\ staging \in [Dumps -> Bytes] /\ objects \in [Dumps -> Bytes] /\ dest \in Ledgers
      /\ "none" \in Bytes
  BY DEF ImportInv, TypeInv, Bytes
<1>3. CASE Boot
  <2>1. /\ mode' = "boot" /\ workDir' = workDir /\ dest' = dest /\ staging' = staging
        /\ objects' = objects
    BY <1>3 DEF Boot, ledgerVars, vaultVars, jobVars
  <2>2. \A d \in Dumps : DumpSound(d)'
    BY <2>1 DEF ImportInv, DumpSound
  <2>3. QED
    BY <1>0, <1>1, <1>2, <2>1, <2>2, AtRest
<1>4. ASSUME NEW d \in Dumps, Reconcile(d)
      PROVE  ImportInv'
  <2>0. mode = "boot" /\ mode' = mode /\ workDir' = workDir
    BY <1>4 DEF Reconcile, jobVars
  <2>1. ASSUME dest.dumps[d] # "absent", NEW phase \in {"quarantined", "available", "rejected", "deleted"},
               LandRow(d, phase), staging' = staging, objects' \in [Dumps -> Bytes],
               \A e \in Dumps : objects'[e] = objects[e] \/ (e = d /\ objects'[e] = "none"),
               phase \in {"quarantined", "available"} => objects'[d] = "good"
        PROVE  ImportInv'
    <3>1. phase \in TransferPhases \ {"absent"}
      BY DEF TransferPhases, StablePhases, UnstablePhases
    <3>2. /\ dest' \in Ledgers /\ dest'.dumps = [dest.dumps EXCEPT ![d] = phase]
          /\ dest'.customers = dest.customers /\ dest'.cases = dest.cases /\ dest'.grants = dest.grants
          /\ DumpRows(dest') = DumpRows(dest) /\ GrantRows(dest') = GrantRows(dest)
          /\ dest.dumps \in [Dumps -> TransferPhases]
      BY <2>1, <3>1, RestingRow
    <3>3. \A e \in Dumps : DumpSound(e)'
      BY <2>1, <3>2 DEF ImportInv, DumpSound
    <3>4. QED
      BY <1>0, <1>1, <1>2, <2>0, <2>1, <3>2, <3>3, AtRest
  <2>2. CASE dest.dumps[d] = "sealed" /\ staging[d] # "none" /\ Promote(d) /\ dest' = dest
    <3>1. staging[d] = "good"
      BY <2>2 DEF ImportInv, DumpSound
    <3>2. /\ staging' \in [Dumps -> Bytes] /\ objects' \in [Dumps -> Bytes]
          /\ staging'[d] = "none" /\ objects'[d] = "good"
          /\ \A e \in Dumps \ {d} : staging'[e] = staging[e] /\ objects'[e] = objects[e]
      BY <1>2, <2>2, <3>1 DEF Promote
    <3>3. \A e \in Dumps : DumpSound(e)'
      BY <2>2, <3>2 DEF ImportInv, DumpSound
    <3>4. QED
      BY <1>0, <1>1, <1>2, <2>0, <2>2, <3>2, <3>3, AtRest
  <2>3. CASE /\ dest.dumps[d] = "sealed" /\ objects[d] # "none"
             /\ LandRow(d, "quarantined") /\ staging' = staging /\ objects' = objects
    <3>1. objects[d] = "good"
      BY <2>3 DEF ImportInv, DumpSound
    <3>2. QED
      BY <1>2, <2>1, <2>3, <3>1
  <2>4. CASE /\ dest.dumps[d] = "quarantined" /\ staging' = staging /\ objects' = objects
             /\ \E phase \in {"available", "rejected"} : LandRow(d, phase)
    <3>1. objects[d] = "good"
      BY <2>4 DEF ImportInv, DumpSound
    <3>2. QED
      BY <1>2, <2>1, <2>4, <3>1
  <2>5. CASE /\ dest.dumps[d] = "deleting" /\ LandRow(d, "deleted")
             /\ objects' = [objects EXCEPT ![d] = "none"] /\ staging' = staging
    <3>1. objects' \in [Dumps -> Bytes]
      BY <1>2, <2>5
    <3>2. QED
      BY <1>2, <2>1, <2>5, <3>1
  <2>6. QED
    BY <1>4, <2>2, <2>3, <2>4, <2>5 DEF Reconcile, vaultVars
<1>5. ASSUME NEW d \in Dumps, RemoveOrphan(d)
      PROVE  ImportInv'
  <2>1. /\ mode' = mode /\ workDir' = workDir /\ dest' = dest /\ objects' = objects
        /\ dest.dumps[d] = "absent" /\ staging' = [staging EXCEPT ![d] = "none"] /\ mode = "boot"
    BY <1>5 DEF RemoveOrphan, ledgerVars, jobVars
  <2>2. staging' \in [Dumps -> Bytes]
    BY <1>2, <2>1
  <2>3. \A e \in Dumps : DumpSound(e)'
    BY <1>2, <2>1 DEF ImportInv, DumpSound
  <2>4. QED
    BY <1>0, <1>1, <1>2, <2>1, <2>2, <2>3, AtRest
<1>6. CASE ReconcileEnds
  <2>1. /\ mode' = "up" /\ workDir' = {} /\ dest' = dest /\ staging' = staging /\ objects' = objects
    BY <1>6 DEF ReconcileEnds, ledgerVars, vaultVars
  <2>2. \A d \in Dumps : ~Stuck(d)'
    BY <1>6, <2>1 DEF ReconcileEnds, Stuck
  <2>3. \A d \in Dumps : DumpSound(d)'
    BY <2>1 DEF ImportInv, DumpSound
  <2>4. QED
    BY <1>0, <1>1, <1>2, <2>1, <2>2, <2>3, AtRest
<1>7. QED
  BY <1>3, <1>4, <1>5, <1>6

LEMMA ImportStutter ==
  ASSUME ImportInv, UNCHANGED vars
  PROVE  ImportInv'
<1>0. /\ dest' = dest /\ replayed' = replayed /\ begun' = begun /\ finished' = finished
      /\ staging' = staging /\ objects' = objects /\ mode' = mode
      /\ jobs' = jobs /\ session' = session /\ workDir' = workDir
  BY DEF vars, ledgerVars, vaultVars, jobVars
<1>1. TypeInv' /\ SessionInv' /\ HandInv' /\ RowInv' /\ GrantInv' /\ \A d \in Dumps : DumpSound(d)'
  BY <1>0 DEF ImportInv, TypeInv, SessionInv, HandInv, RowInv, GrantInv, DumpSound, Stuck,
              Unfinished, Replayed
<1>2. FinishedImportIsWhole'
  BY <1>0 DEF ImportInv, FinishedImportIsWhole, Unfinished, Replayed
<1>3. QED
  BY <1>1, <1>2 DEF ImportInv

-----------------------------------------------------------------------------
(* The theorems.                                                           *)

\* Every step of the session, of the operator beside it and of a restart keeps
\* the invariant.
THEOREM ImportInvariant == ImportSafety => []ImportInv
<1>1. ImportInit => ImportInv
  <2> SUFFICES ASSUME ImportInit PROVE ImportInv
    OBVIOUS
  <2>0. /\ dest = EmptyLedger /\ replayed = <<>> /\ begun = {} /\ finished = {}
        /\ staging = [d \in Dumps |-> "none"] /\ objects = [d \in Dumps |-> "none"] /\ mode = "up"
        /\ jobs = [i \in Imports |-> "absent"] /\ session = NoSession /\ workDir = {}
    BY DEF ImportInit
  <2>1. session \in Sessions /\ session.pc = "idle" /\ session.id = None /\ session.next = 0
    BY <2>0, NoSessionFacts
  <2>2. "idle" \notin Running /\ "idle" \notin OneDump
    BY DEF Running, PastCustomers, PastCases, PastGrants, OneDump
  <2>3. /\ dest \in Ledgers /\ dest.dumps = [d \in Dumps |-> "absent"]
        /\ dest.grants = [g \in Grants |-> "absent"]
    BY <2>0, EmptyLedgerFacts
  <2>4. TypeInv
    BY <2>0, <2>1, <2>3 DEF TypeInv, Bytes
  <2>5. SessionInv
    BY <2>0, <2>1, <2>2, BundlesAreFiles DEF SessionInv
  <2>6. \A d \in Dumps : DumpSound(d) /\ ~Stuck(d)
    BY <2>0, <2>3 DEF DumpSound, Stuck
  <2>7. HandInv /\ RowInv
    BY <2>1, <2>2, <2>6 DEF HandInv, RowInv
  <2>8. GrantInv /\ FinishedImportIsWhole
    BY <2>0, <2>3 DEF GrantInv, FinishedImportIsWhole
  <2>9. QED
    BY <2>4, <2>5, <2>6, <2>7, <2>8 DEF ImportInv
<1>2. ImportInv /\ [ImportNext]_vars => ImportInv'
  <2> SUFFICES ASSUME ImportInv, [ImportNext]_vars PROVE ImportInv'
    OBVIOUS
  <2>1. CASE \E i \in Imports, b \in Bundles : StartImport(i, b)
    BY <2>1, StartKeeps
  <2>2. CASE SessionStep
    BY <2>2, BeginKeeps, CustomersKeep, CasesKeep, GrantsKeep, SymbolsKeep, TombstonesKeep, StageKeeps,
       StagedKeeps, PromoteKeeps, QuarantineKeeps, DumpsDoneKeeps, AuditKeeps, FinishKeeps,
       FailingSteps, FailKeeps DEF SessionStep
  <2>3. CASE StepFails
    BY <2>3, FailingSteps, FailKeeps
  <2>4. CASE LiveCommand \/ Crash \/ WipeLedger
    BY <2>4, LiveKeeps, CrashKeeps, WipeKeeps
  <2>5. CASE Boot \/ (\E d \in Dumps : Reconcile(d) \/ RemoveOrphan(d)) \/ ReconcileEnds
    BY <2>5, RestartKeeps
  <2>6. CASE UNCHANGED vars
    BY <2>6, ImportStutter
  <2>7. QED
    BY <2>1, <2>2, <2>3, <2>4, <2>5, <2>6 DEF ImportNext
<1>3. QED
  BY <1>1, <1>2, PTL DEF ImportSafety

LEMMA InvIsSound == ImportInv => ImportIsSound
<1> SUFFICES ASSUME ImportInv PROVE ImportIsSound
  OBVIOUS
<1>1. ImportTypeOK
  <2>1. session.id \in Imports \cup {None} /\ None \notin Imports
    BY BundlesAreFiles, SessionFacts DEF ImportInv, TypeInv
  <2>2. {i \in Imports : jobs[i] = "running"} = {session.id} \ {None}
    BY <2>1 DEF ImportInv, SessionInv
  <2>3. QED
    BY <2>2 DEF ImportInv, TypeInv, SessionInv, ImportTypeOK, Bytes
<1>2. AvailableIsVerified
  BY DEF ImportInv, DumpSound, AvailableIsVerified
<1>3. ForeignGrantsAreDead
  BY DEF ImportInv, GrantInv, ForeignGrantsAreDead
<1>4. FinishedImportIsWhole
  BY DEF ImportInv
<1>5. ImportsDoNotMix
  <2> SUFFICES ASSUME session.pc \notin {"idle", "open"}
               PROVE  /\ Unfinished = {session.id}
                      /\ dest.customers \subseteq session.file.copy.customers
                      /\ dest.cases \subseteq session.file.copy.cases
                      /\ GrantRows(dest) \subseteq GrantRows(session.file.copy)
                      /\ DumpRows(dest) \subseteq DOMAIN session.file.manifest.phases
    BY DEF ImportsDoNotMix
  <2>1. session.pc \in Running
    BY SessionFacts DEF ImportInv, TypeInv
  <2>2. QED
    BY <2>1 DEF ImportInv, SessionInv, RowInv
<1>6. StuckDumpsAreReported
  <2> SUFFICES ASSUME mode = "up", NEW d \in Dumps, Stuck(d)
               PROVE  \E i \in Unfinished : jobs[i] \in {"running", "failed"}
    BY DEF StuckDumpsAreReported, Stuck
  <2>1. CASE session.pc \in Running
    <3>1. Unfinished = {session.id} /\ session.id \in Imports
      BY <2>1, RunningFacts DEF ImportInv, SessionInv
    <3>2. QED
      BY <3>1 DEF ImportInv, SessionInv
  <2>2. CASE session.pc \notin Running
    BY <2>2 DEF ImportInv, HandInv
  <2>3. QED
    BY <2>1, <2>2
<1>7. QED
  BY <1>1, <1>2, <1>3, <1>4, <1>5, <1>6 DEF ImportIsSound

\* Whatever is imported, wherever it is cut off and however often it is tried
\* again: bytes are verified, foreign grants are dead, a finished import is
\* whole, imports do not mix, and no dump is stuck in silence (importBundle,
\* reconcile).
THEOREM ImportsAreSound == ImportSafety => []ImportIsSound
BY ImportInvariant, InvIsSound, PTL
=============================================================================
