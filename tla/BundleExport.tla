---------------------------- MODULE BundleExport ----------------------------
(***************************************************************************)
(* The export job of the transfer manager, beside the live service.        *)
(*                                                                         *)
(* startExport takes the snapshot in the turn of the request, then waits   *)
(* for the online backup of the database.  Other requests run meanwhile,   *)
(* and SQLite carries their commits over into the backup: the copy is the  *)
(* ledger as the backup ends.  From there to the sealed bundle the job     *)
(* does not yield again; only the death of the process comes in between.   *)
(***************************************************************************)
EXTENDS TransferBundle

CONSTANTS
  Exports,             \* export ids; random in the code, so a free one stands for a new one
  Sources,             \* the ledgers of the instance when a behaviour begins
  ExportSlots,         \* the slot counts a grant may be issued with
  MaxExportCommands,   \* bound: commands beside the exports
  MaxExportCrashes,    \* bound: deaths of the process
  MaxExportFaults      \* bound: failing file operations

ASSUME ExportBounds ==
  /\ {MaxExportCommands, MaxExportCrashes, MaxExportFaults} \subseteq Nat
  /\ Sources \subseteq Ledgers /\ ExportSlots \subseteq Nat /\ None \notin Exports

VARIABLES
  ledger,       \* the live database
  vault,        \* dumps with an object in the vault
  exportMode,   \* of the process
  exports,      \* #exports: the status of each job
  active,       \* #active
  job,          \* the locals of exportBundle
  disk,         \* the export's directory: "work" until bundle.tar is in place
  bundles,      \* bundle.tar
  exportCommands, exportCrashes, exportFaults

liveVars == <<ledger, vault, exportCommands>>
exportJobVars == <<exports, active, job, disk, bundles>>
exportVars == <<liveVars, exportJobVars, exportMode, exportCrashes, exportFaults>>

NoManifest == Select(EmptyLedger, {})
NoBundle ==
  [manifest |-> NoManifest, copy |-> EmptyLedger, entries |-> <<>>, symbolEntries |-> <<>>,
   version |-> "current", layout |-> "strict", snapshot |-> EmptyLedger]
IdleJob == [pc |-> "idle", snapshot |-> EmptyLedger, symbols |-> "no", copy |-> EmptyLedger]

ExportInit ==
  /\ ledger \in Sources
  /\ vault = {d \in Dumps : ledger.dumps[d] \in {"quarantined", "available", "deleting"}}
  /\ exportMode = "up"
  /\ exports = [e \in Exports |-> "absent"]
  /\ active = None
  /\ job = IdleJob
  /\ disk = [e \in Exports |-> "none"]
  /\ bundles = [e \in Exports |-> NoBundle]
  /\ exportCommands = 0 /\ exportCrashes = 0 /\ exportFaults = 0

-----------------------------------------------------------------------------
(* Commands of other requests.  Each writes one audit event with its rows. *)

Commit(l, subject) ==
  /\ ledger' = [l EXCEPT !.audit = Append(@, subject)]
  /\ exportCommands' = exportCommands + 1

\* CreateCustomer and CreateCase: their events name no dump.
CreateRow ==
  /\ \/ \E u \in Customers \ ledger.customers :
          Commit([ledger EXCEPT !.customers = @ \cup {u}], None)
     \/ \E c \in Cases \ ledger.cases :
          ledger.customers # {} /\ Commit([ledger EXCEPT !.cases = @ \cup {c}], None)
  /\ UNCHANGED vault

IssueGrant(g) ==
  /\ ledger.cases # {} /\ ledger.grants[g] = "absent"
  /\ \E n \in ExportSlots :
       Commit([ledger EXCEPT !.grants[g] = "issued", !.slots[g] = n], None)
  /\ UNCHANGED vault

\* RevokeGrant revokes one; CloseCase those of its case, with one event; the
\* other transitions of a case none.
RevokeGrants(revoked) ==
  /\ ledger.cases # {}
  /\ Commit([ledger EXCEPT !.grants = [g \in Grants |-> IF g \in revoked THEN "revoked" ELSE @[g]]],
            None)
  /\ UNCHANGED vault

MoveDump(d, from, to) ==
  /\ ledger.dumps[d] = from
  /\ Commit([ledger EXCEPT !.dumps[d] = to], d)

\* The last slot consumes the grant.
BeginUpload(d, g) ==
  /\ ledger.grants[g] = "issued"
  /\ ledger.dumps[d] = "absent"
  /\ \E state \in {"issued", "consumed"} :
       /\ ledger.slots[g] = 1 => state = "consumed"
       /\ Commit([ledger EXCEPT !.dumps[d] = "receiving", !.grants[g] = state], d)
  /\ UNCHANGED vault

\* SealUpload, FailUpload, MarkQuarantined, RejectDump, BeginPurge.
AdvanceDump(d) ==
  /\ \/ MoveDump(d, "receiving", "sealed")
     \/ MoveDump(d, "receiving", "rejected")
     \/ d \in vault /\ MoveDump(d, "sealed", "quarantined")
     \/ MoveDump(d, "quarantined", "rejected")
     \/ MoveDump(d, "available", "deleting")
     \/ MoveDump(d, "rejected", "deleting")
  /\ UNCHANGED vault

PromoteBeside(d) ==
  /\ ledger.dumps[d] = "sealed" /\ d \notin vault
  /\ Commit(ledger, d)
  /\ vault' = vault \cup {d}

AcceptDump(d) ==
  /\ ledger.dumps[d] = "quarantined"
  /\ Commit([ledger EXCEPT !.dumps[d] = "available", !.facts = @ \cup {d}], d)
  /\ UNCHANGED vault

FinishPurge(d) ==
  /\ MoveDump(d, "deleting", "deleted")
  /\ vault' = vault \ {d}

SetRetention(d) ==
  /\ ledger.dumps[d] \in {"available", "rejected"}
  /\ Commit([ledger EXCEPT !.dated = @ \cup {d}], d)
  /\ UNCHANGED vault

\* AuthorizeDownload writes nothing but its event.
AuthorizeDownload(d) ==
  /\ ledger.dumps[d] = "available"
  /\ Commit(ledger, d)
  /\ UNCHANGED vault

RecordRichAnalysis(d) ==
  /\ ledger.dumps[d] = "available"
  /\ Commit([ledger EXCEPT !.rich = "some"], d)
  /\ UNCHANGED vault

PurgeSymbolRow(s) ==
  /\ s \in ledger.symbols
  /\ Commit([ledger EXCEPT !.symbols = @ \ {s}], None)
  /\ UNCHANGED vault

CommandBeside ==
  /\ exportMode = "up" /\ job.pc # "stream"
  /\ exportCommands < MaxExportCommands
  /\ \/ \E d \in Dumps :
          \/ \E g \in Grants : BeginUpload(d, g)
          \/ AdvanceDump(d) \/ PromoteBeside(d) \/ AcceptDump(d) \/ FinishPurge(d)
          \/ SetRetention(d) \/ AuthorizeDownload(d) \/ RecordRichAnalysis(d)
     \/ CreateRow
     \/ \E g \in Grants : IssueGrant(g)
     \/ \E revoked \in SUBSET {g \in Grants : ledger.grants[g] = "issued"} : RevokeGrants(revoked)
     \/ \E s \in Symbols : PurgeSymbolRow(s)
  /\ UNCHANGED <<exportJobVars, exportMode, exportCrashes, exportFaults>>

-----------------------------------------------------------------------------
(* The job.                                                                *)

Claim(e) ==
  /\ exportMode = "up" /\ active = None
  /\ exports[e] = "absent" /\ disk[e] = "none"

\* startExport, prepareExport and openPreparedExport up to the await.
StartExport(e, symbols) ==
  /\ Claim(e)
  /\ active' = e
  /\ exports' = [exports EXCEPT ![e] = "running"]
  /\ disk' = [disk EXCEPT ![e] = "work"]
  /\ job' = [IdleJob EXCEPT !.pc = "backup", !.snapshot = ledger, !.symbols = symbols]
  /\ UNCHANGED <<liveVars, exportMode, bundles, exportCrashes, exportFaults>>

\* Every failure ends here: the work directory is gone and the summary is kept.
FailExport ==
  /\ exports' = [exports EXCEPT ![active] = "failed"]
  /\ disk' = [disk EXCEPT ![active] = "none"]
  /\ active' = None
  /\ job' = IdleJob
  /\ UNCHANGED <<liveVars, exportMode, bundles, exportCrashes>>

\* Canonical analysis details cannot be carried by this format.
BackupEnds ==
  /\ job.pc = "backup"
  /\ ledger.rich = "none"
  /\ job' = [job EXCEPT !.pc = "stream", !.copy = ledger]
  /\ UNCHANGED <<liveVars, exportMode, exports, active, disk, bundles, exportCrashes, exportFaults>>

\* Seeded fault: the backup is tried again for ever.
BackupRetried ==
  /\ job.pc = "backup"
  /\ ledger.rich = "some"
  /\ UNCHANGED exportVars

BackupRefused ==
  /\ job.pc = "backup"
  /\ ledger.rich = "some"
  /\ FailExport
  /\ UNCHANGED exportFaults

Manifest ==
  Select(job.snapshot, IF job.symbols = "yes" THEN SelectSymbols(job.snapshot, job.copy) ELSE {})

\* writeDumpEntry and writeSymbolEntry find all the manifest promises.
BytesThere ==
  /\ AvailableDumps(job.snapshot) \subseteq vault
  /\ Manifest.symbols \subseteq ledger.symbols

WrittenBundle ==
  [NoBundle EXCEPT
    !.manifest = Manifest, !.copy = job.copy, !.snapshot = job.snapshot,
    !.entries = [d \in AvailableDumps(job.snapshot) \cap vault |-> "good"],
    !.symbolEntries = [s \in Manifest.symbols \cap ledger.symbols |-> "good"]]

\* run: bundle.tar.part is written, synced and renamed.
SealExport ==
  /\ job.pc = "stream"
  /\ BytesThere
  /\ bundles' = [bundles EXCEPT ![active] = WrittenBundle]
  /\ disk' = [disk EXCEPT ![active] = "sealed"]
  /\ exports' = [exports EXCEPT ![active] = "sealed"]
  /\ active' = None
  /\ job' = IdleJob
  /\ UNCHANGED <<liveVars, exportMode, exportCrashes, exportFaults>>

RaceAborts ==
  /\ job.pc = "stream"
  /\ ~BytesThere
  /\ FailExport
  /\ UNCHANGED exportFaults

\* Any file operation of the job, the directory's sync after the rename included.
ExportFails ==
  /\ job.pc # "idle"
  /\ exportFaults < MaxExportFaults
  /\ exportFaults' = exportFaults + 1
  /\ FailExport

DeleteExport(e) ==
  /\ exportMode = "up" /\ active # e /\ job.pc # "stream"
  /\ exports[e] \in {"sealed", "failed"}
  /\ disk' = [disk EXCEPT ![e] = "none"]
  /\ bundles' = [bundles EXCEPT ![e] = NoBundle]
  /\ exports' = [exports EXCEPT ![e] = "absent"]
  /\ UNCHANGED <<liveVars, exportMode, active, job, exportCrashes, exportFaults>>

-----------------------------------------------------------------------------
(* The process dies: what it knew of its jobs is lost, the directories     *)
(* stay, with bundle.tar in place when the rename was done.                *)

ExportCrash ==
  /\ exportMode = "up" /\ exportCrashes < MaxExportCrashes
  /\ exportMode' = "down"
  /\ exportCrashes' = exportCrashes + 1
  /\ exports' = [e \in Exports |-> "absent"]
  /\ active' = None
  /\ job' = IdleJob
  /\ \/ UNCHANGED <<disk, bundles>>
     \/ /\ job.pc = "stream" /\ BytesThere
        /\ bundles' = [bundles EXCEPT ![active] = WrittenBundle]
        /\ disk' = [disk EXCEPT ![active] = "sealed"]
  /\ UNCHANGED <<liveVars, exportFaults>>

\* #scanExportsDir: sealed bundles are listed, other work areas removed.
ScanExportsDir ==
  /\ exportMode = "down"
  /\ exportMode' = "up"
  /\ exports' = [e \in Exports |-> IF disk[e] = "sealed" THEN "sealed" ELSE "absent"]
  /\ disk' = [e \in Exports |-> IF disk[e] = "sealed" THEN "sealed" ELSE "none"]
  /\ UNCHANGED <<liveVars, active, job, bundles, exportCrashes, exportFaults>>

JobStep == BackupEnds \/ BackupRefused \/ SealExport \/ RaceAborts \/ ExportFails

ExportNext ==
  \/ CommandBeside
  \/ \E e \in Exports : \/ \E symbols \in {"yes", "no"} : StartExport(e, symbols)
                        \/ DeleteExport(e)
  \/ JobStep
  \/ ExportCrash
  \/ ScanExportsDir

ExportSafety == ExportInit /\ [][ExportNext]_exportVars
\* The event loop runs, a backup comes to an end, the process is restarted.
ExportSpec == ExportSafety /\ WF_exportVars(JobStep) /\ WF_exportVars(ScanExportsDir)

-----------------------------------------------------------------------------
(* Properties.                                                             *)

\* The state has its types, and the job's locals live exactly as long as its claim.
ExportTypeOK ==
  /\ ledger \in Ledgers /\ vault \subseteq Dumps
  /\ exportMode \in {"up", "down"}
  /\ exports \in [Exports -> {"absent", "running", "sealed", "failed"}]
  /\ disk \in [Exports -> {"none", "work", "sealed"}]
  /\ active \in Exports \cup {None}
  /\ job.pc \in {"idle", "backup", "stream"}
  /\ job.pc = "idle" <=> active = None

\* A sealed bundle holds the bytes of every dump and symbol its manifest
\* promises, whatever was purged while the backup ran (writeDumpEntry,
\* writeSymbolEntry: "a bundle missing a promised manifest entry is never
\* sealed").
SealedKeepsPromise ==
  \A e \in Exports :
    disk[e] = "sealed" =>
      /\ DOMAIN bundles[e].entries = Promised(bundles[e].manifest)
      /\ DOMAIN bundles[e].symbolEntries = bundles[e].manifest.symbols

\* While the process is up, the manager lists as sealed exactly the bundles on
\* disk, and a work area belongs to the running job: nothing is left of failed
\* or interrupted exports (run's catch, #scanExportsDir).
RegistryMatchesDisk ==
  exportMode = "up" =>
    \A e \in Exports : /\ exports[e] = "sealed" <=> disk[e] = "sealed"
                       /\ disk[e] = "work" => active = e

SameRows(l, k) ==
  /\ l.customers = k.customers /\ l.cases = k.cases
  /\ l.grants = k.grants /\ l.slots = k.slots
  /\ DumpRows(l) = DumpRows(k)
  /\ \A d \in Declared(l) : l.dumps[d] = k.dumps[d] /\ (d \in l.dated <=> d \in k.dated)

\* Skew between the snapshot and the backup never gets into an import: a bundle
\* that passes the gates of openImportSession carries the rows of the snapshot,
\* except those of dumps it leaves behind (checkConsistency's counts and rows).
SkewIsCaught ==
  \A e \in Exports :
    disk[e] = "sealed" /\ OpenImportSession(bundles[e]) =>
      SameRows(bundles[e].snapshot, bundles[e].copy)

\* A bundle whose backup ran undisturbed passes the gates of openImportSession:
\* select and checkConsistency agree on what is counted and what is left out.
QuietExportOpens ==
  \A e \in Exports :
    /\ disk[e] = "sealed"
    /\ bundles[e].copy = bundles[e].snapshot
    => OpenImportSession(bundles[e])

\* What a quiet export needs to open is that the importer reads its grants; the
\* limit on their slots is all that can be in the way (RowParses).
ReadableExportOpens ==
  \A e \in Exports :
    /\ disk[e] = "sealed"
    /\ bundles[e].copy = bundles[e].snapshot
    /\ \A g \in GrantRows(bundles[e].copy) : RowParses(bundles[e].copy, g)
    => OpenImportSession(bundles[e])

\* The document says that a concurrent upload does not appear in an export; the
\* copy of the ledger in the bundle has its row (openPreparedExport).
ConcurrentUploadStaysOut ==
  \A e \in Exports :
    disk[e] = "sealed" => DumpRows(bundles[e].copy) \subseteq DumpRows(bundles[e].snapshot)

\* Every claim on the manager is given up again, so one failed or interrupted
\* export does not shut out all later transfers (#claim, #release).
ClaimIsReleased == (active # None) ~> (active = None)

\* What an export promises, together: whole bundles, a true registry, no skew
\* that gets through, and bundles that open when nothing came in between and the
\* importer can read the slot counts of their grants.
BundleIsSound ==
  ExportTypeOK /\ SealedKeepsPromise /\ RegistryMatchesDisk /\ SkewIsCaught /\ ReadableExportOpens
=============================================================================
