---------------------------- MODULE BundleImport ----------------------------
(***************************************************************************)
(* The import of a bundle into an instance.                                *)
(*                                                                         *)
(* importBundle runs in one turn of the event loop: no request comes in    *)
(* between.  But each engine command in it is a transaction of its own, so *)
(* the process can die, and a command can fail, after any of them.  What   *)
(* has landed by then stays, beside the marker BeginImport wrote.          *)
(***************************************************************************)
EXTENDS TransferBundle

CONSTANTS
  Imports,      \* import ids
  Bundles,      \* the files an operator may name, intact or not
  MaxCommands,  \* bound: commands beside the imports
  MaxCrashes,   \* bound: deaths of the process
  MaxFaults,    \* bound: failing commands and file operations
  MaxWipes      \* bound: ledgers wiped for a new import

ASSUME ImportBounds ==
  MaxCommands \in Nat /\ MaxCrashes \in Nat /\ MaxFaults \in Nat /\ MaxWipes \in Nat

\* A file has a ledger copy, and names dumps and symbols in manifest and entries.
ASSUME BundlesAreFiles ==
  /\ None \notin Imports
  /\ \A b \in Bundles :
       /\ b.copy \in Ledgers
       /\ DOMAIN b.manifest.phases \subseteq Dumps /\ b.manifest.symbols \subseteq Symbols
       /\ \A d \in DOMAIN b.entries : b.entries[d] \in {"good", "changed", "resized"}

VARIABLES
  dest,        \* the rows of the ledger
  replayed,    \* events of the bundle's audit feed that were replayed
  begun,       \* ids of the BeginImport markers
  finished,    \* ids of the FinishImport markers
  staging,     \* the bytes of a staging file: none, good or changed
  objects,     \* the bytes of a vault object
  mode,        \* of the process; "boot" while reconcile runs
  jobs,        \* #imports: the status of each job
  session,     \* the locals of importBundle
  workDir,     \* the import- directories in the exports directory
  commands, crashes, faults, wipes

ledgerVars == <<dest, replayed, begun, finished>>
vaultVars == <<staging, objects>>
jobVars == <<jobs, session, workDir>>
bounds == <<commands, crashes, faults, wipes>>
vars == <<ledgerVars, vaultVars, jobVars, mode, bounds>>

NoFile ==
  [manifest |-> Select(EmptyLedger, {}), copy |-> EmptyLedger, entries |-> <<>>,
   symbolEntries |-> <<>>, version |-> "current", layout |-> "strict", key |-> "same"]
NoSession == [pc |-> "idle", id |-> None, file |-> NoFile, dump |-> None, next |-> 0]

\* unfinishedImportId
Unfinished == begun \ finished

ImportInit ==
  /\ dest = EmptyLedger /\ replayed = <<>>
  /\ begun = {} /\ finished = {}
  /\ staging = [d \in Dumps |-> "none"] /\ objects = [d \in Dumps |-> "none"]
  /\ mode = "up"
  /\ jobs = [i \in Imports |-> "absent"]
  /\ session = NoSession
  /\ workDir = {}
  /\ commands = 0 /\ crashes = 0 /\ faults = 0 /\ wipes = 0

-----------------------------------------------------------------------------
(* The session.                                                            *)

\* importBundle's catch and finally: the outcome is failed, the session is
\* closed, the marker stays.
Failed ==
  /\ jobs' = [jobs EXCEPT ![session.id] = "failed"]
  /\ session' = NoSession
  /\ workDir' = workDir \ {session.id}

At(pc) == session.pc = pc /\ mode = "up"
Goto(pc) == session' = [session EXCEPT !.pc = pc]

\* startImport and openImportSession: a file that fails a gate changes nothing.
StartImport(i, b) ==
  /\ mode = "up" /\ session.pc = "idle"
  /\ jobs[i] = "absent" /\ i \notin begun
  /\ \/ /\ OpenImportSession(b)
        /\ jobs' = [jobs EXCEPT ![i] = "running"]
        /\ session' = [NoSession EXCEPT !.pc = "open", !.id = i, !.file = b]
        /\ workDir' = workDir \cup {i}
     \/ /\ ~OpenImportSession(b)
        /\ jobs' = [jobs EXCEPT ![i] = "failed"]
        /\ UNCHANGED <<session, workDir>>
  /\ UNCHANGED <<ledgerVars, vaultVars, mode, bounds>>

IsEmpty ==
  dest.customers = {} /\ dest.cases = {} /\ GrantRows(dest) = {} /\ DumpRows(dest) = {}

Mark ==
  /\ begun' = begun \cup {session.id}
  /\ Goto("customers")
  /\ UNCHANGED <<jobs, workDir>>

\* Seeded fault.
BeginAnyImport ==
  /\ At("open")
  /\ Unfinished = {}
  /\ Mark
  /\ UNCHANGED <<dest, replayed, finished, vaultVars, mode, bounds>>

BeginImport ==
  /\ At("open")
  /\ IsEmpty /\ Unfinished = {}
  /\ Mark
  /\ UNCHANGED <<dest, replayed, finished, vaultVars, mode, bounds>>

BeginRefused ==
  /\ At("open")
  /\ ~(IsEmpty /\ Unfinished = {})
  /\ Failed
  /\ UNCHANGED <<ledgerVars, vaultVars, mode, bounds>>

\* Rows land in the order their references demand, one transaction each.
ImportCustomer ==
  /\ At("customers")
  /\ \/ \E u \in session.file.copy.customers \ dest.customers :
          dest' = [dest EXCEPT !.customers = @ \cup {u}] /\ UNCHANGED session
     \/ session.file.copy.customers \subseteq dest.customers /\ Goto("cases") /\ UNCHANGED dest
  /\ UNCHANGED <<replayed, begun, finished, vaultVars, jobs, workDir, mode, bounds>>

ImportCase ==
  /\ At("cases")
  /\ \/ \E c \in session.file.copy.cases \ dest.cases :
          dest' = [dest EXCEPT !.cases = @ \cup {c}] /\ UNCHANGED session
     \/ session.file.copy.cases \subseteq dest.cases /\ Goto("grants") /\ UNCHANGED dest
  /\ UNCHANGED <<replayed, begun, finished, vaultVars, jobs, workDir, mode, bounds>>

\* Under another grant key an issued grant is imported as revoked.
ImportedState(g) ==
  LET state == session.file.copy.grants[g]
  IN  IF session.file.key = "foreign" /\ state = "issued" THEN "revoked" ELSE state

ImportGrant ==
  /\ At("grants")
  /\ \/ \E g \in GrantRows(session.file.copy) \ GrantRows(dest) :
          /\ dest' = [dest EXCEPT !.grants[g] = ImportedState(g),
                                  !.slots[g] = session.file.copy.slots[g]]
          /\ UNCHANGED session
     \/ /\ GrantRows(session.file.copy) \subseteq GrantRows(dest)
        /\ Goto("symbols") /\ UNCHANGED dest
  /\ UNCHANGED <<replayed, begun, finished, vaultVars, jobs, workDir, mode, bounds>>

\* importSymbolEntry: size, digest and identity are verified again; the store
\* deduplicates by identity.
ImportSymbols ==
  /\ At("symbols")
  /\ \/ \E s \in session.file.manifest.symbols \ dest.symbols :
          /\ session.file.symbolEntries[s] = "good"
          /\ dest' = [dest EXCEPT !.symbols = @ \cup {s}] /\ UNCHANGED session
     \/ /\ session.file.manifest.symbols \subseteq dest.symbols
        /\ Goto("dumps") /\ UNCHANGED dest
  /\ UNCHANGED <<replayed, begun, finished, vaultVars, jobs, workDir, mode, bounds>>

SymbolRefused ==
  /\ At("symbols")
  /\ \E s \in session.file.manifest.symbols : session.file.symbolEntries[s] # "good"
  /\ Failed
  /\ UNCHANGED <<ledgerVars, vaultVars, mode, bounds>>

-----------------------------------------------------------------------------
(* Dumps.                                                                  *)

Remaining == DOMAIN session.file.manifest.phases \ DumpRows(dest)

NextDump(d, pc) == session' = [session EXCEPT !.pc = pc, !.dump = d]

LandRow(d, phase) == dest' = [dest EXCEPT !.dumps[d] = phase]

\* stageDump of a tombstone, or of a dump whose entry has another size.
ImportTombstone ==
  /\ At("dumps")
  /\ \E d \in Remaining :
       \/ /\ session.file.manifest.phases[d] \in {"rejected", "deleted"}
          /\ LandRow(d, session.file.manifest.phases[d])
       \/ /\ session.file.manifest.phases[d] = "available"
          /\ session.file.entries[d] = "resized"
          /\ LandRow(d, "rejected")
  /\ UNCHANGED <<replayed, begun, finished, vaultVars, jobVars, mode, bounds>>

\* createStaging refuses a file that is there already.
StageBytes ==
  /\ At("dumps")
  /\ \E d \in Remaining :
       /\ session.file.manifest.phases[d] = "available"
       /\ session.file.entries[d] # "resized"
       /\ staging[d] = "none"
       /\ staging' = [staging EXCEPT ![d] = session.file.entries[d]]
       /\ NextDump(d, "staged")
  /\ UNCHANGED <<ledgerVars, objects, jobs, workDir, mode, bounds>>

StagingInTheWay ==
  /\ At("dumps")
  /\ \E d \in Remaining :
       /\ session.file.manifest.phases[d] = "available"
       /\ session.file.entries[d] # "resized"
       /\ staging[d] # "none"
  /\ Failed
  /\ UNCHANGED <<ledgerVars, vaultVars, mode, bounds>>

\* The digest decides: a mismatch drops the bytes and lands a rejected row.
ImportDumpStaged ==
  /\ At("staged")
  /\ LET d == session.dump
     IN  \/ /\ staging[d] = "good" /\ objects[d] = "none"
            /\ LandRow(d, "sealed")
            /\ Goto("promote")
            /\ UNCHANGED staging
         \/ /\ staging[d] = "changed"
            /\ staging' = [staging EXCEPT ![d] = "none"]
            /\ LandRow(d, "rejected")
            /\ NextDump(None, "dumps")
  /\ UNCHANGED <<replayed, begun, finished, objects, jobs, workDir, mode, bounds>>

\* An object is in the vault already; the staging file stays as an orphan.
ImportDumpRefused ==
  /\ At("staged")
  /\ staging[session.dump] = "good" /\ objects[session.dump] # "none"
  /\ Failed
  /\ UNCHANGED <<ledgerVars, vaultVars, mode, bounds>>

Promote(d) ==
  /\ staging[d] # "none" /\ objects[d] = "none"
  /\ objects' = [objects EXCEPT ![d] = staging[d]]
  /\ staging' = [staging EXCEPT ![d] = "none"]

PromoteObject ==
  /\ At("promote")
  /\ Promote(session.dump)
  /\ Goto("quarantine")
  /\ UNCHANGED <<ledgerVars, jobs, workDir, mode, bounds>>

MarkQuarantined ==
  /\ At("quarantine")
  /\ LandRow(session.dump, "quarantined")
  /\ Goto("inspect")
  /\ UNCHANGED <<replayed, begun, finished, vaultVars, jobs, workDir, mode, bounds>>

\* The inspector looks at the bytes again and may refuse them.
InspectDump ==
  /\ At("inspect")
  /\ \E phase \in {"available", "rejected"} : LandRow(session.dump, phase)
  /\ NextDump(None, "dumps")
  /\ UNCHANGED <<replayed, begun, finished, vaultVars, jobs, workDir, mode, bounds>>

DumpsDone ==
  /\ At("dumps")
  /\ Remaining = {}
  /\ Goto("audit")
  /\ UNCHANGED <<ledgerVars, vaultVars, jobs, workDir, mode, bounds>>

-----------------------------------------------------------------------------
(* The end.                                                                *)

Kept(file) ==
  SelectSeq(file.copy.audit, LAMBDA x : x \in DOMAIN file.manifest.phases \cup {None})

\* Events of dumps that stayed behind are left out.
ImportAuditEvent ==
  /\ At("audit")
  /\ session.next < Len(Kept(session.file))
  /\ replayed' = Append(replayed, Kept(session.file)[session.next + 1])
  /\ session' = [session EXCEPT !.next = @ + 1]
  /\ UNCHANGED <<dest, begun, finished, vaultVars, jobs, workDir, mode, bounds>>

FinishImport ==
  /\ At("audit")
  /\ session.next = Len(Kept(session.file))
  /\ finished' = finished \cup {session.id}
  /\ jobs' = [jobs EXCEPT ![session.id] = "finished"]
  /\ session' = NoSession
  /\ workDir' = workDir \ {session.id}
  /\ UNCHANGED <<dest, replayed, begun, vaultVars, mode, bounds>>

\* A command or a file operation fails.  Bytes without a row are removed again
\* (stageDump's catch and the engine's around importDumpStaged).
StepFails ==
  /\ session.pc # "idle" /\ mode = "up"
  /\ faults < MaxFaults
  /\ faults' = faults + 1
  /\ Failed
  /\ IF session.pc = "staged"
     THEN staging' = [staging EXCEPT ![session.dump] = "none"]
     ELSE UNCHANGED staging
  /\ UNCHANGED <<ledgerVars, objects, mode, commands, crashes, wipes>>

SessionStep ==
  \/ BeginImport \/ BeginRefused
  \/ ImportCustomer \/ ImportCase \/ ImportGrant \/ ImportSymbols \/ SymbolRefused
  \/ ImportTombstone \/ StageBytes \/ StagingInTheWay \/ ImportDumpStaged
  \/ ImportDumpRefused
  \/ PromoteObject \/ MarkQuarantined \/ InspectDump \/ DumpsDone
  \/ ImportAuditEvent \/ FinishImport

-----------------------------------------------------------------------------
(* Beside and after the import.                                            *)

\* An operator creates a customer, or a purge runs its two commands.
LiveCommand ==
  /\ mode = "up" /\ session.pc = "idle"
  /\ commands < MaxCommands
  /\ commands' = commands + 1
  /\ \/ /\ \E u \in Customers \ dest.customers : dest' = [dest EXCEPT !.customers = @ \cup {u}]
        /\ UNCHANGED objects
     \/ \E d \in Dumps :
          \/ /\ dest.dumps[d] \in {"available", "rejected"}
             /\ LandRow(d, "deleting") /\ UNCHANGED objects
          \/ /\ dest.dumps[d] = "deleting"
             /\ LandRow(d, "deleted") /\ objects' = [objects EXCEPT ![d] = "none"]
  /\ UNCHANGED <<replayed, begun, finished, staging, jobVars, mode, crashes, faults, wipes>>

Crash ==
  /\ mode # "down" /\ crashes < MaxCrashes
  /\ crashes' = crashes + 1
  /\ mode' = "down"
  /\ jobs' = [i \in Imports |-> "absent"]
  /\ session' = NoSession
  /\ UNCHANGED <<ledgerVars, vaultVars, workDir, commands, faults, wipes>>

\* The ledger is taken away for a new import; the vault's files are not.
WipeLedger ==
  /\ mode = "down" /\ wipes < MaxWipes
  /\ wipes' = wipes + 1
  /\ dest' = EmptyLedger /\ replayed' = <<>>
  /\ begun' = {} /\ finished' = {}
  /\ UNCHANGED <<vaultVars, jobVars, mode, commands, crashes, faults>>

Boot ==
  /\ mode = "down"
  /\ mode' = "boot"
  /\ UNCHANGED <<ledgerVars, vaultVars, jobVars, bounds>>

\* reconcile, a command at a time: it resumes what is between two phases.
Reconcile(d) ==
  /\ mode = "boot"
  /\ \/ /\ dest.dumps[d] = "sealed" /\ staging[d] # "none"
        /\ Promote(d) /\ UNCHANGED dest
     \/ /\ dest.dumps[d] = "sealed" /\ objects[d] # "none"
        /\ LandRow(d, "quarantined") /\ UNCHANGED vaultVars
     \/ /\ dest.dumps[d] = "quarantined"
        /\ \E phase \in {"available", "rejected"} : LandRow(d, phase)
        /\ UNCHANGED vaultVars
     \/ /\ dest.dumps[d] = "deleting"
        /\ LandRow(d, "deleted") /\ objects' = [objects EXCEPT ![d] = "none"]
        /\ UNCHANGED staging
  /\ UNCHANGED <<replayed, begun, finished, jobVars, mode, bounds>>

\* An orphan goes once it is old enough.
RemoveOrphan(d) ==
  /\ mode = "boot"
  /\ dest.dumps[d] = "absent" /\ staging[d] # "none"
  /\ staging' = [staging EXCEPT ![d] = "none"]
  /\ UNCHANGED <<ledgerVars, objects, jobVars, mode, bounds>>

\* main goes on to the transfer manager, which drops the import- directories.
ReconcileEnds ==
  /\ mode = "boot"
  /\ \A d \in Dumps : dest.dumps[d] \notin {"sealed", "quarantined", "deleting"}
  /\ mode' = "up"
  /\ workDir' = {}
  /\ UNCHANGED <<ledgerVars, vaultVars, jobs, session, bounds>>

ImportNext ==
  \/ \E i \in Imports, b \in Bundles : StartImport(i, b)
  \/ SessionStep
  \/ StepFails
  \/ LiveCommand
  \/ Crash
  \/ WipeLedger
  \/ Boot
  \/ \E d \in Dumps : Reconcile(d) \/ RemoveOrphan(d)
  \/ ReconcileEnds

ImportSafety == ImportInit /\ [][ImportNext]_vars

-----------------------------------------------------------------------------
(* Properties.                                                             *)

\* The state has its types; a session runs for one job and in one work area.
ImportTypeOK ==
  /\ dest \in Ledgers
  /\ begun \subseteq Imports /\ finished \subseteq begun
  /\ staging \in [Dumps -> {"none", "good", "changed"}]
  /\ objects \in [Dumps -> {"none", "good", "changed"}]
  /\ mode \in {"up", "down", "boot"}
  /\ jobs \in [Imports -> {"absent", "running", "finished", "failed"}]
  /\ {i \in Imports : jobs[i] = "running"} = {session.id} \ {None}
  /\ mode = "up" => workDir = {session.id} \ {None}

\* Bytes reach the vault, and a dump becomes available, only with the digest
\* the source recorded, whatever was done to the bundle and wherever an import
\* was cut off and taken up by reconcile (stageDump, reconcile).
AvailableIsVerified ==
  \A d \in Dumps : /\ objects[d] # "changed"
                   /\ dest.dumps[d] = "available" => objects[d] = "good"

\* A grant that comes only in bundles of another key is never usable here, not
\* even in what an interrupted import left behind (importGrant's forcedState).
ForeignGrantsAreDead ==
  \A g \in Grants :
    (\A b \in Bundles : g \in GrantRows(b.copy) => b.key = "foreign")
      => dest.grants[g] # "issued"

\* The last n events that were replayed are the first n of t.
Replayed(t, n) ==
  n <= Len(replayed) /\ \A k \in 1..n : replayed[Len(replayed) - n + k] = t[k]

\* FinishImport means that everything arrived.  As long as no other import is
\* begun - only the bundle of an instance without rows leaves room for one - the
\* ledger has every row of the copy, a row for every declared dump and for no
\* other, and the audit feed without the events of dumps left behind, in its
\* order (finish, importBundle).
FinishedImportIsWhole ==
  finished # {} /\ Unfinished = {} =>
    \E b \in Bundles :
      /\ b.copy.customers \subseteq dest.customers /\ b.copy.cases \subseteq dest.cases
      /\ GrantRows(b.copy) \subseteq GrantRows(dest)
      /\ DumpRows(dest) = DOMAIN b.manifest.phases
      /\ Replayed(Kept(b), Len(Kept(b)))

\* While an import runs, the ledger holds nothing but rows of its bundle: it
\* never mixes with what operators or another import left (beginImport).
ImportsDoNotMix ==
  session.pc \notin {"idle", "open"} =>
    /\ Unfinished = {session.id}
    /\ dest.customers \subseteq session.file.copy.customers
    /\ dest.cases \subseteq session.file.copy.cases
    /\ GrantRows(dest) \subseteq GrantRows(session.file.copy)
    /\ DumpRows(dest) \subseteq DOMAIN session.file.manifest.phases

\* A dump row stuck between two phases is always accounted for: its import is
\* running, or the manager lists it as failed until the next start resumes the
\* dump (importBundle's catch, reconcile).
StuckDumpsAreReported ==
  mode = "up" /\ (\E d \in Dumps : dest.dumps[d] \in {"sealed", "quarantined"})
    => \E i \in Unfinished : jobs[i] \in {"running", "failed"}

\* The design has startup reconciliation clean up or resume an interrupted
\* import; reconcile never looks at the marker.
InterruptedImportIsCleanedUp ==
  mode = "up" /\ session.pc = "idle" /\ (\A i \in Imports : jobs[i] = "absent")
    => Unfinished = {}

\* What an import promises, together, through failures, crashes, restarts and
\* a second import: verified bytes, dead foreign grants, all or an unfinished
\* marker, no mixing, and no dump stuck in silence (import-session.ts).
ImportIsSound ==
  /\ ImportTypeOK /\ AvailableIsVerified /\ ForeignGrantsAreDead
  /\ FinishedImportIsWhole /\ ImportsDoNotMix /\ StuckDumpsAreReported
=============================================================================
