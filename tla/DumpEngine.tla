----------------------------- MODULE DumpEngine -----------------------------
(***************************************************************************)
(* The lifecycle engine: the durable rows of the SQLite ledger (cases,     *)
(* upload grants, dumps, analyses), the byte objects of the filesystem     *)
(* vault, and one action per engine command that touches them.             *)
(*                                                                         *)
(* The ledger and the file system share no transaction.  A command that    *)
(* needs both changes the vault first and the ledger second, so a command  *)
(* C of that kind has a second action CInterrupted: the vault half was     *)
(* done and the process died, or the ledger transaction was refused by the *)
(* storage, before the ledger half.  A ledger half on its own is one       *)
(* SQLite transaction and is atomic.                                       *)
(*                                                                         *)
(* This module lets every command arrive in every state the engine accepts *)
(* it in; who really calls what, and when, is module DumpService.          *)
(*                                                                         *)
(* Every transaction also appends one audit row.  The audit log is not a   *)
(* variable here; the one fact of it that is used, which grant a           *)
(* BeginUpload row names, is the field grant of the dump.                  *)
(***************************************************************************)
EXTENDS Naturals, FiniteSets

CONSTANTS
  Cases,       \* case ids
  Grants,      \* grant ids; a grant id stands for its secret as well
  Dumps,       \* dump ids the id source may hand out
  Analyses,    \* analysis identities (analyzer, version, kind, input digest)
  WellFormed,  \* the dumps whose bytes the inspector accepts
  MaxUploads,  \* MAX_GRANT_UPLOAD_SLOTS
  MaxChunks,   \* grant maxBytes, in chunks of the upload stream
  None         \* no object, no value

ASSUME DumpsFinite == IsFiniteSet(Dumps)
ASSUME WellFormedIsDumps == WellFormed \subseteq Dumps
ASSUME BoundsAreNat == MaxUploads \in Nat \ {0} /\ MaxChunks \in Nat \ {0}
ASSUME NoneIsFresh ==
  None \notin Nat /\ None \notin Cases /\ None \notin Grants /\ None \notin Dumps

VARIABLES
  caseStatus,   \* cases.status, or "absent" before the row exists
  grants,       \* upload_grants
  dumps,        \* dumps
  analyses,     \* dump_analyses joined with analysis_details
  staging,      \* staging/<id>.part: number of chunks in the file, or None
  descriptors,  \* openStaging: staging files this process holds open
  vault,        \* vault/<id>/original.dmp: number of chunks, or None
  disturbed     \* dumps whose files something outside the program touched

ledgerVars == <<caseStatus, grants, dumps, analyses>>
vaultVars  == <<staging, descriptors, vault>>
engineVars == <<caseStatus, grants, dumps, analyses, staging, descriptors, vault, disturbed>>

CaseStatuses == {"new", "investigating", "waiting-for-customer", "resolved", "closed"}
TokenStates == {"issued", "consumed", "revoked", "expired"}
DumpPhases == {"receiving", "sealed", "quarantined", "available", "rejected", "deleting", "deleted"}
BlobStates == {"staging", "vault", "none"}
ValidationStates == {"not-checked", "valid", "invalid", "transfer-failed"}

Chunks == 0..MaxChunks
Objects == Chunks \cup {None}

\* A timestamp column only matters by where it lies against the clock.
Deadlines == {"unset", "future", "due"}

GrantRow ==
  [state: TokenStates \cup {"absent"}, case: Cases \cup {None}, maxUploads: 0..MaxUploads,
   uploadsUsed: 0..MaxUploads, consumedBy: Dumps \cup {None}, expiresAt: Deadlines]

DumpRow ==
  [phase: DumpPhases \cup {"absent"}, blob: BlobStates, validation: ValidationStates,
   downloadable: BOOLEAN, digest: Objects, purgeAt: Deadlines,
   case: Cases \cup {None}, grant: Grants \cup {None}]

\* "summary": a dump_analyses row; "rich": with its analysis_details row.
AnalysisStates == {"none", "summary", "rich"}

NoGrant ==
  [state |-> "absent", case |-> None, maxUploads |-> 0, uploadsUsed |-> 0,
   consumedBy |-> None, expiresAt |-> "unset"]

NoDump ==
  [phase |-> "absent", blob |-> "none", validation |-> "not-checked", downloadable |-> FALSE,
   digest |-> None, purgeAt |-> "unset", case |-> None, grant |-> None]

NoAnalyses == [a \in Analyses |-> "none"]

EngineInit ==
  /\ caseStatus = [c \in Cases |-> "absent"]
  /\ grants = [g \in Grants |-> NoGrant]
  /\ dumps = [d \in Dumps |-> NoDump]
  /\ analyses = [d \in Dumps |-> NoAnalyses]
  /\ staging = [d \in Dumps |-> None]
  /\ descriptors = {}
  /\ vault = [d \in Dumps |-> None]
  /\ disturbed = {}

-----------------------------------------------------------------------------
(* Vault operations.                                                       *)

\* removeStaging also closes the descriptor; a missing file is no error.
RemoveStaging(d) ==
  /\ staging' = [staging EXCEPT ![d] = None]
  /\ descriptors' = descriptors \ {d}
  /\ UNCHANGED vault

\* promote refuses an open file and two objects, and is a no-op when the
\* object is already in the vault.
Promote(d) ==
  /\ d \notin descriptors
  /\ \/ /\ staging[d] = None
        /\ vault[d] # None
        /\ UNCHANGED <<staging, vault>>
     \/ /\ staging[d] # None
        /\ vault[d] = None
        /\ vault' = [vault EXCEPT ![d] = staging[d]]
        /\ staging' = [staging EXCEPT ![d] = None]
  /\ UNCHANGED descriptors

\* remove clears both places.
RemoveObject(d) ==
  /\ staging' = [staging EXCEPT ![d] = None]
  /\ descriptors' = descriptors \ {d}
  /\ vault' = [vault EXCEPT ![d] = None]

-----------------------------------------------------------------------------
(* Cases.                                                                  *)

CreateCase(c) ==
  /\ caseStatus[c] = "absent"
  /\ caseStatus' = [caseStatus EXCEPT ![c] = "new"]
  /\ UNCHANGED <<grants, dumps, analyses, vaultVars, disturbed>>

TransitionCase(c, expected, next) ==
  /\ caseStatus[c] \in expected
  /\ caseStatus' = [caseStatus EXCEPT ![c] = next]
  /\ UNCHANGED <<grants, dumps, analyses, vaultVars, disturbed>>

StartInvestigation(c) == TransitionCase(c, {"new"}, "investigating")
WaitForCustomer(c) == TransitionCase(c, {"investigating"}, "waiting-for-customer")
ResumeInvestigation(c) ==
  TransitionCase(c, {"waiting-for-customer", "resolved", "closed"}, "investigating")
ResolveCase(c) == TransitionCase(c, {"investigating", "waiting-for-customer"}, "resolved")

\* Seeded fault: closing forgets the grants.
RevokeNothing(c) == {g \in Grants : FALSE}

RevokedAtClose(c) == {g \in Grants : grants[g].case = c /\ grants[g].state = "issued"}

\* One transaction: the status and the revocation of every live grant.
CloseCase(c) ==
  /\ caseStatus[c] = "resolved"
  /\ caseStatus' = [caseStatus EXCEPT ![c] = "closed"]
  /\ grants' = [g \in Grants |->
                  IF g \in RevokedAtClose(c) THEN [grants[g] EXCEPT !.state = "revoked"]
                                             ELSE grants[g]]
  /\ UNCHANGED <<dumps, analyses, vaultVars, disturbed>>

-----------------------------------------------------------------------------
(* Grants.                                                                 *)

IssueGrant(g, c, n) ==
  /\ grants[g].state = "absent"
  /\ caseStatus[c] \notin {"absent", "closed"}
  /\ grants' = [grants EXCEPT ![g] =
                  [state |-> "issued", case |-> c, maxUploads |-> n, uploadsUsed |-> 0,
                   consumedBy |-> None, expiresAt |-> "future"]]
  /\ UNCHANGED <<caseStatus, dumps, analyses, vaultVars, disturbed>>

\* Seeded fault: the UPDATE without AND state = 'issued'.
TransitionAnyGrant(g, next) ==
  /\ grants[g].state # "absent"
  /\ grants' = [grants EXCEPT ![g] = [@ EXCEPT !.state = next]]
  /\ UNCHANGED <<caseStatus, dumps, analyses, vaultVars, disturbed>>

TransitionGrant(g, next) ==
  /\ grants[g].state = "issued"
  /\ grants' = [grants EXCEPT ![g] = [@ EXCEPT !.state = next]]
  /\ UNCHANGED <<caseStatus, dumps, analyses, vaultVars, disturbed>>

RevokeGrant(g) == TransitionGrant(g, "revoked")
ExpireGrant(g) == TransitionGrant(g, "expired")

\* The clock passes expires_at; no row is written.
GrantDeadlinePasses(g) ==
  /\ grants[g].expiresAt = "future"
  /\ grants' = [grants EXCEPT ![g] = [@ EXCEPT !.expiresAt = "due"]]
  /\ UNCHANGED <<caseStatus, dumps, analyses, vaultVars, disturbed>>

-----------------------------------------------------------------------------
(* The SET clause of each UPDATE of a dump row.                            *)

ReceivingRow(c, g) ==
  [NoDump EXCEPT !.phase = "receiving", !.blob = "staging", !.case = c, !.grant = g]
SealedRow(row, digest) == [row EXCEPT !.phase = "sealed", !.digest = digest]
FailedRow(row) ==
  [row EXCEPT !.phase = "rejected", !.blob = "none", !.validation = "transfer-failed",
              !.downloadable = FALSE]
PromotedRow(row) == [row EXCEPT !.blob = "vault"]
QuarantinedRow(row) == [row EXCEPT !.phase = "quarantined"]
AcceptedRow(row) ==
  [row EXCEPT !.phase = "available", !.validation = "valid", !.downloadable = TRUE]
RejectedRow(row) ==
  [row EXCEPT !.phase = "rejected", !.validation = "invalid", !.downloadable = FALSE]

\* Seeded fault: downloadable is left to FinishPurge.
DeletingRowDownloadable(row) == [row EXCEPT !.phase = "deleting"]

DeletingRow(row) == [row EXCEPT !.phase = "deleting", !.downloadable = FALSE]
DeletedRow(row) ==
  [row EXCEPT !.phase = "deleted", !.blob = "none", !.downloadable = FALSE]

DatedRow(row, purgeAt) == [row EXCEPT !.purgeAt = purgeAt]

TransitionDump(d, expected, row) ==
  /\ dumps[d].phase \in expected
  /\ dumps' = [dumps EXCEPT ![d] = row]

-----------------------------------------------------------------------------
(* Intake.                                                                 *)

\* What the engine checks of the grant before it creates the staging file.
GrantUsable(g) == grants[g].state = "issued" /\ grants[g].expiresAt = "future"

SlotLeft(g) == grants[g].uploadsUsed < grants[g].maxUploads

\* Seeded fault: > for >= in the CASE of the UPDATE.
TakeSlotOffByOne(row, d) ==
  [row EXCEPT !.uploadsUsed = @ + 1,
              !.state = IF row.uploadsUsed + 1 > row.maxUploads THEN "consumed" ELSE "issued",
              !.consumedBy = IF @ = None THEN d ELSE @]

\* The UPDATE of beginUpload on the grant row g for the new dump d.
TakeSlot(row, d) ==
  [row EXCEPT !.uploadsUsed = @ + 1,
              !.state = IF row.uploadsUsed + 1 >= row.maxUploads THEN "consumed" ELSE "issued",
              !.consumedBy = IF @ = None THEN d ELSE @]

\* A fresh id: createStaging opens with O_EXCL.
FreshDump(d) == dumps[d].phase = "absent" /\ staging[d] = None /\ vault[d] = None

CreateStaging(d) ==
  /\ staging' = [staging EXCEPT ![d] = 0]
  /\ descriptors' = descriptors \cup {d}
  /\ UNCHANGED vault

\* A refused transaction removes the staging file again and changes nothing.
BeginUpload(g, d) ==
  /\ GrantUsable(g)
  /\ FreshDump(d)
  /\ CreateStaging(d)
  /\ caseStatus[grants[g].case] # "closed"
  /\ SlotLeft(g)
  /\ grants' = [grants EXCEPT ![g] = TakeSlot(@, d)]
  /\ dumps' = [dumps EXCEPT ![d] = ReceivingRow(grants[g].case, g)]
  /\ UNCHANGED <<caseStatus, analyses, disturbed>>

\* The process dies after createStaging: an orphan file without a row.
BeginUploadInterrupted(g, d) ==
  /\ GrantUsable(g)
  /\ FreshDump(d)
  /\ CreateStaging(d)
  /\ UNCHANGED <<ledgerVars, disturbed>>

\* Seeded fault: the byte limit is checked after the chunk that passes it.
AppendChunkPastLimit(d) ==
  /\ d \in descriptors
  /\ staging[d] \in Chunks
  /\ staging' = [staging EXCEPT ![d] = @ + 1]
  /\ UNCHANGED <<ledgerVars, descriptors, vault, disturbed>>

AppendChunk(d) ==
  /\ d \in descriptors
  /\ staging[d] \in 0..(MaxChunks - 1)
  /\ staging' = [staging EXCEPT ![d] = @ + 1]
  /\ UNCHANGED <<ledgerVars, descriptors, vault, disturbed>>

SyncAndClose(d) ==
  /\ d \in descriptors
  /\ descriptors' = descriptors \ {d}
  /\ UNCHANGED <<ledgerVars, staging, vault, disturbed>>

\* The caller names the digest it computed over the stream.
SealUpload(d, digest) ==
  /\ staging[d] # None
  /\ TransitionDump(d, {"receiving"}, SealedRow(dumps[d], digest))
  /\ UNCHANGED <<caseStatus, grants, analyses, vaultVars, disturbed>>

\* Seeded fault: the row is rejected and the staging file forgotten.
FailUploadKeepsFile(d) ==
  /\ TransitionDump(d, {"receiving"}, FailedRow(dumps[d]))
  /\ UNCHANGED <<caseStatus, grants, analyses, vaultVars, disturbed>>

FailUpload(d) ==
  /\ RemoveStaging(d)
  /\ TransitionDump(d, {"receiving"}, FailedRow(dumps[d]))
  /\ UNCHANGED <<caseStatus, grants, analyses, disturbed>>

FailUploadInterrupted(d) ==
  /\ dumps[d].phase = "receiving"
  /\ RemoveStaging(d)
  /\ UNCHANGED <<ledgerVars, disturbed>>

PromoteObject(d) ==
  /\ Promote(d)
  /\ dumps[d].blob = "staging"
  /\ TransitionDump(d, {"sealed"}, PromotedRow(dumps[d]))
  /\ UNCHANGED <<caseStatus, grants, analyses, disturbed>>

PromoteObjectInterrupted(d) ==
  /\ dumps[d].phase = "sealed"
  /\ Promote(d)
  /\ UNCHANGED <<ledgerVars, disturbed>>

MarkQuarantined(d) ==
  /\ vault[d] # None /\ staging[d] = None
  /\ dumps[d].blob = "vault" /\ dumps[d].digest # None
  /\ TransitionDump(d, {"sealed"}, QuarantinedRow(dumps[d]))
  /\ UNCHANGED <<caseStatus, grants, analyses, vaultVars, disturbed>>

\* inspect reads the vault object.
Acceptable(d) == vault[d] # None /\ d \in WellFormed

\* Seeded fault: a rejected dump may be inspected again.
AcceptDumpAgain(d) ==
  /\ Acceptable(d)
  /\ dumps[d].blob = "vault" /\ dumps[d].digest # None
  /\ TransitionDump(d, {"quarantined", "rejected"}, AcceptedRow(dumps[d]))
  /\ UNCHANGED <<caseStatus, grants, analyses, vaultVars, disturbed>>

AcceptDump(d) ==
  /\ Acceptable(d)
  /\ dumps[d].blob = "vault" /\ dumps[d].digest # None
  /\ TransitionDump(d, {"quarantined"}, AcceptedRow(dumps[d]))
  /\ UNCHANGED <<caseStatus, grants, analyses, vaultVars, disturbed>>

\* Any read error of the inspector is an outcome "not ok", so a dump with
\* good bytes can be rejected as well.
RejectDump(d) ==
  /\ dumps[d].blob = "vault"
  /\ TransitionDump(d, {"quarantined"}, RejectedRow(dumps[d]))
  /\ UNCHANGED <<caseStatus, grants, analyses, vaultVars, disturbed>>

-----------------------------------------------------------------------------
(* Retention and analyses.                                                 *)

SetRetention(d) ==
  /\ TransitionDump(d, {"available", "rejected"}, DatedRow(dumps[d], "future"))
  /\ UNCHANGED <<caseStatus, grants, analyses, vaultVars, disturbed>>

\* The clock passes purge_at; no row is written.
PurgeDeadlinePasses(d) ==
  /\ dumps[d].purgeAt = "future"
  /\ dumps' = [dumps EXCEPT ![d] = DatedRow(@, "due")]
  /\ UNCHANGED <<caseStatus, grants, analyses, vaultVars, disturbed>>

\* Seeded fault: the bytes go before the row says so.
BeginPurgeBytesFirst(d) ==
  /\ RemoveObject(d)
  /\ TransitionDump(d, {"available", "rejected"}, DeletingRow(dumps[d]))
  /\ UNCHANGED <<caseStatus, grants, analyses, disturbed>>

BeginPurge(d) ==
  /\ TransitionDump(d, {"available", "rejected"}, DeletingRow(dumps[d]))
  /\ UNCHANGED <<caseStatus, grants, analyses, vaultVars, disturbed>>

\* Seeded fault: the tombstone keeps its analyses (the cascade never fires).
FinishPurgeKeepsAnalyses(d) ==
  /\ RemoveObject(d)
  /\ TransitionDump(d, {"deleting"}, DeletedRow(dumps[d]))
  /\ UNCHANGED <<caseStatus, grants, analyses, disturbed>>

\* The second half is one transaction with the deletion of the analyses.
FinishPurge(d) ==
  /\ RemoveObject(d)
  /\ TransitionDump(d, {"deleting"}, DeletedRow(dumps[d]))
  /\ analyses' = [analyses EXCEPT ![d] = NoAnalyses]
  /\ UNCHANGED <<caseStatus, grants, disturbed>>

FinishPurgeInterrupted(d) ==
  /\ dumps[d].phase = "deleting"
  /\ RemoveObject(d)
  /\ UNCHANGED <<ledgerVars, disturbed>>

\* A new identity inserts a row with or without its detail; a known one
\* gains a detail once, and any other repeat is a replay or a refusal.
RecordAnalysis(d, a, form) ==
  /\ dumps[d].phase = "available"
  /\ dumps[d].digest # None
  /\ \/ analyses[d][a] = "none"
     \/ analyses[d][a] = "summary" /\ form = "rich"
  /\ analyses' = [analyses EXCEPT ![d] = [@ EXCEPT ![a] = form]]
  /\ UNCHANGED <<caseStatus, grants, dumps, vaultVars, disturbed>>

-----------------------------------------------------------------------------
(* What startup reconciliation does to the vault without a command, and    *)
(* what the outside world does.                                            *)

RemoveOrphan(d) ==
  /\ dumps[d].phase = "absent"
  /\ staging[d] # None
  /\ RemoveStaging(d)
  /\ UNCHANGED <<ledgerVars, disturbed>>

RemoveRejectedResidue(d) ==
  /\ dumps[d].phase = "rejected"
  /\ staging[d] # None
  /\ RemoveStaging(d)
  /\ UNCHANGED <<ledgerVars, disturbed>>

RemoveTombstoneResidue(d) ==
  /\ dumps[d].phase = "deleted"
  /\ staging[d] # None \/ vault[d] # None
  /\ RemoveObject(d)
  /\ UNCHANGED <<ledgerVars, disturbed>>

\* A new process holds no descriptor of the old one.
DescriptorsDropped ==
  /\ descriptors' = {}
  /\ UNCHANGED <<ledgerVars, staging, vault, disturbed>>

\* Something other than the program takes the files of a dump away: a disk
\* fault, a vault restored from an older backup.
FilesVanish(d) ==
  /\ d \notin disturbed \cup descriptors
  /\ staging[d] # None \/ vault[d] # None
  /\ staging' = [staging EXCEPT ![d] = None]
  /\ vault' = [vault EXCEPT ![d] = None]
  /\ disturbed' = disturbed \cup {d}
  /\ UNCHANGED <<ledgerVars, descriptors>>

\* The same, the other way: files of a dump that has none any more come back.
FilesReappear(d) ==
  /\ d \notin disturbed
  /\ \/ /\ dumps[d].phase = "rejected" /\ dumps[d].blob = "none"
        /\ staging' = [staging EXCEPT ![d] = 0]
        /\ UNCHANGED vault
     \/ /\ dumps[d].phase = "deleted"
        /\ vault' = [vault EXCEPT ![d] = 0]
        /\ UNCHANGED staging
  /\ disturbed' = disturbed \cup {d}
  /\ UNCHANGED <<ledgerVars, descriptors>>

-----------------------------------------------------------------------------
(* The engine under arbitrary callers.                                     *)

CaseStep(c) ==
  \/ CreateCase(c) \/ StartInvestigation(c) \/ WaitForCustomer(c)
  \/ ResumeInvestigation(c) \/ ResolveCase(c) \/ CloseCase(c)

GrantStep(g) ==
  \/ \E c \in Cases, n \in 1..MaxUploads : IssueGrant(g, c, n)
  \/ RevokeGrant(g) \/ ExpireGrant(g) \/ GrantDeadlinePasses(g)
  \/ \E d \in Dumps : BeginUpload(g, d)
  \/ \E d \in Dumps : BeginUploadInterrupted(g, d)

IntakeStep(d) ==
  \/ AppendChunk(d) \/ SyncAndClose(d)
  \/ \E k \in Chunks : SealUpload(d, k)
  \/ FailUpload(d) \/ FailUploadInterrupted(d)
  \/ PromoteObject(d) \/ PromoteObjectInterrupted(d)
  \/ MarkQuarantined(d) \/ AcceptDump(d) \/ RejectDump(d)

CustodyStep(d) ==
  \/ SetRetention(d) \/ PurgeDeadlinePasses(d)
  \/ BeginPurge(d) \/ FinishPurge(d) \/ FinishPurgeInterrupted(d)
  \/ \E a \in Analyses, form \in {"summary", "rich"} : RecordAnalysis(d, a, form)

RepairStep(d) ==
  \/ RemoveOrphan(d) \/ RemoveRejectedResidue(d) \/ RemoveTombstoneResidue(d)

OutsideStep(d) == FilesVanish(d) \/ FilesReappear(d)

EngineNext ==
  \/ \E c \in Cases : CaseStep(c)
  \/ \E g \in Grants : GrantStep(g)
  \/ \E d \in Dumps : IntakeStep(d) \/ CustodyStep(d) \/ RepairStep(d) \/ OutsideStep(d)
  \/ DescriptorsDropped

EngineSpec == EngineInit /\ [][EngineNext]_engineVars

-----------------------------------------------------------------------------
(* Properties.                                                             *)

\* Every column holds a value its table allows.
TypeOK ==
  /\ caseStatus \in [Cases -> CaseStatuses \cup {"absent"}]
  /\ grants \in [Grants -> GrantRow]
  /\ dumps \in [Dumps -> DumpRow]
  /\ analyses \in [Dumps -> [Analyses -> AnalysisStates]]
  /\ staging \in [Dumps -> Objects]
  /\ descriptors \in SUBSET Dumps
  /\ vault \in [Dumps -> Objects]
  /\ disturbed \in SUBSET Dumps

\* phase and blob_state of a row fit together.
RowCoherent(row) ==
  /\ row.phase = "absent" => row = NoDump
  /\ row.phase = "receiving" => row.blob = "staging"
  /\ row.phase = "sealed" => row.blob \in {"staging", "vault"}
  /\ row.phase \in {"quarantined", "available"} => row.blob = "vault"
  /\ row.phase = "deleted" => row.blob = "none"
  /\ row.phase \in {"sealed", "quarantined", "available"} => row.digest # None

\* The files the row of an undisturbed dump promises.
FilesAsPromised(d) ==
  LET row == dumps[d] IN
  /\ row.phase \in {"absent", "receiving"} => vault[d] = None
  /\ row.phase = "sealed" /\ row.blob = "staging" => (staging[d] = None) # (vault[d] = None)
  /\ row.phase \in {"sealed", "quarantined", "available", "rejected"} /\ row.blob = "vault"
       => vault[d] # None /\ staging[d] = None
  /\ row.phase \in {"rejected", "deleting", "deleted"} => staging[d] = None
  /\ row.blob = "none" => vault[d] = None

\* The ledger and the vault agree at every point a crash can fall on: a row
\* beyond sealed has its bytes in the vault and nowhere else, a sealed row has
\* exactly one file whichever half of the promotion is done, and a rejected
\* transfer or a tombstone has none.
LedgerMatchesVault ==
  \A d \in Dumps : RowCoherent(dumps[d]) /\ (d \notin disturbed => FilesAsPromised(d))

\* A dump that can be downloaded is available, was accepted by an inspection
\* of well-formed bytes and, unless its files were disturbed, has them.
DownloadableIsProven ==
  \A d \in Dumps :
    /\ dumps[d].downloadable <=> dumps[d].phase = "available"
    /\ dumps[d].downloadable =>
         /\ dumps[d].validation = "valid" /\ d \in WellFormed
         /\ d \in disturbed \/ vault[d] # None

UploadsOf(g) == {d \in Dumps : dumps[d].grant = g}

SlotsAccountedOf(g) ==
  /\ grants[g].uploadsUsed = Cardinality(UploadsOf(g))
  /\ grants[g].uploadsUsed <= grants[g].maxUploads
  /\ grants[g].state = "issued" => SlotLeft(g)
  /\ grants[g].state = "consumed" => ~SlotLeft(g)
  /\ grants[g].consumedBy \in (IF UploadsOf(g) = {} THEN {None} ELSE UploadsOf(g))

\* The slot counter of a grant is the number of uploads begun with it, it
\* never passes max_uploads, the grant is consumed exactly when the last slot
\* is taken, and consumed_by names one of those uploads if there are any.
SlotsAccounted == \A g \in Grants : SlotsAccountedOf(g)

\* docs/architecture.md: "a grant secret is accepted by at most one successful
\* beginUpload".  Grants with several slots accept one upload per slot.
OneUploadPerGrant == \A g \in Grants : Cardinality(UploadsOf(g)) <= 1

\* A closed case has no live grant, whatever was issued before it closed and
\* however often it was reopened; every grant belongs to a case that exists.
ClosedCaseIsSealedOff ==
  \A g \in Grants :
    /\ grants[g].state = "issued" => caseStatus[grants[g].case] # "closed"
    /\ grants[g].state # "absent" => caseStatus[grants[g].case] # "absent"

\* A dump is filed under the case of the grant it came in with.
DumpInGrantsCase ==
  \A d \in Dumps :
    dumps[d].phase # "absent" =>
      /\ dumps[d].grant \in Grants
      /\ dumps[d].case = grants[dumps[d].grant].case

\* Analyses exist only while the bytes they were made from are still in
\* custody: none before a dump is available, none after its tombstone.
AnalysesFollowBytes ==
  \A d \in Dumps :
    analyses[d] # NoAnalyses => dumps[d].phase \in {"available", "deleting"}

\* A grant that left the state issued never changes again.
TerminalGrantIsFinal ==
  [][\A g \in Grants :
       grants[g].state \in TokenStates \ {"issued"} =>
         [grants'[g] EXCEPT !.expiresAt = grants[g].expiresAt] = grants[g]]_engineVars

VaultKept(d) ==
  vault[d] # None /\ vault'[d] # vault[d] =>
    \/ vault'[d] = None /\ dumps[d].phase \in {"deleting", "deleted"}
    \/ d \in disturbed'

\* Bytes in the vault are immutable, and the program removes them only under
\* a row that is already non-downloadable on its way to a tombstone.
VaultIsImmutable == [][\A d \in Dumps : VaultKept(d)]_engineVars

-----------------------------------------------------------------------------
(* The abstract view of the engine's state.                                *)

ViewOf(phase) ==
  CASE phase = "absent" -> "none"
    [] phase \in {"receiving", "sealed", "quarantined"} -> "inbound"
    [] phase = "available" -> "published"
    [] phase = "rejected" -> "refused"
    [] phase \in {"deleting", "deleted"} -> "withdrawn"

\* AuthorizeDownload looks at the vault and at the row.
AuthorizeDownload(d) ==
  vault[d] # None /\ dumps[d].phase = "available" /\ dumps[d].downloadable

Custody ==
  INSTANCE DumpCustody WITH view <- [d \in Dumps |-> ViewOf(dumps[d].phase)],
                            readable <- [d \in Dumps |-> AuthorizeDownload(d)]

\* The engine implements the abstract custody of dumps: published or refused
\* once, withdrawn for good, and readable only from its publication on.
CustodyKept == Custody!Spec

\* Cases keep their dumps apart and a closed one admits nothing: no live grant
\* under a closed case, and each dump under the case of its grant (closeCase,
\* issueGrant, beginUpload).
CaseIsolation == ClosedCaseIsSealedOff /\ DumpInGrantsCase
=============================================================================
