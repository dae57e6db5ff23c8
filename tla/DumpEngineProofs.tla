-------------------------- MODULE DumpEngineProofs --------------------------
(***************************************************************************)
(* Proofs about DumpEngine, for any sets of cases, grants and dumps, any   *)
(* slot limit and any upload size.                                         *)
(***************************************************************************)
EXTENDS DumpEngine, FiniteSetTheorems, TLAPS

\* Each UPDATE keeps a row a row, and sets the columns it names.
LEMMA TakeSlotType ==
  ASSUME NEW row \in GrantRow, NEW d \in Dumps, row.uploadsUsed < row.maxUploads
  PROVE  TakeSlot(row, d) \in GrantRow
<1>1. row.uploadsUsed + 1 \in 0..MaxUploads
  BY BoundsAreNat DEF GrantRow
<1>2. QED
  BY <1>1 DEF TakeSlot, GrantRow, TokenStates

LEMMA ReceivingType ==
  ASSUME NEW c \in Cases \cup {None}, NEW g \in Grants
  PROVE  ReceivingRow(c, g) \in DumpRow
BY DEF ReceivingRow, NoDump, DumpRow, DumpPhases, BlobStates, ValidationStates, Objects, Deadlines

LEMMA RowTypes ==
  ASSUME NEW row \in DumpRow
  PROVE  /\ \A k \in Chunks : SealedRow(row, k) \in DumpRow
         /\ FailedRow(row) \in DumpRow
         /\ PromotedRow(row) \in DumpRow
         /\ QuarantinedRow(row) \in DumpRow
         /\ AcceptedRow(row) \in DumpRow
         /\ RejectedRow(row) \in DumpRow
         /\ DeletingRow(row) \in DumpRow
         /\ DeletedRow(row) \in DumpRow
         /\ \A t \in Deadlines : DatedRow(row, t) \in DumpRow
<1> USE DEF DumpRow, DumpPhases, BlobStates, ValidationStates
<1>1. \A k \in Chunks : SealedRow(row, k) \in DumpRow
  BY DEF SealedRow, Objects
<1>2. FailedRow(row) \in DumpRow
  BY DEF FailedRow
<1>3. PromotedRow(row) \in DumpRow /\ QuarantinedRow(row) \in DumpRow
  BY DEF PromotedRow, QuarantinedRow
<1>4. AcceptedRow(row) \in DumpRow /\ RejectedRow(row) \in DumpRow
  BY DEF AcceptedRow, RejectedRow
<1>5. DeletingRow(row) \in DumpRow /\ DeletedRow(row) \in DumpRow
  BY DEF DeletingRow, DeletedRow
<1>6. \A t \in Deadlines : DatedRow(row, t) \in DumpRow
  BY DEF DatedRow
<1>7. QED
  BY <1>1, <1>2, <1>3, <1>4, <1>5, <1>6

\* A step that stores a row of the right type keeps the dumps table typed.
LEMMA StoreType ==
  ASSUME dumps \in [Dumps -> DumpRow], NEW d \in Dumps, NEW row \in DumpRow,
         NEW expected, TransitionDump(d, expected, row)
  PROVE  dumps' \in [Dumps -> DumpRow]
BY DEF TransitionDump

LEMMA TypeCase ==
  ASSUME TypeOK, NEW c \in Cases, CaseStep(c)
  PROVE  TypeOK'
<1> USE DEF TypeOK, vaultVars
<1>1. CASE CreateCase(c)
  BY <1>1 DEF CreateCase, CaseStatuses
<1>2. CASE StartInvestigation(c)
  BY <1>2 DEF StartInvestigation, TransitionCase, CaseStatuses
<1>3. CASE WaitForCustomer(c)
  BY <1>3 DEF WaitForCustomer, TransitionCase, CaseStatuses
<1>4. CASE ResumeInvestigation(c)
  BY <1>4 DEF ResumeInvestigation, TransitionCase, CaseStatuses
<1>5. CASE ResolveCase(c)
  BY <1>5 DEF ResolveCase, TransitionCase, CaseStatuses
<1>6. CASE CloseCase(c)
  <2>1. ASSUME NEW g \in Grants PROVE [grants[g] EXCEPT !.state = "revoked"] \in GrantRow
    BY DEF GrantRow, TokenStates
  <2>2. grants' \in [Grants -> GrantRow]
    BY <1>6, <2>1 DEF CloseCase
  <2>3. QED
    BY <1>6, <2>2 DEF CloseCase, CaseStatuses
<1>7. QED
  BY <1>1, <1>2, <1>3, <1>4, <1>5, <1>6 DEF CaseStep

LEMMA TypeGrant ==
  ASSUME TypeOK, NEW g \in Grants, GrantStep(g)
  PROVE  TypeOK'
<1> USE DEF TypeOK, vaultVars
<1>1. CASE \E c \in Cases, n \in 1..MaxUploads : IssueGrant(g, c, n)
  <2>1. PICK c \in Cases, n \in 1..MaxUploads : IssueGrant(g, c, n)
    BY <1>1
  <2>2. [state |-> "issued", case |-> c, maxUploads |-> n, uploadsUsed |-> 0,
         consumedBy |-> None, expiresAt |-> "future"] \in GrantRow
    BY BoundsAreNat DEF GrantRow, TokenStates, Deadlines
  <2>3. QED
    BY <2>1, <2>2 DEF IssueGrant
<1>2. CASE \E s \in TokenStates : TransitionGrant(g, s)
  <2>1. \A s \in TokenStates : [grants[g] EXCEPT !.state = s] \in GrantRow
    BY DEF GrantRow
  <2>2. QED
    BY <1>2, <2>1 DEF TransitionGrant
<1>3. CASE RevokeGrant(g) \/ ExpireGrant(g)
  BY <1>2, <1>3 DEF RevokeGrant, ExpireGrant, TokenStates
<1>4. CASE GrantDeadlinePasses(g)
  <2>1. [grants[g] EXCEPT !.expiresAt = "due"] \in GrantRow
    BY DEF GrantRow, Deadlines
  <2>2. QED
    BY <1>4, <2>1 DEF GrantDeadlinePasses
<1>5. CASE \E d \in Dumps : BeginUpload(g, d)
  <2>1. PICK d \in Dumps : BeginUpload(g, d)
    BY <1>5
  <2>2. TakeSlot(grants[g], d) \in GrantRow
    BY <2>1, TakeSlotType DEF BeginUpload, SlotLeft
  <2>3. ReceivingRow(grants[g].case, g) \in DumpRow
    BY ReceivingType DEF GrantRow
  <2>4. staging' \in [Dumps -> Objects]
    BY <2>1, BoundsAreNat DEF BeginUpload, CreateStaging, Objects, Chunks
  <2>5. QED
    BY <2>1, <2>2, <2>3, <2>4 DEF BeginUpload, CreateStaging
<1>6. CASE \E d \in Dumps : BeginUploadInterrupted(g, d)
  BY <1>6, BoundsAreNat DEF BeginUploadInterrupted, CreateStaging, Objects, Chunks, ledgerVars
<1>7. QED
  BY <1>1, <1>3, <1>4, <1>5, <1>6 DEF GrantStep

LEMMA TypeIntake ==
  ASSUME TypeOK, NEW d \in Dumps, IntakeStep(d)
  PROVE  TypeOK'
<1> USE DEF TypeOK, vaultVars, ledgerVars
<1> dumps[d] \in DumpRow
  OBVIOUS
<1>1. CASE AppendChunk(d)
  <2>1. staging[d] + 1 \in Objects
    BY <1>1, BoundsAreNat DEF AppendChunk, Objects, Chunks
  <2>2. QED
    BY <1>1, <2>1 DEF AppendChunk
<1>2. CASE SyncAndClose(d)
  BY <1>2 DEF SyncAndClose
<1>3. CASE \E k \in Chunks : SealUpload(d, k)
  BY <1>3, RowTypes, StoreType DEF SealUpload
<1>4. CASE FailUpload(d)
  BY <1>4, RowTypes, StoreType DEF FailUpload, RemoveStaging, Objects
<1>5. CASE FailUploadInterrupted(d)
  BY <1>5 DEF FailUploadInterrupted, RemoveStaging, Objects
<1>6. CASE PromoteObject(d)
  BY <1>6, RowTypes, StoreType DEF PromoteObject, Promote, Objects
<1>7. CASE PromoteObjectInterrupted(d)
  BY <1>7 DEF PromoteObjectInterrupted, Promote, Objects
<1>8. CASE MarkQuarantined(d)
  BY <1>8, RowTypes, StoreType DEF MarkQuarantined
<1>9. CASE AcceptDump(d)
  BY <1>9, RowTypes, StoreType DEF AcceptDump
<1>10. CASE RejectDump(d)
  BY <1>10, RowTypes, StoreType DEF RejectDump
<1>11. QED
  BY <1>1, <1>2, <1>3, <1>4, <1>5, <1>6, <1>7, <1>8, <1>9, <1>10 DEF IntakeStep

LEMMA TypeCustody ==
  ASSUME TypeOK, NEW d \in Dumps, CustodyStep(d)
  PROVE  TypeOK'
<1> USE DEF TypeOK, vaultVars, ledgerVars
<1> dumps[d] \in DumpRow
  OBVIOUS
<1>1. CASE SetRetention(d)
  BY <1>1, RowTypes, StoreType DEF SetRetention, Deadlines
<1>2. CASE PurgeDeadlinePasses(d)
  BY <1>2, RowTypes DEF PurgeDeadlinePasses, Deadlines
<1>3. CASE BeginPurge(d)
  BY <1>3, RowTypes, StoreType DEF BeginPurge
<1>4. CASE FinishPurge(d)
  BY <1>4, RowTypes, StoreType DEF FinishPurge, RemoveObject, Objects, NoAnalyses, AnalysisStates
<1>5. CASE FinishPurgeInterrupted(d)
  BY <1>5 DEF FinishPurgeInterrupted, RemoveObject, Objects
<1>6. CASE \E a \in Analyses, form \in {"summary", "rich"} : RecordAnalysis(d, a, form)
  BY <1>6 DEF RecordAnalysis, AnalysisStates
<1>7. QED
  BY <1>1, <1>2, <1>3, <1>4, <1>5, <1>6 DEF CustodyStep

LEMMA TypeRest ==
  ASSUME TypeOK, NEW d \in Dumps, RepairStep(d) \/ OutsideStep(d)
  PROVE  TypeOK'
<1> USE DEF TypeOK, ledgerVars
<1>1. CASE RemoveOrphan(d) \/ RemoveRejectedResidue(d)
  BY <1>1 DEF RemoveOrphan, RemoveRejectedResidue, RemoveStaging, Objects
<1>2. CASE RemoveTombstoneResidue(d)
  BY <1>2 DEF RemoveTombstoneResidue, RemoveObject, Objects
<1>3. CASE FilesVanish(d)
  BY <1>3 DEF FilesVanish, Objects
<1>4. CASE FilesReappear(d)
  <2>1. 0 \in Objects
    BY BoundsAreNat DEF Objects, Chunks
  <2>2. QED
    BY <1>4, <2>1 DEF FilesReappear
<1>5. QED
  BY <1>1, <1>2, <1>3, <1>4 DEF RepairStep, OutsideStep

LEMMA TypeStep == TypeOK /\ [EngineNext]_engineVars => TypeOK'
<1> SUFFICES ASSUME TypeOK, [EngineNext]_engineVars PROVE TypeOK'
  OBVIOUS
<1>1. CASE DescriptorsDropped
  BY <1>1 DEF DescriptorsDropped, TypeOK, ledgerVars
<1>2. CASE UNCHANGED engineVars
  BY <1>2 DEF engineVars, TypeOK
<1>3. QED
  BY <1>1, <1>2, TypeCase, TypeGrant, TypeIntake, TypeCustody, TypeRest DEF EngineNext

LEMMA TypeInit == EngineInit => TypeOK
BY BoundsAreNat DEF EngineInit, TypeOK, CaseStatuses, GrantRow, TokenStates, NoGrant, Deadlines,
   DumpRow, DumpPhases, BlobStates, ValidationStates, NoDump, Objects, NoAnalyses, AnalysisStates

\* Whatever commands arrive and wherever they are interrupted, every column
\* of the ledger and every object of the vault stays within its domain: no
\* grant counts past its slot limit and no file grows past the byte limit.
THEOREM TypeCorrect == EngineSpec => []TypeOK
<1>1. QED
  BY TypeInit, TypeStep, PTL DEF EngineSpec

-----------------------------------------------------------------------------
(* The ledger and the vault agree.                                         *)

\* What each UPDATE leaves in the columns the invariants look at.
LEMMA SealedFields ==
  ASSUME NEW row \in DumpRow, NEW k \in Chunks
  PROVE  LET r == SealedRow(row, k) IN
         /\ r.phase = "sealed" /\ r.blob = row.blob /\ r.digest = k /\ r.grant = row.grant
         /\ r.case = row.case /\ r.downloadable = row.downloadable /\ r.validation = row.validation
BY DEF DumpRow, SealedRow

LEMMA FailedFields ==
  ASSUME NEW row \in DumpRow
  PROVE  LET r == FailedRow(row) IN
         /\ r.phase = "rejected" /\ r.blob = "none" /\ r.digest = row.digest /\ r.grant = row.grant
         /\ r.case = row.case /\ r.downloadable = FALSE /\ r.validation = "transfer-failed"
BY DEF DumpRow, FailedRow

LEMMA PromotedFields ==
  ASSUME NEW row \in DumpRow
  PROVE  LET r == PromotedRow(row) IN
         /\ r.phase = row.phase /\ r.blob = "vault" /\ r.digest = row.digest /\ r.grant = row.grant
         /\ r.case = row.case /\ r.downloadable = row.downloadable /\ r.validation = row.validation
BY DEF DumpRow, PromotedRow

LEMMA QuarantinedFields ==
  ASSUME NEW row \in DumpRow
  PROVE  LET r == QuarantinedRow(row) IN
         /\ r.phase = "quarantined" /\ r.blob = row.blob /\ r.digest = row.digest /\ r.grant = row.grant
         /\ r.case = row.case /\ r.downloadable = row.downloadable /\ r.validation = row.validation
BY DEF DumpRow, QuarantinedRow

LEMMA AcceptedFields ==
  ASSUME NEW row \in DumpRow
  PROVE  LET r == AcceptedRow(row) IN
         /\ r.phase = "available" /\ r.blob = row.blob /\ r.digest = row.digest /\ r.grant = row.grant
         /\ r.case = row.case /\ r.downloadable = TRUE /\ r.validation = "valid"
BY DEF DumpRow, AcceptedRow

LEMMA RejectedFields ==
  ASSUME NEW row \in DumpRow
  PROVE  LET r == RejectedRow(row) IN
         /\ r.phase = "rejected" /\ r.blob = row.blob /\ r.digest = row.digest /\ r.grant = row.grant
         /\ r.case = row.case /\ r.downloadable = FALSE /\ r.validation = "invalid"
BY DEF DumpRow, RejectedRow

LEMMA DeletingFields ==
  ASSUME NEW row \in DumpRow
  PROVE  LET r == DeletingRow(row) IN
         /\ r.phase = "deleting" /\ r.blob = row.blob /\ r.digest = row.digest /\ r.grant = row.grant
         /\ r.case = row.case /\ r.downloadable = FALSE /\ r.validation = row.validation
BY DEF DumpRow, DeletingRow

LEMMA DeletedFields ==
  ASSUME NEW row \in DumpRow
  PROVE  LET r == DeletedRow(row) IN
         /\ r.phase = "deleted" /\ r.blob = "none" /\ r.digest = row.digest /\ r.grant = row.grant
         /\ r.case = row.case /\ r.downloadable = FALSE /\ r.validation = row.validation
BY DEF DumpRow, DeletedRow

LEMMA DatedFields ==
  ASSUME NEW row \in DumpRow, NEW t \in Deadlines
  PROVE  LET r == DatedRow(row, t) IN
         /\ r.phase = row.phase /\ r.purgeAt = t /\ r.blob = row.blob /\ r.digest = row.digest
         /\ r.grant = row.grant /\ r.case = row.case
         /\ r.downloadable = row.downloadable /\ r.validation = row.validation
BY DEF DumpRow, DatedRow

\* The invariants of one dump.
DumpSafe(d) ==
  /\ RowCoherent(dumps[d])
  /\ d \notin disturbed => FilesAsPromised(d)
  /\ dumps[d].downloadable <=> dumps[d].phase = "available"
  /\ dumps[d].downloadable =>
       /\ dumps[d].validation = "valid" /\ d \in WellFormed
       /\ d \in disturbed \/ vault[d] # None

LEMMA SafeMeans ==
  (\A d \in Dumps : DumpSafe(d)) <=> LedgerMatchesVault /\ DownloadableIsProven
BY DEF DumpSafe, LedgerMatchesVault, DownloadableIsProven

\* A step that leaves the row and the files of a dump alone keeps it safe.
LEMMA SafeElsewhere ==
  ASSUME NEW e \in Dumps, DumpSafe(e), dumps'[e] = dumps[e], staging'[e] = staging[e],
         vault'[e] = vault[e], e \in disturbed' <=> e \in disturbed
  PROVE  DumpSafe(e)'
BY DEF DumpSafe, RowCoherent, FilesAsPromised

\* Commands on cases and grants touch no dump, except the one an upload begins.
LEMMA SafeGrant ==
  ASSUME TypeOK, \A e \in Dumps : DumpSafe(e), NEW g \in Grants, GrantStep(g)
  PROVE  \A e \in Dumps : DumpSafe(e)'
<1> SUFFICES ASSUME NEW e \in Dumps PROVE DumpSafe(e)'
  OBVIOUS
<1> USE DEF TypeOK
<1>1. CASE \E d \in Dumps : BeginUpload(g, d)
  <2>1. PICK d \in Dumps : BeginUpload(g, d)
    BY <1>1
  <2>2. CASE e = d
    <3>1. /\ dumps'[d].phase = "receiving" /\ dumps'[d].blob = "staging"
          /\ dumps'[d].downloadable = FALSE
      BY <2>1 DEF BeginUpload, ReceivingRow, NoDump
    <3>2. vault'[d] = None
      BY <2>1 DEF BeginUpload, FreshDump, CreateStaging
    <3>3. QED
      BY <2>2, <3>1, <3>2 DEF DumpSafe, RowCoherent, FilesAsPromised
  <2>3. CASE e # d
    BY <2>1, <2>3, SafeElsewhere DEF BeginUpload, CreateStaging
  <2>4. QED
    BY <2>2, <2>3
<1>2. CASE \E d \in Dumps : BeginUploadInterrupted(g, d)
  <2>1. PICK d \in Dumps : BeginUploadInterrupted(g, d)
    BY <1>2
  <2>2. dumps'[e] = dumps[e] /\ vault'[e] = vault[e] /\ disturbed' = disturbed
    BY <2>1 DEF BeginUploadInterrupted, CreateStaging, ledgerVars
  <2>3. CASE e = d
    BY <2>1, <2>2, <2>3 DEF DumpSafe, RowCoherent, FilesAsPromised, BeginUploadInterrupted,
       FreshDump, NoDump
  <2>4. CASE e # d
    BY <2>1, <2>2, <2>4, SafeElsewhere DEF BeginUploadInterrupted, CreateStaging
  <2>5. QED
    BY <2>3, <2>4
<1>3. CASE \/ \E c \in Cases, n \in 1..MaxUploads : IssueGrant(g, c, n)
           \/ RevokeGrant(g) \/ ExpireGrant(g) \/ GrantDeadlinePasses(g)
  BY <1>3, SafeElsewhere DEF IssueGrant, RevokeGrant, ExpireGrant, TransitionGrant,
     GrantDeadlinePasses, vaultVars
<1>4. QED
  BY <1>1, <1>2, <1>3 DEF GrantStep

LEMMA SafeCase ==
  ASSUME \A e \in Dumps : DumpSafe(e), NEW c \in Cases, CaseStep(c)
  PROVE  \A e \in Dumps : DumpSafe(e)'
<1>1. UNCHANGED <<dumps, vaultVars, disturbed>>
  BY DEF CaseStep, CreateCase, StartInvestigation, WaitForCustomer, ResumeInvestigation,
     ResolveCase, TransitionCase, CloseCase
<1>2. QED
  BY <1>1, SafeElsewhere DEF vaultVars

\* Every other command names the one dump it works on.
LEMMA OneDumpStep ==
  ASSUME TypeOK, NEW d \in Dumps,
         IntakeStep(d) \/ CustodyStep(d) \/ RepairStep(d) \/ OutsideStep(d),
         NEW e \in Dumps \ {d}
  PROVE  /\ dumps'[e] = dumps[e] /\ staging'[e] = staging[e] /\ vault'[e] = vault[e]
         /\ e \in disturbed' <=> e \in disturbed
<1> USE DEF TypeOK, ledgerVars, vaultVars
<1>1. CASE IntakeStep(d)
  BY <1>1 DEF IntakeStep, AppendChunk, SyncAndClose, SealUpload, FailUpload,
     FailUploadInterrupted, PromoteObject, PromoteObjectInterrupted, MarkQuarantined, AcceptDump,
     RejectDump, TransitionDump, RemoveStaging, Promote
<1>2. CASE CustodyStep(d)
  BY <1>2 DEF CustodyStep, SetRetention, PurgeDeadlinePasses, BeginPurge, FinishPurge,
     FinishPurgeInterrupted, RecordAnalysis, TransitionDump, RemoveObject
<1>3. CASE RepairStep(d)
  BY <1>3 DEF RepairStep, RemoveOrphan, RemoveRejectedResidue, RemoveTombstoneResidue,
     RemoveStaging, RemoveObject
<1>4. CASE OutsideStep(d)
  BY <1>4 DEF OutsideStep, FilesVanish, FilesReappear
<1>5. QED
  BY <1>1, <1>2, <1>3, <1>4

LEMMA SafeIntake ==
  ASSUME TypeOK, NEW d \in Dumps, DumpSafe(d), IntakeStep(d)
  PROVE  DumpSafe(d)'
<1> USE DEF TypeOK, ledgerVars, vaultVars, DumpSafe, RowCoherent, FilesAsPromised
<1> dumps[d] \in DumpRow
  OBVIOUS
<1>1. CASE AppendChunk(d)
  BY <1>1, NoneIsFresh DEF AppendChunk, NoDump
<1>2. CASE SyncAndClose(d)
  BY <1>2 DEF SyncAndClose
<1>3. CASE \E k \in Chunks : SealUpload(d, k)
  <2>1. PICK k \in Chunks : SealUpload(d, k)
    BY <1>3
  <2>2. dumps'[d] = SealedRow(dumps[d], k) /\ dumps[d].phase = "receiving"
    BY <2>1 DEF SealUpload, TransitionDump
  <2>3. k # None
    BY NoneIsFresh DEF Chunks
  <2>4. /\ dumps'[d].phase = "sealed" /\ dumps'[d].blob = "staging" /\ dumps'[d].digest # None
        /\ dumps'[d].downloadable = FALSE
    BY <2>2, <2>3, SealedFields
  <2>5. staging[d] # None /\ UNCHANGED <<staging, vault, disturbed>>
    BY <2>1 DEF SealUpload
  <2>6. QED
    BY <2>2, <2>4, <2>5
<1>4. CASE FailUpload(d)
  <2>1. dumps'[d] = FailedRow(dumps[d]) /\ dumps[d].phase = "receiving"
    BY <1>4 DEF FailUpload, TransitionDump
  <2>2. QED
    BY <1>4, <2>1, FailedFields DEF FailUpload, RemoveStaging
<1>5. CASE FailUploadInterrupted(d)
  BY <1>5 DEF FailUploadInterrupted, RemoveStaging
<1>6. CASE PromoteObject(d)
  <2>1. dumps'[d] = PromotedRow(dumps[d]) /\ dumps[d].phase = "sealed"
    BY <1>6 DEF PromoteObject, TransitionDump
  <2>2. QED
    BY <1>6, <2>1, PromotedFields DEF PromoteObject, Promote
<1>7. CASE PromoteObjectInterrupted(d)
  BY <1>7 DEF PromoteObjectInterrupted, Promote
<1>8. CASE MarkQuarantined(d)
  <2>1. dumps'[d] = QuarantinedRow(dumps[d]) /\ dumps[d].phase = "sealed"
    BY <1>8 DEF MarkQuarantined, TransitionDump
  <2>2. QED
    BY <1>8, <2>1, QuarantinedFields DEF MarkQuarantined
<1>9. CASE AcceptDump(d)
  <2>1. dumps'[d] = AcceptedRow(dumps[d]) /\ dumps[d].phase = "quarantined"
    BY <1>9 DEF AcceptDump, TransitionDump
  <2>2. /\ dumps[d].blob = "vault" /\ dumps[d].digest # None /\ vault[d] # None
        /\ d \in WellFormed /\ UNCHANGED <<staging, vault, disturbed>>
    BY <1>9 DEF AcceptDump, Acceptable
  <2>3. LET r == AcceptedRow(dumps[d]) IN
        /\ r.phase = "available" /\ r.blob = "vault" /\ r.digest # None
        /\ r.downloadable /\ r.validation = "valid"
    BY <2>2, AcceptedFields, Zenon
  <2>4. QED
    BY <2>1, <2>2, <2>3
<1>10. CASE RejectDump(d)
  <2>1. dumps'[d] = RejectedRow(dumps[d]) /\ dumps[d].phase = "quarantined"
    BY <1>10 DEF RejectDump, TransitionDump
  <2>2. QED
    BY <1>10, <2>1, RejectedFields DEF RejectDump
<1>11. QED
  BY <1>1, <1>2, <1>3, <1>4, <1>5, <1>6, <1>7, <1>8, <1>9, <1>10 DEF IntakeStep

LEMMA SafeCustody ==
  ASSUME TypeOK, NEW d \in Dumps, DumpSafe(d), CustodyStep(d)
  PROVE  DumpSafe(d)'
<1> USE DEF TypeOK, ledgerVars, vaultVars, DumpSafe, RowCoherent, FilesAsPromised
<1> dumps[d] \in DumpRow /\ "future" \in Deadlines /\ "due" \in Deadlines
  BY DEF Deadlines
<1>1. CASE SetRetention(d)
  <2>1. dumps'[d] = DatedRow(dumps[d], "future") /\ dumps[d].phase \in {"available", "rejected"}
    BY <1>1 DEF SetRetention, TransitionDump
  <2>2. QED
    BY <1>1, <2>1, DatedFields DEF SetRetention
<1>2. CASE PurgeDeadlinePasses(d)
  <2>1. dumps'[d] = DatedRow(dumps[d], "due") /\ dumps[d] # NoDump
    BY <1>2 DEF PurgeDeadlinePasses, NoDump
  <2>2. QED
    BY <1>2, <2>1, DatedFields DEF PurgeDeadlinePasses
<1>3. CASE BeginPurge(d)
  <2>1. dumps'[d] = DeletingRow(dumps[d]) /\ dumps[d].phase \in {"available", "rejected"}
    BY <1>3 DEF BeginPurge, TransitionDump
  <2>2. QED
    BY <1>3, <2>1, DeletingFields DEF BeginPurge
<1>4. CASE FinishPurge(d)
  <2>1. dumps'[d] = DeletedRow(dumps[d]) /\ dumps[d].phase = "deleting"
    BY <1>4 DEF FinishPurge, TransitionDump
  <2>2. QED
    BY <1>4, <2>1, DeletedFields DEF FinishPurge, RemoveObject
<1>5. CASE FinishPurgeInterrupted(d)
  BY <1>5 DEF FinishPurgeInterrupted, RemoveObject
<1>6. CASE \E a \in Analyses, form \in {"summary", "rich"} : RecordAnalysis(d, a, form)
  BY <1>6 DEF RecordAnalysis
<1>7. QED
  BY <1>1, <1>2, <1>3, <1>4, <1>5, <1>6 DEF CustodyStep

LEMMA SafeRest ==
  ASSUME TypeOK, NEW d \in Dumps, DumpSafe(d), RepairStep(d) \/ OutsideStep(d)
  PROVE  DumpSafe(d)'
<1> USE DEF TypeOK, ledgerVars, DumpSafe, RowCoherent, FilesAsPromised
<1>1. CASE RemoveOrphan(d) \/ RemoveRejectedResidue(d)
  BY <1>1 DEF RemoveOrphan, RemoveRejectedResidue, RemoveStaging, NoDump
<1>2. CASE RemoveTombstoneResidue(d)
  BY <1>2 DEF RemoveTombstoneResidue, RemoveObject
<1>3. CASE FilesVanish(d) \/ FilesReappear(d)
  BY <1>3 DEF FilesVanish, FilesReappear
<1>4. QED
  BY <1>1, <1>2, <1>3 DEF RepairStep, OutsideStep

LEMMA SafeStep ==
  ASSUME TypeOK, \A d \in Dumps : DumpSafe(d), [EngineNext]_engineVars
  PROVE  \A d \in Dumps : DumpSafe(d)'
<1>1. CASE \E d \in Dumps : IntakeStep(d) \/ CustodyStep(d) \/ RepairStep(d) \/ OutsideStep(d)
  <2>1. PICK d \in Dumps : IntakeStep(d) \/ CustodyStep(d) \/ RepairStep(d) \/ OutsideStep(d)
    BY <1>1
  <2>2. DumpSafe(d)'
    BY <2>1, SafeIntake, SafeCustody, SafeRest
  <2>3. ASSUME NEW e \in Dumps \ {d} PROVE DumpSafe(e)'
    BY <2>1, <2>3, OneDumpStep, SafeElsewhere
  <2>4. QED
    BY <2>2, <2>3
<1>2. CASE DescriptorsDropped \/ UNCHANGED engineVars
  <2>1. UNCHANGED <<dumps, staging, vault, disturbed>>
    BY <1>2 DEF DescriptorsDropped, engineVars, ledgerVars
  <2>2. QED
    BY <2>1, SafeElsewhere
<1>3. QED
  BY <1>1, <1>2, SafeCase, SafeGrant DEF EngineNext

LEMMA SafeInit == EngineInit => \A d \in Dumps : DumpSafe(d)
BY DEF EngineInit, DumpSafe, RowCoherent, FilesAsPromised, NoDump

\* Ledger and vault agree after every step of every command, complete or
\* interrupted, for any number of dumps and any order of commands; and only
\* dumps with proven bytes can be downloaded.
THEOREM CustodyIsSound == EngineSpec => [](LedgerMatchesVault /\ DownloadableIsProven)
<1> DEFINE Inv == TypeOK /\ \A d \in Dumps : DumpSafe(d)
<1>1. EngineInit => Inv
  BY TypeInit, SafeInit
<1>2. Inv /\ [EngineNext]_engineVars => Inv'
  BY TypeStep, SafeStep
<1>3. Inv => LedgerMatchesVault /\ DownloadableIsProven
  BY SafeMeans
<1> HIDE DEF Inv
<1>4. QED
  BY <1>1, <1>2, <1>3, PTL DEF EngineSpec

-----------------------------------------------------------------------------
(* Bytes in the vault.                                                     *)

LEMMA VaultStep ==
  ASSUME TypeOK, [EngineNext]_engineVars
  PROVE  \A d \in Dumps : VaultKept(d)
<1> SUFFICES ASSUME NEW e \in Dumps PROVE VaultKept(e)
  OBVIOUS
<1> USE DEF TypeOK, VaultKept, vaultVars, ledgerVars
<1>1. CASE \E c \in Cases : CaseStep(c)
  BY <1>1 DEF CaseStep, CreateCase, StartInvestigation, WaitForCustomer, ResumeInvestigation,
     ResolveCase, TransitionCase, CloseCase
<1>2. CASE \E g \in Grants : GrantStep(g)
  BY <1>2 DEF GrantStep, IssueGrant, RevokeGrant, ExpireGrant, TransitionGrant,
     GrantDeadlinePasses, BeginUpload, BeginUploadInterrupted, CreateStaging
<1>3. ASSUME NEW d \in Dumps, IntakeStep(d) PROVE VaultKept(e)
  BY <1>3 DEF IntakeStep, AppendChunk, SyncAndClose, SealUpload, FailUpload,
     FailUploadInterrupted, PromoteObject, PromoteObjectInterrupted, MarkQuarantined, AcceptDump,
     RejectDump, RemoveStaging, Promote
<1>4. ASSUME NEW d \in Dumps, CustodyStep(d) PROVE VaultKept(e)
  BY <1>4 DEF CustodyStep, SetRetention, PurgeDeadlinePasses, BeginPurge, FinishPurge,
     FinishPurgeInterrupted, RecordAnalysis, TransitionDump, RemoveObject
<1>5. ASSUME NEW d \in Dumps, RepairStep(d) \/ OutsideStep(d) PROVE VaultKept(e)
  BY <1>5 DEF RepairStep, RemoveOrphan, RemoveRejectedResidue, RemoveTombstoneResidue,
     RemoveStaging, RemoveObject, OutsideStep, FilesVanish, FilesReappear
<1>6. CASE DescriptorsDropped \/ UNCHANGED engineVars
  BY <1>6 DEF DescriptorsDropped, engineVars
<1>7. QED
  BY <1>1, <1>2, <1>3, <1>4, <1>5, <1>6 DEF EngineNext

\* Whatever is sent to the engine, bytes once in the vault never change, and
\* only a purge that has already disabled downloads takes them away.
THEOREM VaultImmutable == EngineSpec => VaultIsImmutable
<1>1. TypeOK /\ [EngineNext]_engineVars => [\A d \in Dumps : VaultKept(d)]_engineVars
  BY VaultStep
<1>2. QED
  BY <1>1, TypeCorrect, PTL DEF EngineSpec, VaultIsImmutable

-----------------------------------------------------------------------------
(* Upload slots.                                                           *)

\* SlotsAccounted is not inductive alone: issuing a grant needs that nobody
\* uploaded with it before it existed.
GrantSafe(g) ==
  /\ SlotsAccountedOf(g)
  /\ grants[g].state = "absent" => grants[g] = NoGrant

LEMMA SameUploads ==
  ASSUME \A e \in Dumps : dumps'[e].grant = dumps[e].grant, NEW g \in Grants
  PROVE  UploadsOf(g)' = UploadsOf(g)
BY DEF UploadsOf

LEMMA SlotsElsewhere ==
  ASSUME NEW g \in Grants, GrantSafe(g), UploadsOf(g)' = UploadsOf(g), grants'[g] = grants[g]
  PROVE  GrantSafe(g)'
BY DEF GrantSafe, SlotsAccountedOf, SlotLeft

\* A change of state other than to issued or consumed, or of the deadline.
LEMMA SlotsRetired ==
  ASSUME NEW g \in Grants, GrantSafe(g), UploadsOf(g)' = UploadsOf(g), grants[g].state # "absent",
         grants'[g].state = grants[g].state \/ grants'[g].state \in {"revoked", "expired"},
         grants'[g].uploadsUsed = grants[g].uploadsUsed,
         grants'[g].maxUploads = grants[g].maxUploads,
         grants'[g].consumedBy = grants[g].consumedBy
  PROVE  GrantSafe(g)'
BY DEF GrantSafe, SlotsAccountedOf, SlotLeft

\* Only BeginUpload names a grant in a dump row.
LEMMA GrantOfDumpKept ==
  ASSUME TypeOK, NEW d \in Dumps,
         IntakeStep(d) \/ CustodyStep(d) \/ RepairStep(d) \/ OutsideStep(d)
  PROVE  UNCHANGED grants /\ \A e \in Dumps : dumps'[e].grant = dumps[e].grant
<1> dumps[d] \in DumpRow /\ "future" \in Deadlines /\ "due" \in Deadlines
  BY DEF TypeOK, Deadlines
<1> SUFFICES UNCHANGED grants /\ dumps'[d].grant = dumps[d].grant
  BY OneDumpStep
<1> USE DEF TypeOK, ledgerVars
<1>1. CASE IntakeStep(d)
  <2>1. ASSUME NEW k \in Chunks, SealUpload(d, k)
        PROVE  UNCHANGED grants /\ dumps'[d].grant = dumps[d].grant
    BY <2>1, SealedFields DEF SealUpload, TransitionDump
  <2>2. CASE FailUpload(d)
    BY <2>2, FailedFields DEF FailUpload, TransitionDump
  <2>3. CASE PromoteObject(d)
    BY <2>3, PromotedFields DEF PromoteObject, TransitionDump
  <2>4. CASE MarkQuarantined(d)
    BY <2>4, QuarantinedFields DEF MarkQuarantined, TransitionDump
  <2>5. CASE AcceptDump(d)
    BY <2>5, AcceptedFields DEF AcceptDump, TransitionDump
  <2>6. CASE RejectDump(d)
    BY <2>6, RejectedFields DEF RejectDump, TransitionDump
  <2>7. QED
    BY <1>1, <2>1, <2>2, <2>3, <2>4, <2>5, <2>6 DEF IntakeStep, AppendChunk, SyncAndClose,
       FailUploadInterrupted, PromoteObjectInterrupted
<1>2. CASE CustodyStep(d)
  <2>1. CASE SetRetention(d)
    BY <2>1, DatedFields DEF SetRetention, TransitionDump
  <2>2. CASE PurgeDeadlinePasses(d)
    BY <2>2, DatedFields DEF PurgeDeadlinePasses
  <2>3. CASE BeginPurge(d)
    BY <2>3, DeletingFields DEF BeginPurge, TransitionDump
  <2>4. CASE FinishPurge(d)
    BY <2>4, DeletedFields DEF FinishPurge, TransitionDump
  <2>5. QED
    BY <1>2, <2>1, <2>2, <2>3, <2>4 DEF CustodyStep, FinishPurgeInterrupted, RecordAnalysis
<1>3. CASE RepairStep(d) \/ OutsideStep(d)
  BY <1>3 DEF RepairStep, RemoveOrphan, RemoveRejectedResidue, RemoveTombstoneResidue,
     OutsideStep, FilesVanish, FilesReappear
<1>4. QED
  BY <1>1, <1>2, <1>3

\* One more upload takes one more slot, and the last one consumes the grant.
LEMMA SlotTaken ==
  ASSUME TypeOK, NEW g \in Grants, NEW d \in Dumps, GrantSafe(g), DumpSafe(d), BeginUpload(g, d)
  PROVE  GrantSafe(g)'
<1> DEFINE row == grants[g]
           U == UploadsOf(g)
<1>1. row \in GrantRow /\ grants'[g] = TakeSlot(row, d)
  BY DEF TypeOK, BeginUpload
<1>2. d \notin U
  BY NoneIsFresh DEF BeginUpload, FreshDump, DumpSafe, RowCoherent, NoDump, UploadsOf
<1>3. UploadsOf(g)' = U \cup {d}
  <2>1. dumps'[d].grant = g
    BY DEF TypeOK, BeginUpload, ReceivingRow, NoDump
  <2>2. \A e \in Dumps \ {d} : dumps'[e] = dumps[e]
    BY DEF TypeOK, BeginUpload
  <2>3. QED
    BY <2>1, <2>2 DEF UploadsOf
<1>4. IsFiniteSet(U) /\ U \subseteq Dumps
  BY DumpsFinite, FS_Subset DEF UploadsOf
<1>5. Cardinality(U \cup {d}) = Cardinality(U) + 1
  BY <1>2, <1>4, FS_AddElement
<1>6. /\ row.uploadsUsed \in Nat /\ row.maxUploads \in Nat
      /\ row.uploadsUsed = Cardinality(U) /\ row.uploadsUsed < row.maxUploads
      /\ row.consumedBy \in (IF U = {} THEN {None} ELSE U)
  BY <1>1, BoundsAreNat DEF GrantRow, BeginUpload, GrantSafe, SlotsAccountedOf, SlotLeft
<1>7. /\ grants'[g].uploadsUsed = row.uploadsUsed + 1
      /\ grants'[g].maxUploads = row.maxUploads
      /\ grants'[g].state = IF row.uploadsUsed + 1 >= row.maxUploads THEN "consumed" ELSE "issued"
      /\ grants'[g].consumedBy = IF row.consumedBy = None THEN d ELSE row.consumedBy
  BY <1>1 DEF TakeSlot, GrantRow
<1>8. grants'[g].consumedBy \in U \cup {d}
  BY <1>4, <1>6, <1>7, NoneIsFresh
<1>9. QED
  BY <1>3, <1>5, <1>6, <1>7, <1>8 DEF GrantSafe, SlotsAccountedOf, SlotLeft

LEMMA SlotsGrant ==
  ASSUME TypeOK, \A d \in Dumps : DumpSafe(d), \A g \in Grants : GrantSafe(g),
         NEW g \in Grants, GrantStep(g)
  PROVE  \A h \in Grants : GrantSafe(h)'
<1> SUFFICES ASSUME NEW h \in Grants PROVE GrantSafe(h)'
  OBVIOUS
<1> USE DEF TypeOK
<1>1. CASE \E d \in Dumps : BeginUpload(g, d)
  <2>1. PICK d \in Dumps : BeginUpload(g, d)
    BY <1>1
  <2>2. CASE h = g
    BY <2>1, <2>2, SlotTaken
  <2>3. CASE h # g
    <3>1. grants'[h] = grants[h]
      BY <2>1, <2>3 DEF BeginUpload
    <3>2. dumps'[d].grant = g /\ dumps[d].grant # h
      BY <2>1, NoneIsFresh DEF BeginUpload, FreshDump, DumpSafe, RowCoherent, NoDump, ReceivingRow
    <3>3. \A e \in Dumps \ {d} : dumps'[e] = dumps[e]
      BY <2>1 DEF BeginUpload
    <3>4. UploadsOf(h)' = UploadsOf(h)
      BY <2>3, <3>2, <3>3 DEF UploadsOf
    <3>5. QED
      BY <3>1, <3>4, SlotsElsewhere
  <2>4. QED
    BY <2>2, <2>3
<1>2. CASE ~ \E d \in Dumps : BeginUpload(g, d)
  <2>1. UNCHANGED dumps
    BY <1>2 DEF GrantStep, IssueGrant, RevokeGrant, ExpireGrant, TransitionGrant,
       GrantDeadlinePasses, BeginUploadInterrupted, ledgerVars
  <2>2. UploadsOf(h)' = UploadsOf(h)
    BY <2>1, SameUploads
  <2>3. CASE h # g
    <3>1. grants'[h] = grants[h]
      BY <1>2, <2>3 DEF GrantStep, IssueGrant, RevokeGrant, ExpireGrant, TransitionGrant,
         GrantDeadlinePasses, BeginUploadInterrupted, ledgerVars
    <3>2. QED
      BY <2>2, <3>1, SlotsElsewhere
  <2>4. CASE h = g
    <3>0. grants[g] \in GrantRow
      OBVIOUS
    <3>1. CASE \E c \in Cases, n \in 1..MaxUploads : IssueGrant(g, c, n)
      <4>1. PICK c \in Cases, n \in 1..MaxUploads : IssueGrant(g, c, n)
        BY <3>1
      <4>2. grants[g] = NoGrant
        BY <4>1 DEF IssueGrant, GrantSafe
      <4>3. /\ grants'[g].uploadsUsed = 0 /\ grants'[g].maxUploads = n
            /\ grants'[g].state = "issued" /\ grants'[g].consumedBy = None
        BY <4>1 DEF IssueGrant
      <4>4. n \in Nat /\ 0 < n
        BY BoundsAreNat
      <4>5. Cardinality(UploadsOf(g)) = 0 /\ None \in (IF UploadsOf(g) = {} THEN {None} ELSE UploadsOf(g))
        BY <4>2 DEF GrantSafe, SlotsAccountedOf, NoGrant
      <4>6. QED
        BY <2>2, <2>4, <4>3, <4>4, <4>5 DEF GrantSafe, SlotsAccountedOf, SlotLeft
    <3>2. ASSUME NEW s \in {"revoked", "expired"}, TransitionGrant(g, s) PROVE GrantSafe(g)'
      <4>1. grants'[g] = [grants[g] EXCEPT !.state = s] /\ grants[g].state = "issued"
        BY <3>2 DEF TransitionGrant
      <4>2. /\ grants'[g].state = s /\ grants'[g].uploadsUsed = grants[g].uploadsUsed
            /\ grants'[g].maxUploads = grants[g].maxUploads
            /\ grants'[g].consumedBy = grants[g].consumedBy
        BY <3>0, <4>1 DEF GrantRow
      <4>3. QED
        BY <2>2, <2>4, <4>1, <4>2, SlotsRetired
    <3>3. CASE GrantDeadlinePasses(g)
      <4>1. grants'[g] = [grants[g] EXCEPT !.expiresAt = "due"] /\ grants[g] # NoGrant
        BY <3>3 DEF GrantDeadlinePasses, NoGrant
      <4>2. /\ grants'[g].state = grants[g].state /\ grants'[g].uploadsUsed = grants[g].uploadsUsed
            /\ grants'[g].maxUploads = grants[g].maxUploads
            /\ grants'[g].consumedBy = grants[g].consumedBy
        BY <3>0, <4>1 DEF GrantRow
      <4>3. QED
        BY <2>2, <2>4, <4>1, <4>2, SlotsRetired DEF GrantSafe
    <3>4. CASE \E d \in Dumps : BeginUploadInterrupted(g, d)
      BY <2>2, <2>4, <3>4, SlotsElsewhere DEF BeginUploadInterrupted, ledgerVars
    <3>5. QED
      BY <1>2, <2>4, <3>1, <3>2, <3>3, <3>4 DEF GrantStep, RevokeGrant, ExpireGrant
  <2>5. QED
    BY <2>3, <2>4
<1>3. QED
  BY <1>1, <1>2

LEMMA SlotsCase ==
  ASSUME TypeOK, \A g \in Grants : GrantSafe(g), NEW c \in Cases, CaseStep(c)
  PROVE  \A g \in Grants : GrantSafe(g)'
<1> SUFFICES ASSUME NEW g \in Grants PROVE GrantSafe(g)'
  OBVIOUS
<1>1. UNCHANGED dumps /\ (~CloseCase(c) => UNCHANGED grants)
  BY DEF CaseStep, CreateCase, StartInvestigation, WaitForCustomer, ResumeInvestigation,
     ResolveCase, TransitionCase, CloseCase
<1>2. UploadsOf(g)' = UploadsOf(g)
  BY <1>1, SameUploads
<1>3. CASE CloseCase(c) /\ g \in RevokedAtClose(c)
  <2>1. grants'[g] = [grants[g] EXCEPT !.state = "revoked"] /\ grants[g].state = "issued"
    BY <1>3 DEF CloseCase, RevokedAtClose
  <2>2. /\ grants'[g].state = "revoked" /\ grants'[g].uploadsUsed = grants[g].uploadsUsed
        /\ grants'[g].maxUploads = grants[g].maxUploads
        /\ grants'[g].consumedBy = grants[g].consumedBy
    BY <2>1 DEF TypeOK, GrantRow
  <2>3. QED
    BY <1>2, <2>1, <2>2, SlotsRetired
<1>4. CASE ~(CloseCase(c) /\ g \in RevokedAtClose(c))
  BY <1>1, <1>2, <1>4, SlotsElsewhere DEF CloseCase
<1>5. QED
  BY <1>3, <1>4

LEMMA SlotsStep ==
  ASSUME TypeOK, \A d \in Dumps : DumpSafe(d), \A g \in Grants : GrantSafe(g),
         [EngineNext]_engineVars
  PROVE  \A g \in Grants : GrantSafe(g)'
<1>1. CASE \/ \E d \in Dumps : IntakeStep(d) \/ CustodyStep(d) \/ RepairStep(d) \/ OutsideStep(d)
           \/ DescriptorsDropped \/ UNCHANGED engineVars
  <2>1. UNCHANGED grants /\ \A e \in Dumps : dumps'[e].grant = dumps[e].grant
    BY <1>1, GrantOfDumpKept DEF DescriptorsDropped, engineVars, ledgerVars
  <2>2. QED
    BY <2>1, SameUploads, SlotsElsewhere
<1>2. QED
  BY <1>1, SlotsCase, SlotsGrant DEF EngineNext

LEMMA SlotsInit == EngineInit => \A g \in Grants : GrantSafe(g)
<1> SUFFICES ASSUME EngineInit, NEW g \in Grants PROVE GrantSafe(g)
  OBVIOUS
<1>1. UploadsOf(g) = {}
  BY NoneIsFresh DEF EngineInit, UploadsOf, NoDump
<1>2. Cardinality(UploadsOf(g)) = 0
  BY <1>1, FS_EmptySet
<1>3. QED
  BY <1>1, <1>2 DEF EngineInit, GrantSafe, SlotsAccountedOf, SlotLeft, NoGrant

\* For any slot limit and any number of concurrent uploads, a grant is used
\* exactly as often as its counter says and never beyond its limit.
THEOREM SlotsAreAccounted == EngineSpec => []SlotsAccounted
<1> DEFINE Inv == TypeOK /\ (\A d \in Dumps : DumpSafe(d)) /\ \A g \in Grants : GrantSafe(g)
<1>1. EngineInit => Inv
  BY TypeInit, SafeInit, SlotsInit
<1>2. Inv /\ [EngineNext]_engineVars => Inv'
  BY TypeStep, SafeStep, SlotsStep
<1>3. Inv => SlotsAccounted
  BY DEF SlotsAccounted, GrantSafe
<1> HIDE DEF Inv
<1>4. QED
  BY <1>1, <1>2, <1>3, PTL DEF EngineSpec

-----------------------------------------------------------------------------
(* What a command on a dump can do to its row.                             *)

PhaseMoves ==
  {<<"receiving", "sealed">>, <<"receiving", "rejected">>, <<"sealed", "quarantined">>,
   <<"quarantined", "available">>, <<"quarantined", "rejected">>,
   <<"available", "deleting">>, <<"rejected", "deleting">>, <<"deleting", "deleted">>}

\* The phase stays or moves along the lifecycle, a row keeps its case and its
\* grant, and neither cases nor grants change.
LEMMA RowMoves ==
  ASSUME TypeOK, NEW d \in Dumps,
         IntakeStep(d) \/ CustodyStep(d) \/ RepairStep(d) \/ OutsideStep(d)
  PROVE  /\ UNCHANGED <<caseStatus, grants>>
         /\ dumps'[d].case = dumps[d].case /\ dumps'[d].grant = dumps[d].grant
         /\ \/ dumps'[d].phase = dumps[d].phase
            \/ <<dumps[d].phase, dumps'[d].phase>> \in PhaseMoves
<1> dumps[d] \in DumpRow /\ "future" \in Deadlines /\ "due" \in Deadlines
  BY DEF TypeOK, Deadlines
<1> DEFINE Goal == /\ UNCHANGED <<caseStatus, grants>>
                   /\ dumps'[d].case = dumps[d].case /\ dumps'[d].grant = dumps[d].grant
                   /\ \/ dumps'[d].phase = dumps[d].phase
                      \/ <<dumps[d].phase, dumps'[d].phase>> \in PhaseMoves
<1> USE DEF TypeOK, ledgerVars, PhaseMoves
<1>1. CASE IntakeStep(d)
  <2>1. ASSUME NEW k \in Chunks, SealUpload(d, k) PROVE Goal
    BY <2>1, SealedFields DEF SealUpload, TransitionDump
  <2>2. CASE FailUpload(d)
    BY <2>2, FailedFields DEF FailUpload, TransitionDump
  <2>3. CASE PromoteObject(d)
    BY <2>3, PromotedFields DEF PromoteObject, TransitionDump
  <2>4. CASE MarkQuarantined(d)
    BY <2>4, QuarantinedFields DEF MarkQuarantined, TransitionDump
  <2>5. CASE AcceptDump(d)
    BY <2>5, AcceptedFields DEF AcceptDump, TransitionDump
  <2>6. CASE RejectDump(d)
    BY <2>6, RejectedFields DEF RejectDump, TransitionDump
  <2>7. QED
    BY <1>1, <2>1, <2>2, <2>3, <2>4, <2>5, <2>6 DEF IntakeStep, AppendChunk, SyncAndClose,
       FailUploadInterrupted, PromoteObjectInterrupted
<1>2. CASE CustodyStep(d)
  <2>1. CASE SetRetention(d)
    BY <2>1, DatedFields DEF SetRetention, TransitionDump
  <2>2. CASE PurgeDeadlinePasses(d)
    BY <2>2, DatedFields DEF PurgeDeadlinePasses
  <2>3. CASE BeginPurge(d)
    BY <2>3, DeletingFields DEF BeginPurge, TransitionDump
  <2>4. CASE FinishPurge(d)
    BY <2>4, DeletedFields DEF FinishPurge, TransitionDump
  <2>5. QED
    BY <1>2, <2>1, <2>2, <2>3, <2>4 DEF CustodyStep, FinishPurgeInterrupted, RecordAnalysis
<1>3. CASE RepairStep(d) \/ OutsideStep(d)
  BY <1>3 DEF RepairStep, RemoveOrphan, RemoveRejectedResidue, RemoveTombstoneResidue,
     OutsideStep, FilesVanish, FilesReappear
<1>4. QED
  BY <1>1, <1>2, <1>3

-----------------------------------------------------------------------------
(* Cases and grants.                                                       *)

\* CaseIsolation is not inductive alone: a grant that exists must name a case,
\* and the grant of a dump must exist, or issuing it would move the dump.
GrantOfCase(g) ==
  /\ grants[g].state # "absent" => grants[g].case \in Cases /\ caseStatus[grants[g].case] # "absent"
  /\ grants[g].state = "issued" => caseStatus[grants[g].case] # "closed"

DumpOfGrant(d) ==
  dumps[d].phase # "absent" =>
    /\ dumps[d].grant \in Grants
    /\ grants[dumps[d].grant].state # "absent"
    /\ dumps[d].case = grants[dumps[d].grant].case

Isolated == (\A g \in Grants : GrantOfCase(g)) /\ (\A d \in Dumps : DumpOfGrant(d))

LEMMA IsolatedMeans == Isolated => CaseIsolation
BY DEF Isolated, GrantOfCase, DumpOfGrant, CaseIsolation, ClosedCaseIsSealedOff, DumpInGrantsCase

\* The case of a grant never changes once it is issued, and it never returns
\* to absent.
LEMMA DumpsOfGrantKept ==
  ASSUME \A d \in Dumps : DumpOfGrant(d), UNCHANGED dumps,
         \A g \in Grants : grants[g].state # "absent" =>
           grants'[g].state # "absent" /\ grants'[g].case = grants[g].case
  PROVE  \A d \in Dumps : DumpOfGrant(d)'
BY DEF DumpOfGrant

LEMMA IsolatedCase ==
  ASSUME TypeOK, Isolated, NEW c \in Cases, CaseStep(c)
  PROVE  Isolated'
<1> USE DEF TypeOK, Isolated
<1>1. CASE CloseCase(c)
  <2>1. ASSUME NEW g \in Grants
        PROVE  /\ GrantOfCase(g)'
               /\ grants'[g].case = grants[g].case
               /\ grants[g].state # "absent" => grants'[g].state # "absent"
    <3>1. grants[g] \in GrantRow
      OBVIOUS
    <3>2. CASE g \in RevokedAtClose(c)
      <4>1. grants'[g].state = "revoked" /\ grants'[g].case = grants[g].case
        BY <1>1, <3>1, <3>2 DEF CloseCase, GrantRow
      <4>2. QED
        BY <1>1, <3>2, <4>1 DEF CloseCase, GrantOfCase, RevokedAtClose
    <3>3. CASE g \notin RevokedAtClose(c)
      BY <1>1, <3>3 DEF CloseCase, GrantOfCase, RevokedAtClose
    <3>4. QED
      BY <3>2, <3>3
  <2>2. \A d \in Dumps : DumpOfGrant(d)'
    BY <1>1, <2>1, DumpsOfGrantKept DEF CloseCase
  <2>3. QED
    BY <2>1, <2>2
<1>2. CASE ~CloseCase(c)
  <2>1. /\ UNCHANGED <<grants, dumps>>
        /\ \A b \in Cases : caseStatus'[b] = caseStatus[b] \/ caseStatus'[b] \notin {"absent", "closed"}
    BY <1>2 DEF CaseStep, CreateCase, StartInvestigation, WaitForCustomer, ResumeInvestigation,
       ResolveCase, TransitionCase
  <2>2. QED
    BY <2>1, DumpsOfGrantKept DEF GrantOfCase
<1>3. QED
  BY <1>1, <1>2

LEMMA IsolatedGrant ==
  ASSUME TypeOK, Isolated, NEW g \in Grants, GrantStep(g)
  PROVE  Isolated'
<1> grants[g] \in GrantRow
  BY DEF TypeOK
<1> USE DEF TypeOK, Isolated
<1>1. ASSUME NEW c \in Cases, NEW n \in 1..MaxUploads, IssueGrant(g, c, n) PROVE Isolated'
  <2>1. /\ grants'[g].state = "issued" /\ grants'[g].case = c /\ grants[g].state = "absent"
        /\ \A h \in Grants \ {g} : grants'[h] = grants[h]
        /\ UNCHANGED <<caseStatus, dumps>> /\ caseStatus[c] \notin {"absent", "closed"}
    BY <1>1 DEF IssueGrant
  <2>2. \A h \in Grants : GrantOfCase(h)'
    BY <2>1 DEF GrantOfCase
  <2>3. \A d \in Dumps : DumpOfGrant(d)'
    BY <2>1 DEF DumpOfGrant
  <2>4. QED
    BY <2>2, <2>3
<1>2. ASSUME NEW s \in {"revoked", "expired"}, TransitionGrant(g, s) PROVE Isolated'
  <2>1. /\ grants'[g].state = s /\ grants'[g].case = grants[g].case /\ grants[g].state = "issued"
        /\ \A h \in Grants \ {g} : grants'[h] = grants[h]
        /\ UNCHANGED <<caseStatus, dumps>>
    BY <1>2 DEF TransitionGrant, GrantRow
  <2>2. QED
    BY <2>1 DEF GrantOfCase, DumpOfGrant
<1>3. CASE GrantDeadlinePasses(g)
  <2>1. /\ grants'[g].state = grants[g].state /\ grants'[g].case = grants[g].case
        /\ \A h \in Grants \ {g} : grants'[h] = grants[h]
        /\ UNCHANGED <<caseStatus, dumps>>
    BY <1>3 DEF GrantDeadlinePasses, GrantRow
  <2>2. QED
    BY <2>1 DEF GrantOfCase, DumpOfGrant
<1>4. ASSUME NEW d \in Dumps, BeginUpload(g, d) PROVE Isolated'
  <2>1. /\ grants'[g].state \in {"issued", "consumed"} /\ grants'[g].case = grants[g].case
        /\ grants[g].state = "issued"
    BY <1>4 DEF BeginUpload, GrantUsable, TakeSlot, GrantRow
  <2>2. /\ \A h \in Grants \ {g} : grants'[h] = grants[h]
        /\ UNCHANGED caseStatus /\ caseStatus[grants[g].case] # "closed"
        /\ \A e \in Dumps \ {d} : dumps'[e] = dumps[e]
        /\ dumps'[d].grant = g /\ dumps'[d].case = grants[g].case
    BY <1>4 DEF BeginUpload, ReceivingRow, NoDump
  <2>3. \A h \in Grants : GrantOfCase(h)'
    BY <2>1, <2>2 DEF GrantOfCase
  <2>4. DumpOfGrant(d)'
    BY <2>1, <2>2 DEF DumpOfGrant
  <2>5. ASSUME NEW e \in Dumps \ {d} PROVE DumpOfGrant(e)'
    <3>1. DumpOfGrant(e) /\ dumps'[e] = dumps[e]
      BY <2>2
    <3>2. CASE dumps[e].grant = g
      BY <2>1, <3>1, <3>2 DEF DumpOfGrant
    <3>3. CASE dumps[e].grant # g
      BY <2>2, <3>1, <3>3 DEF DumpOfGrant
    <3>4. QED
      BY <3>2, <3>3
  <2>6. QED
    BY <2>3, <2>4, <2>5
<1>5. CASE \E d \in Dumps : BeginUploadInterrupted(g, d)
  BY <1>5 DEF BeginUploadInterrupted, ledgerVars, GrantOfCase, DumpOfGrant
<1>6. QED
  BY <1>1, <1>2, <1>3, <1>4, <1>5 DEF GrantStep, RevokeGrant, ExpireGrant

LEMMA IsolatedStep ==
  ASSUME TypeOK, Isolated, [EngineNext]_engineVars
  PROVE  Isolated'
<1>1. ASSUME NEW d \in Dumps,
             IntakeStep(d) \/ CustodyStep(d) \/ RepairStep(d) \/ OutsideStep(d)
      PROVE  Isolated'
  <2>1. /\ UNCHANGED <<caseStatus, grants>>
        /\ \A e \in Dumps \ {d} : dumps'[e] = dumps[e]
        /\ dumps'[d].case = dumps[d].case /\ dumps'[d].grant = dumps[d].grant
        /\ dumps'[d].phase # "absent" => dumps[d].phase # "absent"
    BY <1>1, RowMoves, OneDumpStep DEF PhaseMoves
  <2>2. QED
    BY <2>1 DEF Isolated, GrantOfCase, DumpOfGrant
<1>2. CASE DescriptorsDropped \/ UNCHANGED engineVars
  BY <1>2 DEF DescriptorsDropped, engineVars, ledgerVars, Isolated, GrantOfCase, DumpOfGrant
<1>3. QED
  BY <1>1, <1>2, IsolatedCase, IsolatedGrant DEF EngineNext

\* Whatever order operators close, reopen and issue in while uploads run, a
\* closed case has no live grant and a dump stays under the case of its grant.
THEOREM CasesAreIsolated == EngineSpec => []CaseIsolation
<1>1. EngineInit => Isolated
  BY DEF EngineInit, Isolated, GrantOfCase, DumpOfGrant, NoGrant, NoDump
<1>2. TypeOK /\ Isolated /\ [EngineNext]_engineVars => Isolated'
  BY IsolatedStep
<1>3. QED
  BY <1>1, <1>2, IsolatedMeans, TypeCorrect, PTL DEF EngineSpec

LEMMA GrantFinalStep ==
  ASSUME TypeOK, [EngineNext]_engineVars, NEW g \in Grants,
         grants[g].state \in TokenStates \ {"issued"}
  PROVE  [grants'[g] EXCEPT !.expiresAt = grants[g].expiresAt] = grants[g]
<1> grants[g] \in GrantRow
  BY DEF TypeOK
<1>1. CASE grants'[g] = grants[g]
  BY <1>1 DEF GrantRow
<1>2. CASE GrantDeadlinePasses(g)
  BY <1>2 DEF TypeOK, GrantDeadlinePasses, GrantRow
<1>3. CASE \E c \in Cases : CaseStep(c)
  BY <1>1, <1>3 DEF CaseStep, CreateCase, StartInvestigation, WaitForCustomer, ResumeInvestigation,
     ResolveCase, TransitionCase, CloseCase, RevokedAtClose, TokenStates
<1>4. ASSUME NEW h \in Grants, GrantStep(h), ~GrantDeadlinePasses(g) PROVE grants'[g] = grants[g]
  BY <1>4 DEF TypeOK, GrantStep, IssueGrant, RevokeGrant, ExpireGrant, TransitionGrant, TokenStates,
     GrantDeadlinePasses, BeginUpload, GrantUsable, BeginUploadInterrupted, ledgerVars
<1>5. ASSUME NEW d \in Dumps,
             IntakeStep(d) \/ CustodyStep(d) \/ RepairStep(d) \/ OutsideStep(d)
      PROVE  grants'[g] = grants[g]
  BY <1>5, GrantOfDumpKept
<1>6. CASE DescriptorsDropped \/ UNCHANGED engineVars
  BY <1>1, <1>6 DEF DescriptorsDropped, engineVars, ledgerVars
<1>7. QED
  BY <1>1, <1>2, <1>3, <1>4, <1>5, <1>6 DEF EngineNext

\* A consumed, revoked or expired grant stays what it is through every later
\* command, whoever sends it.
THEOREM TerminalGrantsAreFinal == EngineSpec => TerminalGrantIsFinal
<1> DEFINE Kept ==
      \A g \in Grants :
        grants[g].state \in TokenStates \ {"issued"} =>
          [grants'[g] EXCEPT !.expiresAt = grants[g].expiresAt] = grants[g]
<1>1. TypeOK /\ [EngineNext]_engineVars => [Kept]_engineVars
  BY GrantFinalStep
<1>2. QED
  BY <1>1, TypeCorrect, PTL DEF EngineSpec, TerminalGrantIsFinal

-----------------------------------------------------------------------------
(* Analyses.                                                               *)

AnalysedInCustody(d) == analyses[d] # NoAnalyses => dumps[d].phase \in {"available", "deleting"}

\* A report is stored only for an available dump, and the transaction that
\* writes the tombstone deletes them all.
LEMMA AnalysesMove ==
  ASSUME TypeOK, NEW d \in Dumps,
         IntakeStep(d) \/ CustodyStep(d) \/ RepairStep(d) \/ OutsideStep(d)
  PROVE  /\ \A e \in Dumps \ {d} : analyses'[e] = analyses[e]
         /\ \/ analyses'[d] = analyses[d] /\ ~(dumps[d].phase = "deleting" /\ dumps'[d].phase = "deleted")
            \/ analyses'[d] = NoAnalyses
            \/ dumps[d].phase = "available" /\ UNCHANGED dumps
<1> dumps[d] \in DumpRow /\ "future" \in Deadlines /\ "due" \in Deadlines
  BY DEF TypeOK, Deadlines
<1> USE DEF TypeOK, ledgerVars
<1>1. CASE FinishPurge(d)
  BY <1>1 DEF FinishPurge
<1>2. CASE \E a \in Analyses, form \in {"summary", "rich"} : RecordAnalysis(d, a, form)
  BY <1>2 DEF RecordAnalysis
<1>3. CASE IntakeStep(d)
  <2>1. UNCHANGED analyses
    BY <1>3 DEF IntakeStep, AppendChunk, SyncAndClose, SealUpload, FailUpload,
       FailUploadInterrupted, PromoteObject, PromoteObjectInterrupted, MarkQuarantined, AcceptDump,
       RejectDump
  <2>2. ~(dumps[d].phase = "deleting" /\ dumps'[d].phase = "deleted")
    BY <1>3 DEF IntakeStep, AppendChunk, SyncAndClose, SealUpload, FailUpload,
       FailUploadInterrupted, PromoteObject, PromoteObjectInterrupted, MarkQuarantined, AcceptDump,
       RejectDump, TransitionDump
  <2>3. QED
    BY <2>1, <2>2
<1>4. CASE SetRetention(d)
  BY <1>4, DatedFields DEF SetRetention, TransitionDump
<1>5. CASE PurgeDeadlinePasses(d)
  BY <1>5, DatedFields DEF PurgeDeadlinePasses
<1>6. CASE BeginPurge(d)
  BY <1>6, DeletingFields DEF BeginPurge, TransitionDump
<1>7. CASE FinishPurgeInterrupted(d) \/ RepairStep(d) \/ OutsideStep(d)
  BY <1>7 DEF FinishPurgeInterrupted, RepairStep, RemoveOrphan, RemoveRejectedResidue,
     RemoveTombstoneResidue, OutsideStep, FilesVanish, FilesReappear
<1>8. QED
  BY <1>1, <1>2, <1>3, <1>4, <1>5, <1>6, <1>7 DEF CustodyStep

LEMMA AnalysedStep ==
  ASSUME TypeOK, \A d \in Dumps : DumpSafe(d), \A d \in Dumps : AnalysedInCustody(d),
         [EngineNext]_engineVars
  PROVE  \A d \in Dumps : AnalysedInCustody(d)'
<1>1. ASSUME NEW d \in Dumps,
             IntakeStep(d) \/ CustodyStep(d) \/ RepairStep(d) \/ OutsideStep(d),
             NEW e \in Dumps
      PROVE  AnalysedInCustody(e)'
  <2>1. CASE e = d
    BY <1>1, <2>1, RowMoves, AnalysesMove DEF AnalysedInCustody, PhaseMoves
  <2>2. CASE e # d
    BY <1>1, <2>2, OneDumpStep, AnalysesMove DEF AnalysedInCustody
  <2>3. QED
    BY <2>1, <2>2
<1>2. ASSUME NEW g \in Grants, NEW d \in Dumps, BeginUpload(g, d), NEW e \in Dumps
      PROVE  AnalysedInCustody(e)'
  BY <1>2 DEF TypeOK, BeginUpload, FreshDump, AnalysedInCustody
<1>3. CASE UNCHANGED <<dumps, analyses>>
  BY <1>3 DEF AnalysedInCustody
<1>4. CASE \/ \E c \in Cases : CaseStep(c)
           \/ DescriptorsDropped \/ UNCHANGED engineVars
  BY <1>3, <1>4 DEF CaseStep, CreateCase, StartInvestigation, WaitForCustomer, ResumeInvestigation,
     ResolveCase, TransitionCase, CloseCase, DescriptorsDropped, engineVars, ledgerVars
<1>5. ASSUME NEW g \in Grants, GrantStep(g), ~ \E d \in Dumps : BeginUpload(g, d)
      PROVE  UNCHANGED <<dumps, analyses>>
  BY <1>5 DEF GrantStep, IssueGrant, RevokeGrant, ExpireGrant, TransitionGrant,
     GrantDeadlinePasses, BeginUploadInterrupted, ledgerVars
<1>6. QED
  BY <1>1, <1>2, <1>3, <1>4, <1>5 DEF EngineNext

\* Analyses are stored only for bytes that were accepted, and no tombstone
\* keeps one, however recording and purging interleave.
THEOREM AnalysesLiveWithBytes == EngineSpec => []AnalysesFollowBytes
<1> DEFINE Inv == TypeOK /\ (\A d \in Dumps : DumpSafe(d)) /\ \A d \in Dumps : AnalysedInCustody(d)
<1>1. EngineInit => Inv
  BY TypeInit, SafeInit DEF EngineInit, AnalysedInCustody
<1>2. Inv /\ [EngineNext]_engineVars => Inv'
  BY TypeStep, SafeStep, AnalysedStep
<1>3. Inv => AnalysesFollowBytes
  BY DEF AnalysesFollowBytes, AnalysedInCustody
<1> HIDE DEF Inv
<1>4. QED
  BY <1>1, <1>2, <1>3, PTL DEF EngineSpec

-----------------------------------------------------------------------------
(* The abstract custody.                                                   *)

LEMMA Views ==
  /\ ViewOf("absent") = "none" /\ ViewOf("receiving") = "inbound" /\ ViewOf("sealed") = "inbound"
  /\ ViewOf("quarantined") = "inbound" /\ ViewOf("available") = "published"
  /\ ViewOf("rejected") = "refused" /\ ViewOf("deleting") = "withdrawn"
  /\ ViewOf("deleted") = "withdrawn"
BY DEF ViewOf

\* Whether a dump can be read hangs on its files as well; files come to an
\* available dump only when it becomes available.
LEMMA ReadableMove ==
  ASSUME TypeOK, NEW d \in Dumps,
         IntakeStep(d) \/ CustodyStep(d) \/ RepairStep(d) \/ OutsideStep(d)
  PROVE  /\ dumps[d].phase = "available" => vault'[d] \in {vault[d], None}
         /\ dumps[d].phase = "quarantined" /\ dumps'[d].phase = "available" => vault'[d] # None
<1> dumps[d] \in DumpRow /\ "future" \in Deadlines /\ "due" \in Deadlines
  BY DEF TypeOK, Deadlines
<1> USE DEF TypeOK, vaultVars, ledgerVars
<1>1. dumps[d].phase = "available" => vault'[d] \in {vault[d], None}
  <2>1. CASE IntakeStep(d)
    BY <2>1 DEF IntakeStep, AppendChunk, SyncAndClose, SealUpload, FailUpload,
       FailUploadInterrupted, PromoteObject, PromoteObjectInterrupted, MarkQuarantined, AcceptDump,
       RejectDump, RemoveStaging, TransitionDump
  <2>2. CASE CustodyStep(d)
    BY <2>2 DEF CustodyStep, SetRetention, PurgeDeadlinePasses, BeginPurge, FinishPurge,
       FinishPurgeInterrupted, RecordAnalysis, RemoveObject
  <2>3. CASE RepairStep(d) \/ OutsideStep(d)
    BY <2>3 DEF RepairStep, RemoveOrphan, RemoveRejectedResidue, RemoveTombstoneResidue,
       RemoveStaging, RemoveObject, OutsideStep, FilesVanish, FilesReappear
  <2>4. QED
    BY <2>1, <2>2, <2>3
<1>2. ASSUME dumps[d].phase = "quarantined", dumps'[d].phase = "available" PROVE vault'[d] # None
  <2>1. CASE AcceptDump(d)
    BY <2>1 DEF AcceptDump, Acceptable
  <2>2. CASE RejectDump(d)
    BY <1>2, <2>2, RejectedFields DEF RejectDump, TransitionDump
  <2>3. CASE PurgeDeadlinePasses(d)
    BY <1>2, <2>3, DatedFields DEF PurgeDeadlinePasses
  <2>4. CASE IntakeStep(d) /\ ~AcceptDump(d) /\ ~RejectDump(d)
    BY <1>2, <2>4 DEF IntakeStep, AppendChunk, SyncAndClose, SealUpload, FailUpload,
       FailUploadInterrupted, PromoteObject, PromoteObjectInterrupted, MarkQuarantined,
       TransitionDump
  <2>5. CASE CustodyStep(d) /\ ~PurgeDeadlinePasses(d)
    BY <1>2, <2>5 DEF CustodyStep, SetRetention, BeginPurge, FinishPurge,
       FinishPurgeInterrupted, RecordAnalysis, TransitionDump
  <2>6. CASE RepairStep(d) \/ OutsideStep(d)
    BY <1>2, <2>6 DEF RepairStep, RemoveOrphan, RemoveRejectedResidue, RemoveTombstoneResidue,
       OutsideStep, FilesVanish, FilesReappear
  <2>7. QED
    BY <2>1, <2>2, <2>3, <2>4, <2>5, <2>6
<1>3. QED
  BY <1>1, <1>2

LEMMA ReadableMeans ==
  ASSUME NEW d \in Dumps, DumpSafe(d)
  PROVE  AuthorizeDownload(d) <=> vault[d] # None /\ dumps[d].phase = "available"
BY DEF AuthorizeDownload, DumpSafe

\* One command on one dump is one custody step, or none.
LEMMA CustodyMove ==
  ASSUME TypeOK, TypeOK', \A e \in Dumps : DumpSafe(e), \A e \in Dumps : DumpSafe(e)',
         NEW d \in Dumps, \A e \in Dumps \ {d} : dumps'[e] = dumps[e] /\ vault'[e] = vault[e],
         \/ dumps'[d].phase = dumps[d].phase
         \/ <<dumps[d].phase, dumps'[d].phase>> \in PhaseMoves \cup {<<"absent", "receiving">>},
         dumps[d].phase = "available" => vault'[d] \in {vault[d], None},
         dumps[d].phase = "quarantined" /\ dumps'[d].phase = "available" => vault'[d] # None
  PROVE  [Custody!Next]_(Custody!custodyVars)
<1> DEFINE v == [e \in Dumps |-> ViewOf(dumps[e].phase)]
           w == [e \in Dumps |-> ViewOf(dumps'[e].phase)]
           r == [e \in Dumps |-> AuthorizeDownload(e)]
           s == [e \in Dumps |-> AuthorizeDownload(e)']
<1>1. \A e \in Dumps : r[e] <=> (vault[e] # None /\ dumps[e].phase = "available")
  BY ReadableMeans
<1>2. \A e \in Dumps : s[e] <=> (vault'[e] # None /\ dumps'[e].phase = "available")
  <2>1. SUFFICES ASSUME NEW e \in Dumps
                 PROVE  AuthorizeDownload(e)' <=> (vault'[e] # None /\ dumps'[e].phase = "available")
    OBVIOUS
  <2>2. DumpSafe(e)'
    OBVIOUS
  <2>3. QED
    BY <2>2 DEF AuthorizeDownload, DumpSafe
<1>3. /\ \A e \in Dumps \ {d} : w[e] = v[e] /\ s[e] = r[e]
      /\ \A e \in Dumps : r[e] \in BOOLEAN /\ s[e] \in BOOLEAN
  BY DEF AuthorizeDownload
<1>4. v[d] = ViewOf(dumps[d].phase) /\ w[d] = ViewOf(dumps'[d].phase)
  OBVIOUS
<1>5. /\ v \in [Dumps -> {v[e] : e \in Dumps}] /\ DOMAIN w = Dumps /\ DOMAIN v = Dumps
      /\ DOMAIN r = Dumps /\ DOMAIN s = Dumps
      /\ w = [v EXCEPT ![d] = w[d]] /\ s = [r EXCEPT ![d] = s[d]]
  BY <1>3
<1>6. SUFFICES \/ v[d] = "none" /\ w[d] = "inbound" /\ s[d] = r[d]
               \/ v[d] = "inbound" /\ w[d] = "published" /\ s[d] = TRUE
               \/ v[d] = "inbound" /\ w[d] = "refused" /\ s[d] = r[d]
               \/ v[d] \in {"published", "refused"} /\ w[d] = "withdrawn" /\ s[d] = FALSE
               \/ v[d] = "published" /\ w[d] = v[d] /\ s[d] = FALSE
               \/ w[d] = v[d] /\ s[d] = r[d]
  <2>1. ASSUME NEW from, NEW to
        PROVE  Custody!Move(d, from, to) <=> v[d] \in from /\ w = [v EXCEPT ![d] = to]
    BY DEF Custody!Move
  <2>2. /\ Custody!Receive(d) <=> Custody!Move(d, {"none"}, "inbound") /\ s = r
        /\ Custody!Refuse(d) <=> Custody!Move(d, {"inbound"}, "refused") /\ s = r
    BY DEF Custody!Receive, Custody!Refuse
  <2>3. /\ Custody!Publish(d) <=> Custody!Move(d, {"inbound"}, "published") /\ s = [r EXCEPT ![d] = TRUE]
        /\ Custody!Withdraw(d) <=> Custody!Move(d, {"published", "refused"}, "withdrawn")
                                   /\ s = [r EXCEPT ![d] = FALSE]
    BY DEF Custody!Publish, Custody!Withdraw
  <2>4. Custody!LoseBytes(d) <=> v[d] = "published" /\ s = [r EXCEPT ![d] = FALSE] /\ w = v
    BY DEF Custody!LoseBytes
  <2>5. UNCHANGED Custody!custodyVars <=> w = v /\ s = r
    BY DEF Custody!custodyVars
  <2>6. w[d] = v[d] => w = v
    BY <1>5
  <2>7. s[d] = r[d] => s = r
    BY <1>5
  <2> HIDE DEF v, w, r, s
  <2>8. QED
    BY <1>5, <2>1, <2>2, <2>3, <2>4, <2>5, <2>6, <2>7 DEF Custody!Next
<1> HIDE DEF v, w, r, s
<1>7. CASE dumps'[d].phase = dumps[d].phase
  <2>1. w[d] = v[d]
    BY <1>4, <1>7
  <2>2. CASE dumps[d].phase = "available"
    <3>1. v[d] = "published"
      BY <1>4, <2>2, Views
    <3>2. s[d] = FALSE \/ s[d] = r[d]
      BY <1>1, <1>2, <1>3, <1>7, <2>2
    <3>3. QED
      BY <2>1, <3>1, <3>2
  <2>3. CASE dumps[d].phase # "available"
    <3>1. s[d] = r[d]
      BY <1>1, <1>2, <1>3, <1>7, <2>3
    <3>2. QED
      BY <2>1, <3>1
  <2>4. QED
    BY <2>2, <2>3
<1>8. CASE dumps'[d].phase # dumps[d].phase
  <2>1. CASE dumps[d].phase = "quarantined" /\ dumps'[d].phase = "available"
    <3>1. v[d] = "inbound" /\ w[d] = "published"
      BY <1>4, <2>1, Views
    <3>2. s[d] = TRUE
      BY <1>2, <1>3, <2>1
    <3>3. QED
      BY <3>1, <3>2
  <2>2. CASE dumps[d].phase = "available" /\ dumps'[d].phase = "deleting"
    <3>1. v[d] = "published" /\ w[d] = "withdrawn"
      BY <1>4, <2>2, Views
    <3>2. s[d] = FALSE
      BY <1>2, <1>3, <2>2
    <3>3. QED
      BY <3>1, <3>2
  <2>3. CASE dumps[d].phase # "available" /\ dumps'[d].phase # "available"
    <3>1. s[d] = FALSE /\ r[d] = FALSE
      BY <1>1, <1>2, <1>3, <2>3
    <3>2. \/ v[d] = "none" /\ w[d] = "inbound"
          \/ v[d] = "inbound" /\ w[d] = "inbound"
          \/ v[d] = "inbound" /\ w[d] = "refused"
          \/ v[d] = "refused" /\ w[d] = "withdrawn"
          \/ v[d] = "withdrawn" /\ w[d] = "withdrawn"
      BY <1>4, <1>8, <2>3, Views DEF PhaseMoves
    <3>3. QED
      BY <3>1, <3>2
  <2>4. QED
    BY <1>8, <2>1, <2>2, <2>3 DEF PhaseMoves
<1>9. QED
  BY <1>7, <1>8

LEMMA CustodyStepOrNone ==
  ASSUME TypeOK, TypeOK', \A e \in Dumps : DumpSafe(e), \A e \in Dumps : DumpSafe(e)',
         [EngineNext]_engineVars
  PROVE  [Custody!Next]_(Custody!custodyVars)
<1>1. ASSUME NEW d \in Dumps,
             IntakeStep(d) \/ CustodyStep(d) \/ RepairStep(d) \/ OutsideStep(d)
      PROVE  [Custody!Next]_(Custody!custodyVars)
  BY <1>1, OneDumpStep, RowMoves, ReadableMove, CustodyMove
<1>2. ASSUME NEW g \in Grants, NEW d \in Dumps, BeginUpload(g, d)
      PROVE  [Custody!Next]_(Custody!custodyVars)
  <2>1. /\ dumps[d].phase = "absent" /\ dumps'[d].phase = "receiving"
        /\ \A e \in Dumps \ {d} : dumps'[e] = dumps[e]
        /\ UNCHANGED vault
    BY <1>2 DEF TypeOK, BeginUpload, FreshDump, CreateStaging, ReceivingRow, NoDump
  <2>2. QED
    BY <2>1, CustodyMove
<1>3. ASSUME UNCHANGED <<dumps, vault>> PROVE [Custody!Next]_(Custody!custodyVars)
  BY <1>3 DEF Custody!custodyVars, AuthorizeDownload
<1>4. CASE \/ \E c \in Cases : CaseStep(c)
           \/ DescriptorsDropped \/ UNCHANGED engineVars
  BY <1>3, <1>4 DEF CaseStep, CreateCase, StartInvestigation, WaitForCustomer, ResumeInvestigation,
     ResolveCase, TransitionCase, CloseCase, DescriptorsDropped, engineVars, ledgerVars, vaultVars
<1>5. ASSUME NEW g \in Grants, GrantStep(g), ~ \E d \in Dumps : BeginUpload(g, d)
      PROVE  UNCHANGED <<dumps, vault>>
  BY <1>5 DEF GrantStep, IssueGrant, RevokeGrant, ExpireGrant, TransitionGrant,
     GrantDeadlinePasses, BeginUploadInterrupted, CreateStaging, ledgerVars, vaultVars
<1>6. QED
  BY <1>1, <1>2, <1>3, <1>4, <1>5 DEF EngineNext

\* The engine implements the abstract custody of DumpCustody: seen from
\* outside, a dump is published or refused once and withdrawn for good.
THEOREM EngineImplementsCustody == EngineSpec => CustodyKept
<1> DEFINE Inv == TypeOK /\ \A d \in Dumps : DumpSafe(d)
<1>1. EngineInit => Inv /\ Custody!Init
  <2>1. EngineInit => Inv
    BY TypeInit, SafeInit
  <2>2. EngineInit => \A d \in Dumps : dumps[d].phase = "absent" /\ AuthorizeDownload(d) = FALSE
    BY DEF EngineInit, NoDump, AuthorizeDownload
  <2>3. QED
    BY <2>1, <2>2, Views DEF Custody!Init
<1>2. Inv /\ [EngineNext]_engineVars => Inv'
  BY TypeStep, SafeStep
<1>3. Inv /\ Inv' /\ [EngineNext]_engineVars => [Custody!Next]_(Custody!custodyVars)
  BY CustodyStepOrNone
<1> HIDE DEF Inv
<1>4. QED
  BY <1>1, <1>2, <1>3, PTL DEF EngineSpec, CustodyKept, Custody!Spec

\* No interleaving of intake, inspection, purge and crash leaves a dump
\* downloadable that was not accepted or whose bytes the program removed.
THEOREM DownloadsAreProven == EngineSpec => []DownloadableIsProven
BY CustodyIsSound, PTL
=============================================================================
