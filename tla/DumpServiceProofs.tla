------------------------- MODULE DumpServiceProofs -------------------------
(***************************************************************************)
(* The service implements the engine specification, so what is proved of   *)
(* the engine under arbitrary callers holds of the service, for any        *)
(* capacity, queue limit, batch size and number of faults and restarts.    *)
(***************************************************************************)
EXTENDS DumpService, DumpEngineProofs

LEMMA RequestIsEngineStep ==
  ASSUME NEW d \in Dumps, RequestStep(d)
  PROVE  [EngineNext]_engineVars
<1>1. CASE \E g \in Grants : AdmitUpload(g, d)
  BY <1>1 DEF AdmitUpload, EngineNext, GrantStep
<1>2. CASE \E g \in Grants : AdmitUploadFails(g, d)
  BY <1>2 DEF AdmitUploadFails, EngineNext, GrantStep
<1>3. CASE ReceiveChunk(d)
  BY <1>3 DEF ReceiveChunk, EngineNext, IntakeStep
<1>4. CASE StreamEnds(d)
  BY <1>4 DEF StreamEnds, EngineNext, IntakeStep
<1>5. CASE ReceiveChunkFails(d) \/ StreamAborts(d) \/ StartProcessing(d)
  BY <1>5 DEF ReceiveChunkFails, StreamAborts, StartProcessing
<1>6. QED
  BY <1>1, <1>2, <1>3, <1>4, <1>5 DEF RequestStep

\* The four commands of process, on behalf of whichever handler runs it.
LEMMA ProcessIsEngineStep ==
  ASSUME NEW d \in Dumps, ProcessStep(d) \/ ProcessThrows(d)
  PROVE  [EngineNext]_engineVars
<1>1. CASE ProcessStep(d)
  BY <1>1 DEF ProcessStep, EngineNext, IntakeStep
<1>2. CASE ProcessThrows(d)
  BY <1>2 DEF ProcessThrows, EngineNext, IntakeStep
<1>3. QED
  BY <1>1, <1>2

\* The digest a request seals with is a number of chunks.
HashedOK == hashed \in [Dumps -> Chunks]

LEMMA HandlerIsEngineStep ==
  ASSUME HashedOK, NEW d \in Dumps, HandlerStep(d)
  PROVE  [EngineNext]_engineVars
<1>1. CASE Seal(d)
  <2>1. SealUpload(d, hashed[d]) /\ hashed[d] \in Chunks
    BY <1>1 DEF Seal, HashedOK
  <2>2. QED
    BY <2>1 DEF EngineNext, IntakeStep
<1>2. CASE Fail(d) \/ FailFails(d)
  BY <1>2 DEF Fail, FailFails, EngineNext, IntakeStep
<1>3. CASE Process(d) \/ ProcessFails(d) \/ Drain(d) \/ DrainFails(d)
  BY <1>3, ProcessIsEngineStep DEF Process, ProcessFails, Drain, DrainFails
<1>4. CASE SealFails(d) \/ Processed(d) \/ NextDump(d) \/ Drained(d) \/ Reconciled(d)
  BY <1>4 DEF SealFails, Processed, NextDump, Drained, Reconciled
<1>5. CASE Retain(d) \/ RetainFails(d)
  BY <1>5 DEF Retain, RetainFails, EngineNext, CustodyStep
<1>6. CASE Reconcile(d)
  <2>1. ProcessStep(d) \/ ReconcileCommand(d)
    BY <1>6 DEF Reconcile
  <2>2. QED
    BY <2>1, ProcessIsEngineStep
    DEF ReconcileCommand, EngineNext, IntakeStep, CustodyStep, RepairStep
<1>7. CASE ReconcileFails(d)
  BY <1>7 DEF ReconcileFails, EngineNext, IntakeStep, CustodyStep
<1>8. QED
  BY <1>1, <1>2, <1>3, <1>4, <1>5, <1>6, <1>7 DEF HandlerStep

LEMMA StepIsEngineStep ==
  ASSUME HashedOK, [ServiceNext]_vars
  PROVE  [EngineNext]_engineVars
<1>1. CASE HandlerEnds \/ DrainTimer \/ RetentionTimer \/ Boot \/ Shutdown \/ UNCHANGED vars
  BY <1>1 DEF HandlerEnds, DrainEnds, RetentionEnds, ReconcileEnds, DrainTimer, RetentionTimer,
     Boot, Shutdown, vars
<1>2. CASE ShutdownEnds \/ Crash
  BY <1>2 DEF ShutdownEnds, Crash, EngineNext
<1>3. CASE Operate
  BY <1>3 DEF Operate, CaseRequest, GrantRequest, RetentionRequest, AnalysisRequest, EngineNext,
     GrantStep, CustodyStep
<1>4. CASE ClockTicks \/ DiskDisturbed
  BY <1>4 DEF ClockTicks, DiskDisturbed, EngineNext, GrantStep, CustodyStep
<1>5. QED
  BY <1>1, <1>2, <1>3, <1>4, RequestIsEngineStep, HandlerIsEngineStep DEF ServiceNext

LEMMA HashedStep ==
  ASSUME HashedOK, [ServiceNext]_vars
  PROVE  HashedOK'
<1>0. 0 \in Chunks
  BY BoundsAreNat DEF Chunks
<1>1. ASSUME NEW d \in Dumps, ReceiveChunk(d) \/ ReceiveChunkFails(d) PROVE HashedOK'
  <2>1. hashed[d] + 1 \in Chunks
    BY <1>1, BoundsAreNat DEF ReceiveChunk, ReceiveChunkFails, HashedOK, Chunks
  <2>2. QED
    BY <1>1, <2>1 DEF ReceiveChunk, ReceiveChunkFails, HashedOK
<1>2. ASSUME NEW d \in Dumps, RequestStep(d) PROVE HashedOK'
  BY <1>1, <1>2 DEF RequestStep, AdmitUpload, AdmitUploadFails, StreamEnds, StreamAborts,
     StartProcessing, HashedOK
<1>3. ASSUME NEW d \in Dumps, HandlerStep(d) PROVE HashedOK'
  <2>1. CASE Fail(d) \/ FailFails(d) \/ Processed(d) \/ ProcessFails(d)
    BY <1>0, <2>1 DEF Fail, FailFails, Processed, ProcessFails, RequestEnds, HashedOK
  <2>2. CASE ReconcileFails(d)
    BY <1>0, <2>2 DEF ReconcileFails, ProcessGone, HashedOK
  <2>3. CASE Process(d) \/ Drain(d) \/ Reconcile(d)
    BY <2>3 DEF Process, Drain, Reconcile, ProcessStep, serviceVars, HashedOK
  <2>4. QED
    BY <1>3, <2>1, <2>2, <2>3 DEF HandlerStep, Seal, SealFails, NextDump, Drained, DrainFails,
       Retain, RetainFails, Reconciled, HashedOK
<1>4. CASE ShutdownEnds \/ Crash
  BY <1>0, <1>4 DEF ShutdownEnds, Crash, ProcessGone, HashedOK
<1>5. CASE Operate \/ ClockTicks \/ DiskDisturbed \/ UNCHANGED vars
  BY <1>5 DEF Operate, ClockTicks, DiskDisturbed, serviceVars, vars, HashedOK
<1>6. CASE HandlerEnds \/ DrainTimer \/ RetentionTimer \/ Boot \/ Shutdown
  BY <1>6 DEF HandlerEnds, DrainEnds, RetentionEnds, ReconcileEnds, DrainTimer, RetentionTimer,
     Boot, Shutdown, HashedOK
<1>7. QED
  BY <1>2, <1>3, <1>4, <1>5, <1>6 DEF ServiceNext

\* Every behaviour of the service is one the engine allows its callers: a
\* handler never changes the ledger or the vault except by an engine command
\* or by the interrupted half of one.
THEOREM ServiceImplementsEngine == ServiceSafety => ImplementsEngine
<1>1. ServiceInit => HashedOK
  BY BoundsAreNat DEF ServiceInit, HashedOK, Chunks
<1>2. ServiceInit => EngineInit
  BY DEF ServiceInit
<1>3. QED
  BY <1>1, <1>2, HashedStep, StepIsEngineStep, PTL DEF ServiceSafety, ImplementsEngine, EngineSpec

\* Ledger and vault agree at every point of the service's life, in every
\* handler, after every crash and during every recovery.
THEOREM ServiceCustodyIsSound ==
  ServiceSafety => [](LedgerMatchesVault /\ DownloadableIsProven)
<1>1. QED
  BY ServiceImplementsEngine, CustodyIsSound, PTL DEF ImplementsEngine

-----------------------------------------------------------------------------
(* The inductive invariant of the process.                                 *)

\* The handler that has the thread works on d or has it on its list.
Held(d) == loop.at = d \/ d \in loop.rest

\* The mode and the running handler fit together.
LoopShape ==
  /\ mode = "starting" <=> loop.job = "reconcile"
  /\ mode = "down" => loop = Idle
  /\ loop.job = "idle" => loop = Idle
  /\ loop.at \notin loop.rest

DigestOf(d) ==
  d \notin disturbed /\ dumps[d].phase \in {"sealed", "quarantined", "available"} =>
    dumps[d].digest = IF vault[d] # None THEN vault[d] ELSE staging[d]

\* A request that streams belongs to a receiving row, has hashed what is in
\* the staging file, and hands its dump on only when the stream is whole.
RequestOf(d) ==
  /\ session[d] \in {"streaming", "broken"} => dumps[d].phase = "receiving"
  /\ session[d] # "none" => dumps[d].phase # "absent"
  /\ session[d] = "none" => hashed[d] = 0
  /\ session[d] = "streaming" /\ d \notin disturbed => staging[d] = hashed[d]
  /\ At("seal", d) => session[d] = "streaming"
  /\ At("fail", d) => session[d] \in {"streaming", "broken"}
  /\ At("process", d) => session[d] = "sealed"

\* A dump on its way in has one owner while the process serves, and none
\* before the recovery is through.
OwnerOf(d) ==
  /\ queue[d] # None \/ d \in stranded => dumps[d].phase # "absent"
  /\ session[d] # "none" => queue[d] = None /\ d \notin stranded
  /\ queue[d] # None => d \notin stranded
  /\ mode \in {"serving", "closing"} /\ Inbound(d) =>
       session[d] # "none" \/ queue[d] # None \/ d \in stranded \cup disturbed
  /\ mode \in {"down", "starting"} => session[d] = "none" /\ queue[d] = None /\ d \notin stranded

Settled(d) ==
  dumps[d].phase \in {"absent", "available", "rejected", "deleted"} \/ Alarmed(d)

\* What a handler's list says stays true until the handler gets there: queued
\* dumps are still queued, candidates still due, and what the recovery has
\* behind it is settled.
ListOf(d) ==
  /\ loop.job = "drain" /\ Held(d) => queue[d] # None
  /\ loop.job = "retention" /\ Held(d) =>
       \/ dumps[d].phase \in {"deleting", "deleted"}
       \/ dumps[d].phase \in {"available", "rejected"} /\ dumps[d].purgeAt = "due"
  /\ mode = "starting" => Held(d) \/ Settled(d)

DumpServed(d) == RequestOf(d) /\ DigestOf(d) /\ OwnerOf(d) /\ ListOf(d)

\* The timer is armed, or a drain runs and arms it when it ends.
Armed == Pending # {} => timer \/ loop.job = "drain"

\* A step that leaves the row, the files and the owners of a dump alone, and
\* keeps it on the list it is on, keeps what holds of it.
LoopElsewhere(e) ==
  \/ /\ loop'.job = loop.job
     /\ Held(e)' <=> Held(e)
     /\ loop'.at = e => loop.at = e \/ loop.job \in {"drain", "retention", "reconcile"}
  \/ /\ loop'.job \notin {"drain", "retention"} /\ loop'.at # e
     /\ mode # "starting" /\ mode' # "starting"

ElsewhereInEngine(e) ==
  /\ dumps'[e] = dumps[e] /\ staging'[e] = staging[e] /\ vault'[e] = vault[e]
  /\ e \in disturbed' <=> e \in disturbed

ElsewhereInProcess(e) ==
  /\ session'[e] = session[e] /\ hashed'[e] = hashed[e] /\ queue'[e] = queue[e]
  /\ e \in stranded' <=> e \in stranded

LEMMA ServedElsewhere ==
  ASSUME NEW e \in Dumps, DumpServed(e), ElsewhereInEngine(e), ElsewhereInProcess(e),
         LoopElsewhere(e), mode' = mode
  PROVE  DumpServed(e)'
<1> USE DEF DumpServed, ElsewhereInEngine, ElsewhereInProcess, LoopElsewhere
<1>1. RequestOf(e)'
  BY DEF RequestOf, At
<1>2. DigestOf(e)' /\ OwnerOf(e)'
  BY DEF DigestOf, OwnerOf, Inbound
<1>3. ListOf(e)'
  BY DEF ListOf, Settled, Alarmed, Unrecoverable
<1>4. QED
  BY <1>1, <1>2, <1>3

\* The commands that do not touch a transfer in progress.
Quiet(d) ==
  \/ PromoteObject(d) \/ PromoteObjectInterrupted(d)
  \/ MarkQuarantined(d) \/ AcceptDump(d) \/ RejectDump(d)
  \/ CustodyStep(d) \/ RepairStep(d) \/ OutsideStep(d)

LEMMA QuietIsStep ==
  ASSUME NEW d \in Dumps, Quiet(d)
  PROVE  IntakeStep(d) \/ CustodyStep(d) \/ RepairStep(d) \/ OutsideStep(d)
BY DEF Quiet, IntakeStep

LEMMA QuietReceiving ==
  ASSUME TypeOK, NEW d \in Dumps, Quiet(d), dumps[d].phase = "receiving"
  PROVE  /\ dumps'[d].phase = "receiving"
         /\ staging'[d] = staging[d] \/ d \in disturbed'
<1> dumps[d] \in DumpRow /\ "future" \in Deadlines /\ "due" \in Deadlines
  BY DEF TypeOK, Deadlines
<1> USE DEF TypeOK, ledgerVars, vaultVars
<1>1. CASE PurgeDeadlinePasses(d)
  BY <1>1, DatedFields DEF PurgeDeadlinePasses
<1>2. CASE OutsideStep(d)
  BY <1>2 DEF OutsideStep, FilesVanish, FilesReappear
<1>3. CASE ~PurgeDeadlinePasses(d) /\ ~OutsideStep(d)
  BY <1>3 DEF Quiet, PromoteObject, PromoteObjectInterrupted, MarkQuarantined, AcceptDump, RejectDump,
     CustodyStep, SetRetention, BeginPurge, FinishPurge, FinishPurgeInterrupted, RecordAnalysis,
     TransitionDump, RepairStep, RemoveOrphan, RemoveRejectedResidue, RemoveTombstoneResidue
<1>4. QED
  BY <1>1, <1>2, <1>3

\* The digest column is written once, and the bytes move from one place to the
\* other unchanged.
LEMMA DigestKept ==
  ASSUME TypeOK, NEW d \in Dumps, DumpSafe(d), DigestOf(d),
         Quiet(d) \/ FailUpload(d) \/ FailUploadInterrupted(d)
  PROVE  DigestOf(d)'
<1> dumps[d] \in DumpRow /\ "future" \in Deadlines /\ "due" \in Deadlines
  BY DEF TypeOK, Deadlines
<1> USE DEF TypeOK, ledgerVars, vaultVars
<1>1. CASE PromoteObject(d)
  BY <1>1, PromotedFields DEF PromoteObject, Promote, TransitionDump, DigestOf
<1>2. CASE PromoteObjectInterrupted(d)
  BY <1>2 DEF PromoteObjectInterrupted, Promote, DigestOf
<1>3. CASE MarkQuarantined(d)
  BY <1>3, QuarantinedFields DEF MarkQuarantined, TransitionDump, DigestOf
<1>4. CASE AcceptDump(d)
  BY <1>4, AcceptedFields DEF AcceptDump, TransitionDump, DigestOf
<1>5. CASE RejectDump(d)
  BY <1>5, RejectedFields DEF RejectDump, TransitionDump, DigestOf
<1>6. CASE FailUpload(d)
  BY <1>6, FailedFields DEF FailUpload, TransitionDump, DigestOf
<1>7. CASE FailUploadInterrupted(d)
  BY <1>7 DEF FailUploadInterrupted, DigestOf
<1>8. CASE SetRetention(d)
  BY <1>8, DatedFields DEF SetRetention, TransitionDump, DigestOf
<1>9. CASE PurgeDeadlinePasses(d)
  BY <1>9, DatedFields DEF PurgeDeadlinePasses, DigestOf
<1>10. CASE BeginPurge(d)
  BY <1>10, DeletingFields DEF BeginPurge, TransitionDump, DigestOf
<1>11. CASE FinishPurge(d)
  BY <1>11, DeletedFields DEF FinishPurge, TransitionDump, DigestOf
<1>12. CASE FinishPurgeInterrupted(d) \/ RepairStep(d)
  BY <1>12 DEF FinishPurgeInterrupted, RepairStep, RemoveOrphan, RemoveRejectedResidue,
     RemoveTombstoneResidue, DigestOf
<1>13. CASE OutsideStep(d)
  BY <1>13 DEF OutsideStep, FilesVanish, FilesReappear, DigestOf
<1>14. CASE \E a \in Analyses, form \in {"summary", "rich"} : RecordAnalysis(d, a, form)
  BY <1>14 DEF RecordAnalysis, DigestOf
<1>15. QED
  BY <1>1, <1>2, <1>3, <1>4, <1>5, <1>6, <1>7, <1>8, <1>9, <1>10, <1>11, <1>12, <1>13, <1>14
  DEF Quiet, CustodyStep

\* A dump once touched from outside stays marked.
LEMMA DisturbedGrows ==
  ASSUME TypeOK, NEW d \in Dumps,
         IntakeStep(d) \/ CustodyStep(d) \/ RepairStep(d) \/ OutsideStep(d)
  PROVE  disturbed \subseteq disturbed'
BY DEF ledgerVars, IntakeStep, AppendChunk, SyncAndClose, SealUpload, FailUpload,
   FailUploadInterrupted, PromoteObject, PromoteObjectInterrupted, MarkQuarantined, AcceptDump,
   RejectDump, CustodyStep, SetRetention, PurgeDeadlinePasses, BeginPurge, FinishPurge,
   FinishPurgeInterrupted, RecordAnalysis, RepairStep, RemoveOrphan, RemoveRejectedResidue,
   RemoveTombstoneResidue, OutsideStep, FilesVanish, FilesReappear

LEMMA QuietKeeps ==
  ASSUME TypeOK, NEW d \in Dumps, DumpSafe(d), DumpServed(d), Quiet(d),
         session'[d] = session[d], hashed'[d] = hashed[d], queue'[d] = queue[d],
         d \in stranded' <=> d \in stranded, UNCHANGED <<mode, loop>>
  PROVE  RequestOf(d)' /\ DigestOf(d)' /\ OwnerOf(d)'
<1>1. /\ dumps[d].phase = "absent" <=> dumps'[d].phase = "absent"
      /\ Inbound(d)' => Inbound(d)
  BY QuietIsStep, RowMoves DEF PhaseMoves, Inbound
<1>2. disturbed \subseteq disturbed'
  BY QuietIsStep, DisturbedGrows
<1>3. RequestOf(d)'
  BY <1>1, <1>2, QuietReceiving DEF DumpServed, RequestOf, At
<1>4. OwnerOf(d)'
  BY <1>1, <1>2 DEF DumpServed, OwnerOf
<1>5. QED
  BY <1>3, <1>4, DigestKept DEF DumpServed

-----------------------------------------------------------------------------
(* Turns of the loop.                                                      *)

LoopType == loop \in [job: Jobs, at: Dumps \cup {None}, rest: SUBSET Dumps]

\* A callback takes up one dump.
LEMMA TurnStarts ==
  ASSUME LoopShape, LoopFree, NEW d \in Dumps, NEW job \in {"seal", "fail", "process"},
         loop' = Run(job, d, {}), mode' = mode
  PROVE  LoopShape' /\ \A e \in Dumps \ {d} : LoopElsewhere(e)
<1>1. /\ loop'.job = job /\ loop'.at = d /\ loop'.rest = {}
      /\ mode \in {"serving", "closing"} /\ mode' \in {"serving", "closing"}
  BY DEF Run, LoopFree
<1>2. QED
  BY <1>1 DEF LoopShape, LoopElsewhere

\* The handler of a request goes on to its catch block, or gives the thread
\* back.
LEMMA TurnGoesOn ==
  ASSUME LoopShape, NEW d \in Dumps, loop.job \in {"seal", "fail", "process"},
         loop' = Run("fail", d, {}) \/ loop' = Idle, mode' = mode
  PROVE  /\ LoopShape' /\ mode \notin {"down", "starting"}
         /\ \A e \in Dumps \ {d} : LoopElsewhere(e)
<1>1. mode \notin {"down", "starting"}
  BY DEF LoopShape, Idle, Run
<1>2. loop'.job \in {"fail", "idle"} /\ loop'.at \in {d, None} /\ loop'.rest = {}
      /\ (loop'.job = "idle" => loop' = Idle)
  BY DEF Idle, Run
<1>3. QED
  BY <1>1, <1>2, NoneIsFresh DEF LoopShape, LoopElsewhere

\* A handler with a list takes up the next dump of it, or is through with one.
LEMMA ListMoves ==
  ASSUME LoopShape, LoopType, NEW d \in Dumps,
         loop.job \in {"drain", "retention", "reconcile"}, mode' = mode,
         \/ loop.at = None /\ d \in loop.rest /\ loop' = Run(loop.job, d, loop.rest \ {d})
         \/ loop.at = d /\ DumpDone
  PROVE  LoopShape' /\ \A e \in Dumps \ {d} : LoopElsewhere(e)
<1>1. /\ loop'.job = loop.job
      /\ \/ loop.at = None /\ loop'.at = d /\ d \in loop.rest /\ loop'.rest = loop.rest \ {d}
         \/ loop.at = d /\ loop'.at = None /\ loop'.rest = loop.rest
  BY DEF DumpDone, Run
<1>2. loop'.at \notin loop'.rest
  BY <1>1, NoneIsFresh DEF LoopShape, LoopType
<1>3. mode # "down"
  BY DEF LoopShape, Idle, Run
<1>4. LoopShape'
  BY <1>1, <1>2, <1>3 DEF LoopShape
<1>5. \A e \in Dumps \ {d} : LoopElsewhere(e)
  BY <1>1, NoneIsFresh DEF LoopElsewhere, Held
<1>6. QED
  BY <1>4, <1>5

LEMMA LoopStays ==
  ASSUME LoopShape, UNCHANGED <<loop, mode>>
  PROVE  LoopShape' /\ \A e \in Dumps : LoopElsewhere(e)
BY DEF LoopShape, LoopElsewhere, Held

\* What is left to show of a step on d, once the others are out of its way.
LEMMA ServedByParts ==
  ASSUME NEW d \in Dumps, \A e \in Dumps : DumpServed(e), DumpServed(d)', mode' = mode,
         \A e \in Dumps \ {d} : ElsewhereInEngine(e) /\ ElsewhereInProcess(e) /\ LoopElsewhere(e)
  PROVE  \A e \in Dumps : DumpServed(e)'
BY ServedElsewhere

-----------------------------------------------------------------------------
(* Requests.                                                               *)

ServiceSound ==
  /\ ServiceTypeOK
  /\ \A d \in Dumps : DumpSafe(d)
  /\ LoopShape
  /\ \A d \in Dumps : DumpServed(d)

LEMMA SoundMeans ==
  ASSUME ServiceSound
  PROVE  /\ TypeOK /\ LoopType /\ LoopShape
         /\ \A d \in Dumps : DumpSafe(d) /\ DumpServed(d)
         /\ session \in [Dumps -> SessionStates] /\ hashed \in [Dumps -> Chunks]
         /\ queue \in [Dumps -> 0..(MaxAttempts - 1) \cup {None}] /\ mode \in Modes
BY DEF ServiceSound, ServiceTypeOK, LoopType

\* No list is affected by a step that does not belong to a list.
LEMMA NoList ==
  ASSUME NEW d \in Dumps, loop'.job \notin {"drain", "retention"}, mode' # "starting"
  PROVE  ListOf(d)'
BY DEF ListOf

LEMMA AdmitServed ==
  ASSUME ServiceSound, NEW g \in Grants, NEW d \in Dumps, AdmitUpload(g, d)
  PROVE  LoopShape' /\ \A e \in Dumps : DumpServed(e)'
<1> USE SoundMeans
<1>1. /\ dumps[d].phase = "absent" /\ dumps'[d].phase = "receiving" /\ staging'[d] = 0
      /\ \A e \in Dumps \ {d} : ElsewhereInEngine(e)
  BY DEF AdmitUpload, BeginUpload, FreshDump, CreateStaging, ReceivingRow, NoDump, TypeOK,
     ElsewhereInEngine
<1>2. session[d] = "none" /\ hashed[d] = 0 /\ queue[d] = None /\ d \notin stranded
  BY <1>1 DEF DumpServed, RequestOf, OwnerOf, SessionStates
<1>3. /\ session'[d] = "streaming" /\ hashed'[d] = 0 /\ queue'[d] = None /\ d \notin stranded'
      /\ \A e \in Dumps \ {d} : ElsewhereInProcess(e)
  BY <1>2 DEF AdmitUpload, ElsewhereInProcess
<1>4. loop = Idle /\ loop' = loop /\ mode' = mode /\ mode = "serving"
  BY DEF AdmitUpload, LoopFree
<1>5. loop'.job = "idle" /\ loop'.at = None
  BY <1>4 DEF Idle, Run
<1>6. RequestOf(d)' /\ OwnerOf(d)' /\ DigestOf(d)'
  BY <1>1, <1>3, <1>4, <1>5, NoneIsFresh DEF RequestOf, OwnerOf, DigestOf, At
<1>7. ListOf(d)'
  BY <1>4, <1>5, NoList
<1>8. QED
  BY <1>1, <1>3, <1>4, <1>6, <1>7, LoopStays, ServedByParts DEF DumpServed

LEMMA AdmitFailsServed ==
  ASSUME ServiceSound, NEW g \in Grants, NEW d \in Dumps, AdmitUploadFails(g, d)
  PROVE  LoopShape' /\ \A e \in Dumps : DumpServed(e)'
<1> USE SoundMeans
<1>1. /\ dumps[d].phase = "absent" /\ UNCHANGED <<dumps, vault, disturbed>>
      /\ \A e \in Dumps \ {d} : ElsewhereInEngine(e)
  BY DEF AdmitUploadFails, BeginUploadInterrupted, FreshDump, CreateStaging, TypeOK,
     ElsewhereInEngine, ledgerVars
<1>2. UNCHANGED <<session, hashed, queue, stranded, loop, mode>> /\ loop = Idle /\ mode = "serving"
  BY DEF AdmitUploadFails, LoopFree
<1>3. RequestOf(d)' /\ OwnerOf(d)' /\ DigestOf(d)'
  BY <1>1, <1>2 DEF DumpServed, RequestOf, OwnerOf, DigestOf, At, Inbound
<1>4. ListOf(d)'
  BY <1>2, NoList DEF Idle, Run
<1>5. QED
  BY <1>1, <1>2, <1>3, <1>4, LoopStays, ServedByParts DEF DumpServed, ElsewhereInProcess

\* The hash and the file grow together, or the stream is broken.
LEMMA StreamServed ==
  ASSUME ServiceSound, NEW d \in Dumps, ReceiveChunk(d) \/ ReceiveChunkFails(d)
  PROVE  LoopShape' /\ \A e \in Dumps : DumpServed(e)'
<1> USE SoundMeans
<1>1. /\ session[d] = "streaming" /\ dumps[d].phase = "receiving"
      /\ UNCHANGED <<queue, stranded, loop, mode>> /\ loop = Idle /\ mode # "starting"
  BY DEF DumpServed, RequestOf, ReceiveChunk, ReceiveChunkFails, LoopFree
<1>2. /\ UNCHANGED <<dumps, vault, disturbed>>
      /\ \A e \in Dumps \ {d} : ElsewhereInEngine(e) /\ ElsewhereInProcess(e)
  BY DEF ReceiveChunk, ReceiveChunkFails, AppendChunk, TypeOK, ElsewhereInEngine,
     ElsewhereInProcess, ledgerVars, engineVars
<1>3. \/ session'[d] = "streaming" /\ hashed'[d] = hashed[d] + 1 /\ staging'[d] = staging[d] + 1
      \/ session'[d] = "broken"
  BY <1>1 DEF ReceiveChunk, ReceiveChunkFails, AppendChunk, TypeOK
<1>4. loop.at = None /\ loop.job = "idle"
  BY <1>1 DEF Idle, Run
<1>5. RequestOf(d)'
  BY <1>1, <1>2, <1>3, <1>4, NoneIsFresh DEF DumpServed, RequestOf, At
<1>6. OwnerOf(d)' /\ DigestOf(d)'
  BY <1>1, <1>2, <1>3 DEF DumpServed, OwnerOf, DigestOf, Inbound
<1>7. ListOf(d)'
  BY <1>1, <1>4, NoList
<1>8. QED
  BY <1>1, <1>2, <1>5, <1>6, <1>7, LoopStays, ServedByParts DEF DumpServed

\* The request gets its turn: to seal, to fail or to process.
LEMMA TurnServed ==
  ASSUME ServiceSound, NEW d \in Dumps, StreamEnds(d) \/ StreamAborts(d) \/ StartProcessing(d)
  PROVE  LoopShape' /\ \A e \in Dumps : DumpServed(e)'
<1> USE SoundMeans
<1>1. /\ UNCHANGED <<dumps, staging, vault, disturbed, session, hashed, queue, stranded, mode>>
      /\ LoopFree
  BY DEF StreamEnds, StreamAborts, StartProcessing, SyncAndClose, ledgerVars, engineVars
<1>2. \/ session[d] = "streaming" /\ loop' = Run("seal", d, {})
      \/ session[d] \in {"streaming", "broken"} /\ loop' = Run("fail", d, {})
      \/ session[d] = "sealed" /\ loop' = Run("process", d, {})
  BY DEF StreamEnds, StreamAborts, StartProcessing
<1>3. LoopShape' /\ \A e \in Dumps \ {d} : LoopElsewhere(e)
  BY <1>1, <1>2, TurnStarts
<1>4. \/ session[d] = "streaming" /\ loop'.job = "seal"
      \/ session[d] \in {"streaming", "broken"} /\ loop'.job = "fail"
      \/ session[d] = "sealed" /\ loop'.job = "process"
  BY <1>2 DEF Run
<1>5. RequestOf(d)'
  BY <1>1, <1>4 DEF DumpServed, RequestOf, At
<1>6. OwnerOf(d)' /\ DigestOf(d)'
  BY <1>1 DEF DumpServed, OwnerOf, DigestOf, Inbound
<1>7. ListOf(d)'
  BY <1>1, <1>4, NoList DEF LoopFree
<1>8. QED
  BY <1>1, <1>3, <1>5, <1>6, <1>7, ServedByParts DEF DumpServed, ElsewhereInEngine,
     ElsewhereInProcess

\* An engine command on d leaves every other dump alone.
LEMMA CommandElsewhere ==
  ASSUME TypeOK, NEW d \in Dumps,
         \/ IntakeStep(d) \/ CustodyStep(d) \/ RepairStep(d) \/ OutsideStep(d)
         \/ UNCHANGED engineVars
  PROVE  \A e \in Dumps \ {d} : ElsewhereInEngine(e)
<1>1. CASE UNCHANGED engineVars
  BY <1>1 DEF engineVars, ElsewhereInEngine
<1>2. CASE ~UNCHANGED engineVars
  BY <1>2, OneDumpStep DEF ElsewhereInEngine
<1>3. QED
  BY <1>1, <1>2

\* SealUpload names the digest of the bytes in the file.
LEMMA SealServed ==
  ASSUME ServiceSound, NEW d \in Dumps, Seal(d)
  PROVE  LoopShape' /\ \A e \in Dumps : DumpServed(e)'
<1> USE SoundMeans
<1>1. /\ session[d] = "streaming" /\ dumps[d].phase = "receiving"
      /\ d \notin disturbed => staging[d] = hashed[d] /\ vault[d] = None
      /\ queue[d] = None /\ d \notin stranded
  BY DEF DumpServed, RequestOf, OwnerOf, Seal, DumpSafe, FilesAsPromised
<1>2. SealUpload(d, hashed[d]) /\ hashed[d] \in Chunks
  BY DEF Seal
<1>3. \A e \in Dumps \ {d} : ElsewhereInEngine(e) /\ ElsewhereInProcess(e)
  BY <1>2, CommandElsewhere DEF IntakeStep, Seal, ElsewhereInProcess
<1>4. dumps[d] \in DumpRow /\ hashed[d] \in Objects
  BY <1>2 DEF TypeOK, Objects
<1>5. /\ dumps'[d].phase = "sealed" /\ dumps'[d].digest = hashed[d]
      /\ UNCHANGED <<staging, vault, disturbed>>
  BY <1>2, <1>4, SealedFields DEF SealUpload, TransitionDump, TypeOK, vaultVars
<1>6. /\ session'[d] = "sealed" /\ UNCHANGED <<queue, stranded, mode>> /\ loop' = Idle
      /\ loop.job = "seal"
  BY DEF Seal, At
<1>7. LoopShape' /\ mode \notin {"down", "starting"} /\ \A e \in Dumps \ {d} : LoopElsewhere(e)
  BY <1>6, TurnGoesOn
<1>8. loop'.job = "idle"
  BY <1>6 DEF Idle, Run
<1>9. RequestOf(d)' /\ OwnerOf(d)' /\ DigestOf(d)'
  BY <1>1, <1>5, <1>6, <1>7, <1>8 DEF RequestOf, OwnerOf, DigestOf, At
<1>10. ListOf(d)'
  BY <1>6, <1>7, <1>8, NoList
<1>11. QED
  BY <1>3, <1>6, <1>7, <1>9, <1>10, ServedByParts DEF DumpServed

LEMMA SealFailsServed ==
  ASSUME ServiceSound, NEW d \in Dumps, SealFails(d)
  PROVE  LoopShape' /\ \A e \in Dumps : DumpServed(e)'
<1> USE SoundMeans
<1>1. /\ UNCHANGED <<dumps, staging, vault, disturbed, session, hashed, queue, stranded, mode>>
      /\ loop' = Run("fail", d, {}) /\ At("seal", d) /\ loop.job = "seal"
  BY DEF SealFails, engineVars, At
<1>2. LoopShape' /\ mode \notin {"down", "starting"} /\ \A e \in Dumps \ {d} : LoopElsewhere(e)
  BY <1>1, TurnGoesOn
<1>3. loop'.job = "fail"
  BY <1>1 DEF Run
<1>4. RequestOf(d)' /\ OwnerOf(d)' /\ DigestOf(d)'
  BY <1>1, <1>3 DEF DumpServed, RequestOf, OwnerOf, DigestOf, At, Inbound
<1>5. ListOf(d)'
  BY <1>1, <1>2, <1>3, NoList
<1>6. QED
  BY <1>1, <1>2, <1>4, <1>5, ServedByParts DEF DumpServed, ElsewhereInEngine, ElsewhereInProcess

\* A request that ends hands its dump to the queue or to the operator, or has
\* settled it.
LEMMA RequestEndsServed ==
  ASSUME ServiceSound, NEW d \in Dumps, loop.job \in {"fail", "process"}, loop.at = d,
         RequestEnds(d), mode' = mode, session[d] # "none",
         \A e \in Dumps \ {d} : ElsewhereInEngine(e),
         \A e \in Dumps \ {d} : queue'[e] = queue[e] /\ (e \in stranded' <=> e \in stranded),
         DigestOf(d)', dumps'[d].phase # "absent",
         queue'[d] = None \/ d \notin stranded',
         Inbound(d)' => queue'[d] # None \/ d \in stranded'
  PROVE  LoopShape' /\ \A e \in Dumps : DumpServed(e)'
<1> USE SoundMeans
<1>1. /\ session'[d] = "none" /\ hashed'[d] = 0 /\ loop' = Idle
      /\ \A e \in Dumps \ {d} : ElsewhereInProcess(e)
  BY DEF RequestEnds, ElsewhereInProcess
<1>2. LoopShape' /\ mode \notin {"down", "starting"} /\ \A e \in Dumps \ {d} : LoopElsewhere(e)
  BY <1>1, TurnGoesOn
<1>3. loop'.job = "idle" /\ loop'.at = None
  BY <1>1 DEF Idle, Run
<1>4. RequestOf(d)' /\ OwnerOf(d)'
  BY <1>1, <1>2, <1>3 DEF RequestOf, OwnerOf, At
<1>5. ListOf(d)'
  BY <1>2, <1>3, NoList
<1>6. QED
  BY <1>1, <1>2, <1>4, <1>5, ServedByParts DEF DumpServed

LEMMA FailServed ==
  ASSUME ServiceSound, NEW d \in Dumps, Fail(d) \/ FailFails(d)
  PROVE  LoopShape' /\ \A e \in Dumps : DumpServed(e)'
<1> USE SoundMeans
<1>1. /\ loop.job = "fail" /\ loop.at = d /\ RequestEnds(d) /\ mode' = mode /\ UNCHANGED queue
      /\ \A e \in Dumps \ {d} : e \in stranded' <=> e \in stranded
  BY DEF Fail, FailFails, At
<1>2. session[d] \in {"streaming", "broken"} /\ dumps[d].phase = "receiving" /\ queue[d] = None
  BY <1>1 DEF DumpServed, RequestOf, OwnerOf, At
<1>3. /\ FailUpload(d) \/ FailUploadInterrupted(d) \/ UNCHANGED engineVars
      /\ ~FailUpload(d) => d \in stranded' /\ UNCHANGED dumps
  BY DEF Fail, FailFails, FailUploadInterrupted, ledgerVars, engineVars
<1>4. \A e \in Dumps \ {d} : ElsewhereInEngine(e)
  BY <1>3, CommandElsewhere DEF IntakeStep
<1>5. FailUpload(d) => dumps'[d].phase = "rejected"
  <2>1. dumps[d] \in DumpRow
    BY DEF TypeOK
  <2>2. QED
    BY <2>1, FailedFields DEF FailUpload, TransitionDump, TypeOK
<1>6. DigestOf(d)'
  <2>1. CASE UNCHANGED engineVars
    BY <2>1 DEF engineVars, DumpServed, DigestOf
  <2>2. QED
    BY <1>3, <2>1, DigestKept DEF DumpServed
<1>7. dumps'[d].phase # "absent" /\ (Inbound(d)' => d \in stranded')
  BY <1>2, <1>3, <1>5 DEF Inbound
<1>8. QED
  BY <1>1, <1>2, <1>4, <1>6, <1>7, RequestEndsServed

LEMMA ProcessedServed ==
  ASSUME ServiceSound, NEW d \in Dumps, Processed(d)
  PROVE  LoopShape' /\ \A e \in Dumps : DumpServed(e)'
<1> USE SoundMeans
<1>1. /\ loop.job = "process" /\ loop.at = d /\ RequestEnds(d)
      /\ UNCHANGED <<dumps, staging, vault, disturbed, mode, queue, stranded>>
      /\ dumps[d].phase \in {"available", "rejected"}
  BY DEF Processed, At, ProcessReturns, engineVars
<1>2. session[d] = "sealed" /\ queue[d] = None
  BY <1>1 DEF DumpServed, RequestOf, OwnerOf, At
<1>3. DigestOf(d)' /\ dumps'[d].phase # "absent" /\ ~Inbound(d)'
  BY <1>1 DEF DumpServed, DigestOf, Inbound
<1>4. QED
  BY <1>1, <1>2, <1>3, RequestEndsServed DEF ElsewhereInEngine

\* An attempt that failed leaves the row where it was.
LEMMA ThrowsKeeps ==
  ASSUME TypeOK, NEW d \in Dumps, DumpSafe(d), DigestOf(d), ProcessThrows(d)
  PROVE  /\ UNCHANGED <<dumps, disturbed>> /\ DigestOf(d)'
         /\ \A e \in Dumps \ {d} : ElsewhereInEngine(e)
<1>1. PromoteObjectInterrupted(d) \/ UNCHANGED engineVars
  BY DEF ProcessThrows, engineVars
<1>2. CASE PromoteObjectInterrupted(d)
  <2>1. UNCHANGED <<dumps, disturbed>>
    BY <1>2 DEF PromoteObjectInterrupted, ledgerVars
  <2>2. QED
    BY <1>2, <2>1, DigestKept, CommandElsewhere DEF Quiet, IntakeStep
<1>3. CASE UNCHANGED engineVars
  BY <1>3 DEF engineVars, DigestOf, ElsewhereInEngine
<1>4. QED
  BY <1>1, <1>2, <1>3

LEMMA ProcessFailsServed ==
  ASSUME ServiceSound, NEW d \in Dumps, ProcessFails(d)
  PROVE  LoopShape' /\ \A e \in Dumps : DumpServed(e)'
<1> USE SoundMeans
<1>1. /\ loop.job = "process" /\ loop.at = d /\ RequestEnds(d) /\ mode' = mode /\ ProcessThrows(d)
      /\ Enqueue(d) \/ EnqueueRefused(d)
  BY DEF ProcessFails, At
<1>2. session[d] = "sealed" /\ queue[d] = None /\ d \notin stranded /\ dumps[d].phase # "absent"
  BY <1>1 DEF DumpServed, RequestOf, OwnerOf, At
<1>3. /\ UNCHANGED dumps /\ DigestOf(d)' /\ \A e \in Dumps \ {d} : ElsewhereInEngine(e)
  BY <1>1, ThrowsKeeps DEF DumpServed
<1>4. /\ \A e \in Dumps \ {d} : queue'[e] = queue[e] /\ (e \in stranded' <=> e \in stranded)
      /\ \/ queue'[d] = 0 /\ d \notin stranded'
         \/ queue'[d] = None /\ d \in stranded'
  BY <1>1, <1>2 DEF Enqueue, EnqueueRefused
<1>5. QED
  BY <1>1, <1>2, <1>3, <1>4, NoneIsFresh, RequestEndsServed

-----------------------------------------------------------------------------
(* Handlers that work through a list.                                      *)

\* A quiet command of a handler that goes on with the same dump.
LEMMA QuietServed ==
  ASSUME ServiceSound, NEW d \in Dumps, Quiet(d),
         UNCHANGED <<mode, loop, session, hashed, queue, stranded>>, ListOf(d)'
  PROVE  LoopShape' /\ \A e \in Dumps : DumpServed(e)'
<1> USE SoundMeans
<1>1. RequestOf(d)' /\ DigestOf(d)' /\ OwnerOf(d)'
  BY QuietKeeps
<1>2. \A e \in Dumps \ {d} : ElsewhereInEngine(e) /\ ElsewhereInProcess(e)
  BY QuietIsStep, CommandElsewhere DEF ElsewhereInProcess
<1>3. QED
  BY <1>1, <1>2, LoopStays, ServedByParts DEF DumpServed

LEMMA ProcessServed ==
  ASSUME ServiceSound, NEW d \in Dumps, Process(d) \/ Drain(d)
  PROVE  LoopShape' /\ \A e \in Dumps : DumpServed(e)'
<1> USE SoundMeans
<1>1. Quiet(d) /\ UNCHANGED <<mode, loop, session, hashed, queue, stranded>>
  BY DEF Process, Drain, ProcessStep, serviceVars, Quiet
<1>2. loop.job \in {"process", "drain"} /\ mode # "starting"
  BY DEF Process, Drain, At, LoopShape
<1>3. ListOf(d)'
  BY <1>1, <1>2 DEF DumpServed, ListOf, Held
<1>4. QED
  BY <1>1, <1>3, QuietServed

LEMMA NextServed ==
  ASSUME ServiceSound, NEW d \in Dumps, NextDump(d)
  PROVE  LoopShape' /\ \A e \in Dumps : DumpServed(e)'
<1> USE SoundMeans
<1>1. /\ UNCHANGED <<dumps, staging, vault, disturbed, session, hashed, queue, stranded, mode>>
      /\ loop.job \in {"drain", "retention", "reconcile"} /\ d \in loop.rest /\ loop.at = None
      /\ loop' = Run(loop.job, d, loop.rest \ {d})
  BY DEF NextDump, engineVars
<1>2. LoopShape' /\ \A e \in Dumps \ {d} : LoopElsewhere(e)
  BY <1>1, ListMoves
<1>3. loop'.job = loop.job /\ loop'.at = d
  BY <1>1 DEF Run
<1>4. RequestOf(d)' /\ OwnerOf(d)' /\ DigestOf(d)'
  BY <1>1, <1>3 DEF DumpServed, RequestOf, OwnerOf, DigestOf, At, Inbound
<1>5. ListOf(d)'
  BY <1>1, <1>3 DEF DumpServed, ListOf, Held
<1>6. QED
  BY <1>1, <1>2, <1>4, <1>5, ServedByParts DEF DumpServed, ElsewhereInEngine, ElsewhereInProcess

\* The handler is through with d; what it leaves of d, the owner included.
LEMMA DoneServed ==
  ASSUME ServiceSound, NEW d \in Dumps, loop.job \in {"drain", "retention", "reconcile"},
         loop.at = d, DumpDone, mode' = mode, UNCHANGED <<session, hashed>>,
         \A e \in Dumps \ {d} : ElsewhereInEngine(e),
         \A e \in Dumps \ {d} : queue'[e] = queue[e] /\ (e \in stranded' <=> e \in stranded),
         dumps[d].phase \in {"receiving", "absent"} =>
           dumps'[d].phase = dumps[d].phase /\ staging'[d] = staging[d],
         dumps'[d].phase = "absent" => dumps[d].phase = "absent",
         d \in disturbed' <=> d \in disturbed,
         DigestOf(d)', OwnerOf(d)', mode = "starting" => Settled(d)'
  PROVE  LoopShape' /\ \A e \in Dumps : DumpServed(e)'
<1> USE SoundMeans
<1>1. LoopShape' /\ \A e \in Dumps \ {d} : LoopElsewhere(e)
  BY ListMoves
<1>2. loop'.job = loop.job /\ loop'.at = None /\ loop'.rest = loop.rest /\ d \notin loop.rest
  BY DEF DumpDone, Run, LoopShape
<1>3. ~Held(d)'
  BY <1>2, NoneIsFresh DEF Held
<1>4. RequestOf(d)'
  BY <1>2, NoneIsFresh DEF DumpServed, RequestOf, At
<1>5. ListOf(d)'
  BY <1>3 DEF ListOf
<1>6. QED
  BY <1>1, <1>4, <1>5, ServedByParts DEF DumpServed, ElsewhereInProcess

LEMMA DrainedServed ==
  ASSUME ServiceSound, NEW d \in Dumps, Drained(d)
  PROVE  LoopShape' /\ \A e \in Dumps : DumpServed(e)'
<1> USE SoundMeans
<1>1. /\ loop.job = "drain" /\ loop.at = d /\ DumpDone
      /\ UNCHANGED <<dumps, staging, vault, disturbed, session, hashed, stranded, mode>>
      /\ dumps[d].phase \in {"available", "rejected"}
      /\ queue'[d] = None /\ \A e \in Dumps \ {d} : queue'[e] = queue[e]
  BY DEF Drained, At, ProcessReturns, engineVars
<1>2. mode # "starting"
  BY <1>1 DEF LoopShape
<1>3. DigestOf(d)' /\ OwnerOf(d)'
  BY <1>1 DEF DumpServed, DigestOf, OwnerOf, Inbound
<1>4. QED
  BY <1>1, <1>2, <1>3, DoneServed DEF ElsewhereInEngine

LEMMA DrainFailsServed ==
  ASSUME ServiceSound, NEW d \in Dumps, DrainFails(d)
  PROVE  LoopShape' /\ \A e \in Dumps : DumpServed(e)'
<1> USE SoundMeans
<1>1. /\ loop.job = "drain" /\ loop.at = d /\ DumpDone /\ ProcessThrows(d) /\ AttemptFailed(d)
      /\ UNCHANGED <<session, hashed, mode>>
  BY DEF DrainFails, At
<1>2. queue[d] # None /\ session[d] = "none" /\ d \notin stranded /\ dumps[d].phase # "absent"
  BY <1>1 DEF DumpServed, OwnerOf, ListOf, Held
<1>3. queue[d] \in Nat
  BY <1>2, ServiceBoundsAreNat
<1>4. /\ UNCHANGED <<dumps, disturbed>> /\ DigestOf(d)' /\ \A e \in Dumps \ {d} : ElsewhereInEngine(e)
  BY <1>1, ThrowsKeeps DEF DumpServed
<1>5. /\ \A e \in Dumps \ {d} : queue'[e] = queue[e] /\ (e \in stranded' <=> e \in stranded)
      /\ \/ queue'[d] = queue[d] + 1 /\ d \notin stranded'
         \/ queue'[d] = None /\ d \in stranded'
  BY <1>1, <1>2 DEF AttemptFailed
<1>6. queue[d] + 1 # None
  BY <1>3, NoneIsFresh
<1>7. mode \notin {"starting", "down"}
  BY <1>1 DEF LoopShape, Idle, Run
<1>8. OwnerOf(d)'
  BY <1>1, <1>2, <1>4, <1>5, <1>6, <1>7 DEF OwnerOf
<1>9. dumps[d].phase = "receiving" => staging'[d] = staging[d]
  BY <1>1 DEF ProcessThrows, engineVars, PromoteObjectInterrupted
<1>10. QED
  BY <1>1, <1>2, <1>4, <1>5, <1>7, <1>8, <1>9, DoneServed

\* A purge begins only for a dump that is still due.
LEMMA RetainServed ==
  ASSUME ServiceSound, NEW d \in Dumps, Retain(d) \/ RetainFails(d)
  PROVE  LoopShape' /\ \A e \in Dumps : DumpServed(e)'
<1> USE SoundMeans
<1>1. /\ loop.job = "retention" /\ loop.at = d
      /\ UNCHANGED <<mode, session, hashed, queue, stranded>>
  BY DEF Retain, RetainFails, At
<1>2. mode # "starting" /\ mode # "down" /\ dumps[d] \in DumpRow
  BY <1>1 DEF LoopShape, Idle, Run, TypeOK
<1>3. CASE BeginPurge(d) /\ UNCHANGED loop
  <2>1. dumps'[d].phase = "deleting"
    BY <1>2, <1>3, DeletingFields DEF BeginPurge, TransitionDump, TypeOK
  <2>2. ListOf(d)'
    BY <1>1, <1>2, <1>3, <2>1 DEF ListOf
  <2>3. QED
    BY <1>1, <1>3, <2>2, QuietServed DEF Quiet, CustodyStep
<1>4. CASE /\ FinishPurge(d) \/ FinishPurgeInterrupted(d) \/ UNCHANGED engineVars
           /\ DumpDone
  <2>1. /\ dumps'[d].phase = dumps[d].phase \/ (dumps[d].phase = "deleting" /\ dumps'[d].phase = "deleted")
        /\ UNCHANGED disturbed
    BY <1>2, <1>4, DeletedFields
    DEF FinishPurge, FinishPurgeInterrupted, TransitionDump, engineVars, ledgerVars, TypeOK
  <2>2. \A e \in Dumps \ {d} : ElsewhereInEngine(e)
    BY <1>4, CommandElsewhere DEF CustodyStep
  <2>3. DigestOf(d)'
    <3>1. CASE UNCHANGED engineVars
      BY <3>1 DEF engineVars, DumpServed, DigestOf
    <3>2. CASE ~UNCHANGED engineVars
      BY <1>4, <3>2, DigestKept DEF DumpServed, Quiet, CustodyStep
    <3>3. QED
      BY <3>1, <3>2
  <2>4. OwnerOf(d)'
    BY <1>1, <2>1 DEF DumpServed, OwnerOf, Inbound
  <2>5. dumps[d].phase \in {"receiving", "absent"} => staging'[d] = staging[d]
    BY <1>4 DEF FinishPurge, FinishPurgeInterrupted, TransitionDump, engineVars
  <2>6. QED
    BY <1>1, <1>2, <1>4, <2>1, <2>2, <2>3, <2>4, <2>5, DoneServed
<1>5. QED
  BY <1>3, <1>4 DEF Retain, RetainFails

LEMMA ReconcileServed ==
  ASSUME ServiceSound, NEW d \in Dumps, Reconcile(d)
  PROVE  LoopShape' /\ \A e \in Dumps : DumpServed(e)'
<1> USE SoundMeans
<1>1. /\ loop.job = "reconcile" /\ loop.at = d
      /\ UNCHANGED <<mode, loop, session, hashed, queue, stranded>>
      /\ Quiet(d) \/ FailUpload(d)
  BY DEF Reconcile, At, ProcessStep, ReconcileCommand, serviceVars, Quiet, CustodyStep, RepairStep
<1>2. mode = "starting"
  BY <1>1 DEF LoopShape
<1>3. session[d] = "none" /\ queue[d] = None /\ d \notin stranded /\ hashed[d] = 0
  BY <1>2 DEF DumpServed, OwnerOf, RequestOf
<1>4. RequestOf(d)' /\ OwnerOf(d)'
  BY <1>1, <1>2, <1>3 DEF RequestOf, OwnerOf, At
<1>5. ListOf(d)'
  BY <1>1, <1>2 DEF ListOf, Held
<1>6. DigestOf(d)'
  BY <1>1, DigestKept DEF DumpServed
<1>7. \A e \in Dumps \ {d} : ElsewhereInEngine(e)
  BY <1>1, CommandElsewhere, QuietIsStep DEF IntakeStep
<1>8. QED
  BY <1>1, <1>4, <1>5, <1>6, <1>7, LoopStays, ServedByParts DEF DumpServed, ElsewhereInProcess

LEMMA ReconciledServed ==
  ASSUME ServiceSound, NEW d \in Dumps, Reconciled(d)
  PROVE  LoopShape' /\ \A e \in Dumps : DumpServed(e)'
<1> USE SoundMeans
<1>1. /\ loop.job = "reconcile" /\ loop.at = d /\ DumpDone
      /\ UNCHANGED <<dumps, staging, vault, disturbed, session, hashed, queue, stranded, mode>>
      /\ NothingToRepair(d) \/ dumps[d].phase = "absent"
  BY DEF Reconciled, At, engineVars
<1>2. Settled(d)'
  BY <1>1 DEF Settled, NothingToRepair, Alarmed, Unrecoverable
<1>3. DigestOf(d)' /\ OwnerOf(d)'
  BY <1>1 DEF DumpServed, DigestOf, OwnerOf, Inbound
<1>4. QED
  BY <1>1, <1>2, <1>3, DoneServed DEF ElsewhereInEngine

\* A process that is gone owns nothing.
LEMMA GoneServed ==
  ASSUME ProcessGone, \A d \in Dumps : DigestOf(d)'
  PROVE  LoopShape' /\ \A e \in Dumps : DumpServed(e)'
<1>1. /\ mode' = "down" /\ loop' = Idle /\ loop'.job = "idle" /\ loop'.at = None /\ loop'.rest = {}
  BY DEF ProcessGone, Idle, Run
<1>2. LoopShape'
  BY <1>1 DEF LoopShape
<1>3. ASSUME NEW d \in Dumps PROVE RequestOf(d)' /\ OwnerOf(d)' /\ ListOf(d)'
  BY <1>1, <1>3 DEF ProcessGone, RequestOf, OwnerOf, ListOf, At
<1>4. QED
  BY <1>2, <1>3 DEF DumpServed

LEMMA ReconcileFailsServed ==
  ASSUME ServiceSound, NEW d \in Dumps, ReconcileFails(d)
  PROVE  LoopShape' /\ \A e \in Dumps : DumpServed(e)'
<1> USE SoundMeans
<1>1. /\ ProcessGone
      /\ \/ FailUploadInterrupted(d) \/ PromoteObjectInterrupted(d) \/ FinishPurgeInterrupted(d)
         \/ UNCHANGED engineVars
  BY DEF ReconcileFails
<1>2. \A e \in Dumps \ {d} : DigestOf(e)'
  <2>1. \A e \in Dumps \ {d} : ElsewhereInEngine(e)
    BY <1>1, CommandElsewhere DEF IntakeStep, CustodyStep
  <2>2. QED
    BY <2>1 DEF DumpServed, DigestOf, ElsewhereInEngine
<1>3. DigestOf(d)'
  <2>1. CASE UNCHANGED engineVars
    BY <2>1 DEF engineVars, DumpServed, DigestOf
  <2>2. CASE ~UNCHANGED engineVars
    BY <1>1, <2>2, DigestKept DEF DumpServed, Quiet, CustodyStep
  <2>3. QED
    BY <2>1, <2>2
<1>4. QED
  BY <1>1, <1>2, <1>3, GoneServed

-----------------------------------------------------------------------------
(* The ends of handlers, the timers, startup and shutdown.                 *)

LEMMA EndServed ==
  ASSUME ServiceSound, DrainEnds \/ RetentionEnds
  PROVE  LoopShape' /\ \A e \in Dumps : DumpServed(e)'
<1> USE SoundMeans
<1>1. /\ UNCHANGED <<dumps, staging, vault, disturbed, session, hashed, queue, stranded, mode>>
      /\ loop' = Idle /\ loop.job \in {"drain", "retention"}
      /\ loop'.job = "idle" /\ loop'.at = None /\ loop'.rest = {}
  BY DEF DrainEnds, RetentionEnds, engineVars, Idle, Run
<1>2. mode \notin {"starting", "down"}
  BY <1>1 DEF LoopShape, Idle, Run
<1>3. LoopShape'
  BY <1>1, <1>2 DEF LoopShape
<1>4. ASSUME NEW e \in Dumps PROVE DumpServed(e)'
  <2>1. LoopElsewhere(e)
    BY <1>1, <1>2, NoneIsFresh DEF LoopElsewhere
  <2>2. QED
    BY <1>1, <2>1, ServedElsewhere DEF ElsewhereInEngine, ElsewhereInProcess
<1>5. QED
  BY <1>3, <1>4

\* The recovery is through: what it did not settle was disturbed.
LEMMA ReconcileEndsServed ==
  ASSUME ServiceSound, ReconcileEnds
  PROVE  LoopShape' /\ \A e \in Dumps : DumpServed(e)'
<1> USE SoundMeans
<1>1. /\ UNCHANGED <<dumps, staging, vault, disturbed, session, hashed, queue, stranded>>
      /\ loop.job = "reconcile" /\ loop.at = None /\ loop.rest = {} /\ mode' = "serving"
      /\ loop' = Idle /\ loop'.job = "idle" /\ loop'.at = None /\ loop'.rest = {}
  BY DEF ReconcileEnds, engineVars, Idle, Run
<1>2. mode = "starting"
  BY <1>1 DEF LoopShape
<1>3. LoopShape'
  BY <1>1 DEF LoopShape
<1>4. ASSUME NEW e \in Dumps PROVE DumpServed(e)'
  <2>1. Settled(e) /\ session[e] = "none" /\ queue[e] = None /\ e \notin stranded
    BY <1>1, <1>2, NoneIsFresh DEF DumpServed, ListOf, OwnerOf, Held
  <2>2. Inbound(e) => e \in disturbed
    BY <2>1 DEF Settled, Alarmed, Unrecoverable, Inbound, DumpSafe, RowCoherent, FilesAsPromised
  <2>3. RequestOf(e)' /\ DigestOf(e)'
    BY <1>1, NoneIsFresh DEF DumpServed, RequestOf, DigestOf, At
  <2>4. OwnerOf(e)'
    BY <1>1, <2>1, <2>2 DEF OwnerOf, Inbound
  <2>5. ListOf(e)'
    BY <1>1, NoList
  <2>6. QED
    BY <2>3, <2>4, <2>5 DEF DumpServed
<1>5. QED
  BY <1>3, <1>4

LEMMA TimerServed ==
  ASSUME ServiceSound, DrainTimer \/ RetentionTimer
  PROVE  LoopShape' /\ \A e \in Dumps : DumpServed(e)'
<1> USE SoundMeans
<1>1. /\ UNCHANGED <<dumps, staging, vault, disturbed, session, hashed, queue, stranded, mode>>
      /\ mode \in {"serving", "closing"}
  BY DEF DrainTimer, RetentionTimer, engineVars, LoopFree
<1>2. PICK S \in SUBSET Dumps :
        \/ loop' = Run("drain", None, S) /\ S = Pending
        \/ loop' = Run("retention", None, S) /\ S \subseteq Candidates
  <2>1. CASE DrainTimer
    <3>1. Pending \in SUBSET Dumps
      BY DEF Pending
    <3>2. QED
      BY <2>1, <3>1 DEF DrainTimer
  <2>2. CASE RetentionTimer
    BY <2>2 DEF RetentionTimer, Slice
  <2>3. QED
    BY <2>1, <2>2
<1>3. /\ loop'.at = None /\ loop'.rest = S
      /\ \/ loop'.job = "drain" /\ S = Pending
         \/ loop'.job = "retention" /\ S \subseteq Candidates
  BY <1>2 DEF Run
<1>4. LoopShape'
  BY <1>1, <1>3, NoneIsFresh DEF LoopShape
<1>5. ASSUME NEW e \in Dumps PROVE DumpServed(e)'
  <2>1. RequestOf(e)' /\ DigestOf(e)' /\ OwnerOf(e)'
    BY <1>1, <1>3 DEF DumpServed, RequestOf, DigestOf, OwnerOf, At, Inbound
  <2>2. Held(e)' <=> e \in S
    BY <1>3, NoneIsFresh DEF Held
  <2>3. ListOf(e)'
    BY <1>1, <1>3, <2>2 DEF ListOf, Pending, Candidates, Due, Deleting
  <2>4. QED
    BY <2>1, <2>3 DEF DumpServed
<1>6. QED
  BY <1>4, <1>5

LEMMA BootServed ==
  ASSUME ServiceSound, Boot
  PROVE  LoopShape' /\ \A e \in Dumps : DumpServed(e)'
<1> USE SoundMeans
<1> DEFINE L == {d \in Dumps : dumps[d].phase # "absent" \/ staging[d] # None}
<1>1. /\ UNCHANGED <<dumps, staging, vault, disturbed, session, hashed, queue, stranded>>
      /\ mode = "down" /\ mode' = "starting"
      /\ loop'.job = "reconcile" /\ loop'.at = None /\ loop'.rest = L
  BY DEF Boot, engineVars, Run
<1>2. LoopShape'
  BY <1>1, NoneIsFresh DEF LoopShape
<1>3. ASSUME NEW e \in Dumps PROVE DumpServed(e)'
  <2>1. RequestOf(e)' /\ DigestOf(e)' /\ OwnerOf(e)'
    BY <1>1 DEF DumpServed, RequestOf, DigestOf, OwnerOf, At
  <2>2. ListOf(e)'
    BY <1>1 DEF ListOf, Held, Settled
  <2>3. QED
    BY <2>1, <2>2 DEF DumpServed
<1>4. QED
  BY <1>2, <1>3

LEMMA ShutdownServed ==
  ASSUME ServiceSound, Shutdown
  PROVE  LoopShape' /\ \A e \in Dumps : DumpServed(e)'
<1> USE SoundMeans
<1>1. /\ UNCHANGED <<dumps, staging, vault, disturbed, session, hashed, queue, stranded, loop>>
      /\ mode = "serving" /\ mode' = "closing"
  BY DEF Shutdown, engineVars
<1>2. QED
  BY <1>1 DEF LoopShape, DumpServed, RequestOf, DigestOf, OwnerOf, ListOf, At, Held, Inbound

LEMMA StopServed ==
  ASSUME ServiceSound, ShutdownEnds \/ Crash
  PROVE  LoopShape' /\ \A e \in Dumps : DumpServed(e)'
<1>1. ProcessGone /\ UNCHANGED <<dumps, staging, vault, disturbed>>
  BY DEF ShutdownEnds, Crash, DescriptorsDropped, ledgerVars
<1>2. \A d \in Dumps : DigestOf(d)'
  BY <1>1, SoundMeans DEF DumpServed, DigestOf
<1>3. QED
  BY <1>1, <1>2, GoneServed

-----------------------------------------------------------------------------
(* Everyone else.                                                          *)

LEMMA UnchangedServed ==
  ASSUME ServiceSound,
         UNCHANGED <<dumps, staging, vault, disturbed, session, hashed, queue, stranded, loop, mode>>
  PROVE  LoopShape' /\ \A e \in Dumps : DumpServed(e)'
<1>1. LoopShape' /\ \A e \in Dumps : LoopElsewhere(e)
  BY SoundMeans, LoopStays
<1>2. QED
  BY <1>1, SoundMeans, ServedElsewhere DEF ElsewhereInEngine, ElsewhereInProcess

LEMMA OperateServed ==
  ASSUME ServiceSound, Operate
  PROVE  LoopShape' /\ \A e \in Dumps : DumpServed(e)'
<1> USE SoundMeans
<1>1. /\ UNCHANGED <<session, hashed, queue, stranded, loop, mode>>
      /\ mode = "serving" /\ loop.job = "idle"
  BY DEF Operate, serviceVars, LoopFree, Idle, Run
<1>2. ASSUME NEW d \in Dumps, CustodyStep(d) PROVE LoopShape' /\ \A e \in Dumps : DumpServed(e)'
  <2>1. ListOf(d)'
    BY <1>1, NoList
  <2>2. QED
    BY <1>1, <1>2, <2>1, QuietServed DEF Quiet
<1>3. CASE (\E c \in Cases : CaseRequest(c)) \/ (\E g \in Grants : GrantRequest(g))
  <2>1. UNCHANGED <<dumps, staging, vault, disturbed>>
    BY <1>3 DEF CaseRequest, GrantRequest, CaseStep, CreateCase, StartInvestigation, WaitForCustomer,
       ResumeInvestigation, ResolveCase, TransitionCase, CloseCase, IssueGrant, RevokeGrant,
       TransitionGrant, vaultVars
  <2>2. QED
    BY <1>1, <2>1, UnchangedServed
<1>4. CASE \/ \E d \in Dumps : RetentionRequest(d)
           \/ \E d \in Dumps, a \in Analyses, form \in {"summary", "rich"} : AnalysisRequest(d, a, form)
  BY <1>2, <1>4 DEF RetentionRequest, AnalysisRequest, CustodyStep
<1>5. QED
  BY <1>3, <1>4 DEF Operate

LEMMA ClockServed ==
  ASSUME ServiceSound, ClockTicks
  PROVE  LoopShape' /\ \A e \in Dumps : DumpServed(e)'
<1> USE SoundMeans
<1>1. UNCHANGED <<session, hashed, queue, stranded, loop, mode>>
  BY DEF ClockTicks, serviceVars
<1>2. ASSUME NEW g \in Grants, GrantDeadlinePasses(g) PROVE LoopShape' /\ \A e \in Dumps : DumpServed(e)'
  BY <1>1, <1>2, UnchangedServed DEF GrantDeadlinePasses, vaultVars
<1>3. ASSUME NEW d \in Dumps, PurgeDeadlinePasses(d) PROVE LoopShape' /\ \A e \in Dumps : DumpServed(e)'
  <2>1. dumps[d] \in DumpRow /\ "due" \in Deadlines
    BY DEF TypeOK, Deadlines
  <2>2. /\ dumps'[d].phase = dumps[d].phase /\ dumps'[d].blob = dumps[d].blob
        /\ dumps'[d].purgeAt = "due" /\ UNCHANGED <<staging, vault>>
    BY <1>3, <2>1, DatedFields DEF PurgeDeadlinePasses, vaultVars, TypeOK
  <2>3. ListOf(d)'
    BY <1>1, <2>2 DEF DumpServed, ListOf, Held, Settled, Alarmed, Unrecoverable
  <2>4. QED
    BY <1>1, <1>3, <2>3, QuietServed DEF Quiet, CustodyStep
<1>4. QED
  BY <1>2, <1>3 DEF ClockTicks

\* Files that vanish during the recovery turn a settled dump into an alarm.
LEMMA DiskServed ==
  ASSUME ServiceSound, DiskDisturbed
  PROVE  LoopShape' /\ \A e \in Dumps : DumpServed(e)'
<1> USE SoundMeans
<1>1. UNCHANGED <<session, hashed, queue, stranded, loop, mode>>
  BY DEF DiskDisturbed, serviceVars
<1>2. PICK d \in Dumps : OutsideStep(d)
  BY DEF DiskDisturbed
<1>3. UNCHANGED dumps
  BY <1>2 DEF OutsideStep, FilesVanish, FilesReappear, ledgerVars
<1>4. Settled(d) => Settled(d)'
  <2>1. CASE FilesVanish(d)
    BY <2>1, <1>3 DEF FilesVanish, Settled, Alarmed, Unrecoverable, TypeOK
  <2>2. CASE FilesReappear(d)
    BY <2>2, <1>3 DEF FilesReappear, Settled
  <2>3. QED
    BY <1>2, <2>1, <2>2 DEF OutsideStep
<1>5. ListOf(d)'
  BY <1>1, <1>3, <1>4 DEF DumpServed, ListOf, Held
<1>6. QED
  BY <1>1, <1>2, <1>5, QuietServed DEF Quiet

\* Every step of the service keeps each dump with its one owner, each list
\* true and each digest that of the bytes.
LEMMA ServedStep ==
  ASSUME ServiceSound, [ServiceNext]_vars
  PROVE  LoopShape' /\ \A e \in Dumps : DumpServed(e)'
<1>1. ASSUME NEW d \in Dumps, RequestStep(d) PROVE LoopShape' /\ \A e \in Dumps : DumpServed(e)'
  BY <1>1, AdmitServed, AdmitFailsServed, StreamServed, TurnServed DEF RequestStep
<1>2. ASSUME NEW d \in Dumps, HandlerStep(d) PROVE LoopShape' /\ \A e \in Dumps : DumpServed(e)'
  <2>1. CASE Seal(d) \/ SealFails(d) \/ Fail(d) \/ FailFails(d) \/ Processed(d) \/ ProcessFails(d)
    BY <2>1, SealServed, SealFailsServed, FailServed, ProcessedServed, ProcessFailsServed
  <2>2. CASE Process(d) \/ Drain(d) \/ NextDump(d) \/ Drained(d) \/ DrainFails(d)
    BY <2>2, ProcessServed, NextServed, DrainedServed, DrainFailsServed
  <2>3. CASE Retain(d) \/ RetainFails(d) \/ Reconcile(d) \/ Reconciled(d) \/ ReconcileFails(d)
    BY <2>3, RetainServed, ReconcileServed, ReconciledServed, ReconcileFailsServed
  <2>4. QED
    BY <1>2, <2>1, <2>2, <2>3 DEF HandlerStep
<1>3. CASE HandlerEnds
  BY <1>3, EndServed, ReconcileEndsServed DEF HandlerEnds
<1>4. CASE UNCHANGED vars
  BY <1>4, UnchangedServed DEF vars, engineVars, serviceVars
<1>5. QED
  BY <1>1, <1>2, <1>3, <1>4, TimerServed, BootServed, ShutdownServed, StopServed, OperateServed,
     ClockServed, DiskServed DEF ServiceNext

-----------------------------------------------------------------------------
(* Leases, the queue and the types of the process state.                   *)

LEMMA OwnersFinite ==
  /\ IsFiniteSet(Live) /\ IsFiniteSet(Pending)
  /\ Cardinality(Live) \in Nat /\ Cardinality(Pending) \in Nat
BY DumpsFinite, FS_Subset, FS_CardinalityType DEF Live, Pending

\* What a step does to the requests in progress: one begins, one ends, all
\* are gone, or they are as they were.
LEMMA LiveMoves ==
  ASSUME ServiceSound, [ServiceNext]_vars
  PROVE  \/ \E d \in Dumps \ Live : Live' = Live \cup {d} /\ active < Capacity /\ active' = active + 1
         \/ \E d \in Live : Live' = Live \ {d} /\ active' = active - 1
         \/ Live' = {} /\ active' = 0
         \/ Live' = Live /\ active' = active
<1> USE SoundMeans
<1> DEFINE Ends(d) == d \in Live /\ Live' = Live \ {d} /\ active' = active - 1
<1>1. ASSUME NEW d \in Dumps, NEW g \in Grants, AdmitUpload(g, d)
      PROVE  d \notin Live /\ Live' = Live \cup {d} /\ active < Capacity /\ active' = active + 1
  <2>1. dumps[d].phase = "absent" /\ session' = [session EXCEPT ![d] = "streaming"]
        /\ active < Capacity /\ active' = active + 1
    BY <1>1 DEF AdmitUpload, BeginUpload, FreshDump
  <2>2. session[d] = "none"
    BY <2>1 DEF DumpServed, RequestOf
  <2>3. QED
    BY <2>1, <2>2 DEF Live
<1>2. ASSUME NEW d \in Dumps, RequestEnds(d), loop.job \in {"fail", "process"}, loop.at = d
      PROVE  Ends(d)
  <2>1. session[d] # "none"
    BY <1>2 DEF DumpServed, RequestOf, At
  <2>2. QED
    BY <1>2, <2>1 DEF RequestEnds, Live
<1>3. ASSUME NEW d \in Dumps, Fail(d) \/ FailFails(d) \/ Processed(d) \/ ProcessFails(d)
      PROVE  Ends(d)
  BY <1>2, <1>3 DEF Fail, FailFails, Processed, ProcessFails, At
<1>4. CASE ProcessGone
  BY <1>4 DEF ProcessGone, Live
<1>5. ASSUME NEW d \in Dumps, ReceiveChunkFails(d) \/ Seal(d) PROVE Live' = Live /\ active' = active
  <2>1. session[d] = "streaming"
    BY <1>5 DEF ReceiveChunkFails, Seal, DumpServed, RequestOf
  <2>2. QED
    BY <1>5, <2>1 DEF ReceiveChunkFails, Seal, Live
<1>6. CASE UNCHANGED <<session, active>>
  BY <1>6 DEF Live
<1>7. ASSUME NEW d \in Dumps, RequestStep(d), ~ \E g \in Grants : AdmitUpload(g, d),
             ~ReceiveChunkFails(d)
      PROVE  UNCHANGED <<session, active>>
  BY <1>7 DEF RequestStep, AdmitUploadFails, ReceiveChunk, StreamEnds, StreamAborts, StartProcessing
<1>8. ASSUME NEW d \in Dumps, HandlerStep(d), ~Seal(d), ~Fail(d), ~FailFails(d), ~Processed(d),
             ~ProcessFails(d)
      PROVE  UNCHANGED <<session, active>> \/ ProcessGone
  BY <1>8 DEF HandlerStep, SealFails, Process, NextDump, Drain, Drained, DrainFails, Retain,
     RetainFails, Reconcile, Reconciled, ReconcileFails, ProcessStep, serviceVars
<1>9. CASE ~ \E d \in Dumps : RequestStep(d) \/ HandlerStep(d)
  BY <1>4, <1>6, <1>9 DEF ServiceNext, HandlerEnds, DrainEnds, RetentionEnds, ReconcileEnds,
     DrainTimer, RetentionTimer, Boot, Shutdown, ShutdownEnds, Crash, Operate, ClockTicks,
     DiskDisturbed, serviceVars, vars
<1>10. CASE \E d \in Dumps : RequestStep(d)
  BY <1>1, <1>5, <1>6, <1>7, <1>10
<1>11. CASE \E d \in Dumps : HandlerStep(d)
  <2>1. PICK d \in Dumps : HandlerStep(d)
    BY <1>11
  <2>2. CASE Fail(d) \/ FailFails(d) \/ Processed(d) \/ ProcessFails(d)
    BY <1>3, <2>2
  <2>3. CASE Seal(d)
    BY <1>5, <2>3
  <2>4. QED
    BY <1>4, <1>6, <1>8, <2>1, <2>2, <2>3
<1>12. QED
  BY <1>9, <1>10, <1>11

\* What a step does to the queue.
LEMMA PendingMoves ==
  ASSUME ServiceSound, [ServiceNext]_vars
  PROVE  \/ \E d \in Dumps : /\ Pending' = Pending \cup {d} /\ timer' = TRUE
                             /\ d \in Pending \/ Cardinality(Pending) < MaxPending
         \/ /\ Pending' \subseteq Pending
            /\ \/ Pending' = {}
               \/ timer' = timer /\ (loop'.job = "drain" <=> loop.job = "drain")
               \/ loop'.job = "drain"
               \/ timer' = (Pending' # {})
<1> USE SoundMeans
<1>0. 0 # None
  BY NoneIsFresh
<1>1. ASSUME NEW d \in Dumps, ProcessFails(d), Enqueue(d)
      PROVE  /\ Pending' = Pending \cup {d} /\ timer' = TRUE
             /\ d \in Pending \/ Cardinality(Pending) < MaxPending
  BY <1>0, <1>1 DEF Enqueue, Pending
<1>2. ASSUME NEW d \in Dumps, ProcessFails(d), EnqueueRefused(d)
      PROVE  Pending' = Pending /\ timer' = timer /\ loop'.job # "drain" /\ loop.job # "drain"
  BY <1>2 DEF ProcessFails, RequestEnds, EnqueueRefused, Pending, At, Idle, Run
<1>3. ASSUME NEW d \in Dumps, Drained(d) \/ DrainFails(d)
      PROVE  Pending' \subseteq Pending /\ timer' = timer /\ loop'.job = loop.job
  <2>1. queue[d] # None
    BY <1>3 DEF DumpServed, ListOf, Held, Drained, DrainFails, At
  <2>2. /\ \A e \in Dumps \ {d} : queue'[e] = queue[e]
        /\ timer' = timer /\ DumpDone
    BY <1>3 DEF Drained, DrainFails, AttemptFailed
  <2>3. QED
    BY <2>1, <2>2 DEF Pending, DumpDone, Run
<1>4. CASE ProcessGone
  BY <1>4 DEF ProcessGone, Pending
<1>5. CASE UNCHANGED <<queue, timer>> /\ (loop'.job = "drain" <=> loop.job = "drain")
  BY <1>5 DEF Pending
<1>6. ASSUME NEW d \in Dumps, RequestStep(d)
      PROVE  UNCHANGED <<queue, timer>> /\ (loop'.job = "drain" <=> loop.job = "drain")
  BY <1>6 DEF RequestStep, AdmitUpload, AdmitUploadFails, ReceiveChunk, ReceiveChunkFails,
     StreamEnds, StreamAborts, StartProcessing, LoopFree, Idle, Run
<1>7. ASSUME NEW d \in Dumps, HandlerStep(d), ~ProcessFails(d), ~Drained(d), ~DrainFails(d)
      PROVE  \/ UNCHANGED <<queue, timer>> /\ (loop'.job = "drain" <=> loop.job = "drain")
             \/ ProcessGone
  BY <1>7 DEF HandlerStep, Seal, SealFails, Fail, FailFails, Process, Processed, NextDump, Drain,
     Retain, RetainFails, Reconcile, Reconciled, ReconcileFails, ProcessStep, serviceVars,
     RequestEnds, DumpDone, At, Idle, Run
<1>8. CASE DrainEnds
  BY <1>8 DEF DrainEnds, Pending
<1>9. CASE DrainTimer
  BY <1>9 DEF DrainTimer, Pending, Run
<1>10. CASE Boot
  <2>1. Pending' = {}
    BY <1>10 DEF Boot, Pending, DumpServed, OwnerOf
  <2>2. QED
    BY <2>1
<1>11. CASE RetentionEnds \/ ReconcileEnds \/ RetentionTimer
  <2>1. CASE RetentionEnds \/ ReconcileEnds
    <3>1. /\ UNCHANGED <<queue, timer>> /\ loop' = Idle
          /\ loop = Run("retention", None, {}) \/ loop = Run("reconcile", None, {})
      BY <2>1 DEF RetentionEnds, ReconcileEnds
    <3>2. loop.job # "drain" /\ loop'.job # "drain"
      BY <3>1 DEF Idle, Run
    <3>3. QED
      BY <1>5, <3>1, <3>2
  <2>2. CASE RetentionTimer
    <3>1. UNCHANGED <<queue, timer>> /\ loop.job = "idle" /\ loop'.job = "retention"
      BY <2>2 DEF RetentionTimer, LoopFree, Idle, Run
    <3>2. QED
      BY <1>5, <3>1
  <2>3. QED
    BY <1>11, <2>1, <2>2
<1>12. CASE Shutdown \/ ShutdownEnds \/ Crash \/ Operate \/ ClockTicks \/ DiskDisturbed \/ UNCHANGED vars
  BY <1>4, <1>5, <1>12 DEF Shutdown, ShutdownEnds, Crash, Operate, ClockTicks, DiskDisturbed,
     serviceVars, vars
<1>13. CASE \E d \in Dumps : RequestStep(d) \/ HandlerStep(d)
  <2>1. PICK d \in Dumps : RequestStep(d) \/ HandlerStep(d)
    BY <1>13
  <2>2. CASE RequestStep(d)
    BY <1>5, <1>6, <2>2
  <2>3. CASE ProcessFails(d)
    <3>1. Enqueue(d) \/ EnqueueRefused(d)
      BY <2>3 DEF ProcessFails
    <3>2. QED
      BY <1>1, <1>2, <2>3, <3>1
  <2>4. CASE Drained(d) \/ DrainFails(d)
    BY <1>3, <2>4
  <2>5. CASE HandlerStep(d) /\ ~ProcessFails(d) /\ ~Drained(d) /\ ~DrainFails(d)
    BY <1>4, <1>5, <1>7, <2>5
  <2>6. QED
    BY <2>1, <2>2, <2>3, <2>4, <2>5
<1>14. QED
  BY <1>8, <1>9, <1>10, <1>11, <1>12, <1>13 DEF ServiceNext, HandlerEnds

LEMMA AccountedStep ==
  ASSUME ServiceSound, LeasesAccounted, Armed, [ServiceNext]_vars
  PROVE  LeasesAccounted' /\ active' \in 0..Capacity /\ Armed'
<1>1. active' = Cardinality(Live') /\ active' \in 0..Capacity
  <2>1. active = Cardinality(Live) /\ active \in 0..Capacity /\ Capacity \in Nat
    BY ServiceBoundsAreNat DEF LeasesAccounted, ServiceSound, ServiceTypeOK
  <2>2. ASSUME NEW d \in Dumps \ Live, Live' = Live \cup {d}, active < Capacity, active' = active + 1
        PROVE  active' = Cardinality(Live') /\ active' \in 0..Capacity
    <3>1. Cardinality(Live \cup {d}) = Cardinality(Live) + 1
      BY <2>2, OwnersFinite, FS_AddElement
    <3>2. QED
      BY <2>1, <2>2, <3>1, OwnersFinite
  <2>3. ASSUME NEW d \in Live, Live' = Live \ {d}, active' = active - 1
        PROVE  active' = Cardinality(Live') /\ active' \in 0..Capacity
    <3>1. Cardinality(Live) # 0
      BY <2>3, OwnersFinite, FS_EmptySet
    <3>2. Cardinality(Live \ {d}) = Cardinality(Live) - 1
      BY <2>3, OwnersFinite, FS_RemoveElement
    <3>3. QED
      BY <2>1, <2>3, <3>1, <3>2, OwnersFinite
  <2>4. CASE Live' = {} /\ active' = 0
    BY <2>1, <2>4, FS_EmptySet
  <2>5. CASE Live' = Live /\ active' = active
    BY <2>1, <2>5
  <2>6. QED
    BY <2>2, <2>3, <2>4, <2>5, LiveMoves
<1>2. Cardinality(Pending') <= MaxPending
  <2>1. Cardinality(Pending) <= MaxPending /\ MaxPending \in Nat
    BY ServiceBoundsAreNat DEF LeasesAccounted
  <2>2. ASSUME NEW d \in Dumps, Pending' = Pending \cup {d},
               d \in Pending \/ Cardinality(Pending) < MaxPending
        PROVE  Cardinality(Pending') <= MaxPending
    <3>1. Cardinality(Pending \cup {d}) = IF d \in Pending THEN Cardinality(Pending)
                                                           ELSE Cardinality(Pending) + 1
      BY <2>2, OwnersFinite, FS_AddElement
    <3>2. QED
      BY <2>1, <2>2, <3>1, OwnersFinite
  <2>3. ASSUME Pending' \subseteq Pending PROVE Cardinality(Pending') <= MaxPending
    <3>1. Cardinality(Pending') <= Cardinality(Pending) /\ IsFiniteSet(Pending')
      BY <2>3, OwnersFinite, FS_Subset
    <3>2. QED
      BY <2>1, <3>1, OwnersFinite, FS_CardinalityType
  <2>4. QED
    BY <2>2, <2>3, PendingMoves
<1>3. Armed'
  BY PendingMoves DEF Armed
<1>4. QED
  BY <1>1, <1>2, <1>3 DEF LeasesAccounted

LEMMA RunType ==
  ASSUME NEW job \in Jobs, NEW at \in Dumps \cup {None}, NEW rest \in SUBSET Dumps
  PROVE  Run(job, at, rest) \in [job: Jobs, at: Dumps \cup {None}, rest: SUBSET Dumps]
BY DEF Run

LEMMA LoopTypeStep ==
  ASSUME ServiceSound, [ServiceNext]_vars
  PROVE  LoopType' /\ mode' \in Modes
<1> USE SoundMeans
<1> USE DEF LoopType, Modes
<1>0. /\ Idle \in [job: Jobs, at: Dumps \cup {None}, rest: SUBSET Dumps]
      /\ \A d \in Dumps : \A job \in {"seal", "fail", "process"} :
           Run(job, d, {}) \in [job: Jobs, at: Dumps \cup {None}, rest: SUBSET Dumps]
      /\ \A S \in SUBSET Dumps : \A job \in {"drain", "retention", "reconcile"} :
           Run(job, None, S) \in [job: Jobs, at: Dumps \cup {None}, rest: SUBSET Dumps]
  BY RunType DEF Idle, Jobs
<1>1. ASSUME NEW d \in Dumps, RequestStep(d) PROVE LoopType' /\ mode' \in Modes
  BY <1>0, <1>1 DEF RequestStep, AdmitUpload, AdmitUploadFails, ReceiveChunk, ReceiveChunkFails,
     StreamEnds, StreamAborts, StartProcessing
<1>2. ASSUME NEW d \in Dumps, HandlerStep(d) PROVE LoopType' /\ mode' \in Modes
  <2>1. CASE Seal(d) \/ SealFails(d) \/ Fail(d) \/ FailFails(d) \/ Processed(d) \/ ProcessFails(d)
    BY <1>0, <2>1 DEF Seal, SealFails, Fail, FailFails, Processed, ProcessFails, RequestEnds
  <2>2. CASE Process(d) \/ Drain(d) \/ Reconcile(d)
    BY <2>2 DEF Process, Drain, Reconcile, ProcessStep, serviceVars
  <2>3. CASE NextDump(d)
    <3>1. loop.rest \ {d} \in SUBSET Dumps /\ loop.job \in Jobs
      OBVIOUS
    <3>2. QED
      BY <2>3, <3>1, RunType DEF NextDump
  <2>4. CASE DumpDone /\ mode' = mode
    <3>1. loop.rest \in SUBSET Dumps /\ loop.job \in Jobs
      OBVIOUS
    <3>2. QED
      BY <2>4, <3>1, RunType DEF DumpDone
  <2>5. CASE Drained(d) \/ DrainFails(d) \/ Retain(d) \/ RetainFails(d) \/ Reconciled(d)
    BY <2>4, <2>5 DEF Drained, DrainFails, Retain, RetainFails, Reconciled
  <2>6. CASE ReconcileFails(d)
    BY <1>0, <2>6 DEF ReconcileFails, ProcessGone
  <2>7. QED
    BY <1>2, <2>1, <2>2, <2>3, <2>5, <2>6 DEF HandlerStep
<1>3. CASE HandlerEnds
  BY <1>0, <1>3 DEF HandlerEnds, DrainEnds, RetentionEnds, ReconcileEnds
<1>4. CASE DrainTimer
  <2>1. Pending \in SUBSET Dumps
    BY DEF Pending
  <2>2. QED
    BY <1>0, <1>4, <2>1 DEF DrainTimer
<1>5. CASE RetentionTimer
  BY <1>0, <1>5 DEF RetentionTimer
<1>6. CASE Boot
  <2>1. {d \in Dumps : dumps[d].phase # "absent" \/ staging[d] # None} \in SUBSET Dumps
    OBVIOUS
  <2>2. QED
    BY <1>0, <1>6, <2>1 DEF Boot
<1>7. CASE Shutdown \/ ShutdownEnds \/ Crash
  BY <1>0, <1>7 DEF Shutdown, ShutdownEnds, Crash, ProcessGone
<1>8. CASE Operate \/ ClockTicks \/ DiskDisturbed \/ UNCHANGED vars
  BY <1>8 DEF Operate, ClockTicks, DiskDisturbed, serviceVars, vars
<1>9. QED
  BY <1>1, <1>2, <1>3, <1>4, <1>5, <1>6, <1>7, <1>8 DEF ServiceNext

\* An item in the queue has attempts left.
LEMMA OwnerTypeStep ==
  ASSUME ServiceSound, [ServiceNext]_vars
  PROVE  /\ session' \in [Dumps -> SessionStates]
         /\ queue' \in [Dumps -> 0..(MaxAttempts - 1) \cup {None}]
         /\ stranded' \in SUBSET Dumps
<1> USE SoundMeans
<1> DEFINE Goal == /\ session' \in [Dumps -> SessionStates]
                   /\ queue' \in [Dumps -> 0..(MaxAttempts - 1) \cup {None}]
                   /\ stranded' \in SUBSET Dumps
<1>0. stranded \in SUBSET Dumps
  BY DEF ServiceSound, ServiceTypeOK
<1> USE DEF SessionStates
<1>1. ASSUME NEW d \in Dumps, RequestStep(d) PROVE Goal
  BY <1>0, <1>1 DEF RequestStep, AdmitUpload, AdmitUploadFails, ReceiveChunk, ReceiveChunkFails,
     StreamEnds, StreamAborts, StartProcessing
<1>2. ASSUME NEW d \in Dumps, HandlerStep(d) PROVE Goal
  <2>1. CASE Seal(d) \/ SealFails(d) \/ Fail(d) \/ FailFails(d) \/ Processed(d)
    BY <1>0, <2>1 DEF Seal, SealFails, Fail, FailFails, Processed, RequestEnds
  <2>2. CASE ProcessFails(d)
    <3>1. 0 \in 0..(MaxAttempts - 1)
      BY ServiceBoundsAreNat
    <3>2. Enqueue(d) \/ EnqueueRefused(d)
      BY <2>2 DEF ProcessFails
    <3>3. stranded' \in SUBSET Dumps /\ queue' \in [Dumps -> 0..(MaxAttempts - 1) \cup {None}]
      BY <1>0, <3>1, <3>2 DEF Enqueue, EnqueueRefused
    <3>4. QED
      BY <2>2, <3>3 DEF ProcessFails, RequestEnds
  <2>3. CASE DrainFails(d)
    <3>1. queue[d] \in 0..(MaxAttempts - 1)
      BY <2>3 DEF DrainFails, DumpServed, ListOf, Held, At
    <3>2. (IF queue[d] + 1 >= MaxAttempts THEN None ELSE queue[d] + 1) \in 0..(MaxAttempts - 1) \cup {None}
      BY <3>1, ServiceBoundsAreNat
    <3>3. QED
      BY <1>0, <2>3, <3>2 DEF DrainFails, AttemptFailed
  <2>4. CASE Process(d) \/ Drain(d) \/ Reconcile(d)
    BY <1>0, <2>4 DEF Process, Drain, Reconcile, ProcessStep, serviceVars
  <2>5. CASE NextDump(d) \/ Drained(d) \/ Retain(d) \/ RetainFails(d) \/ Reconciled(d)
    BY <1>0, <2>5 DEF NextDump, Drained, Retain, RetainFails, Reconciled
  <2>6. CASE ReconcileFails(d)
    BY <2>6 DEF ReconcileFails, ProcessGone
  <2>7. QED
    BY <1>2, <2>1, <2>2, <2>3, <2>4, <2>5, <2>6 DEF HandlerStep
<1>3. CASE ShutdownEnds \/ Crash
  BY <1>3 DEF ShutdownEnds, Crash, ProcessGone
<1>4. CASE HandlerEnds \/ DrainTimer \/ RetentionTimer \/ Boot \/ Shutdown
  BY <1>0, <1>4 DEF HandlerEnds, DrainEnds, RetentionEnds, ReconcileEnds, DrainTimer, RetentionTimer,
     Boot, Shutdown
<1>5. CASE Operate \/ ClockTicks \/ DiskDisturbed \/ UNCHANGED vars
  BY <1>0, <1>5 DEF Operate, ClockTicks, DiskDisturbed, serviceVars, vars
<1>6. QED
  BY <1>1, <1>2, <1>3, <1>4, <1>5 DEF ServiceNext

LEMMA CounterTypeStep ==
  ASSUME ServiceSound, [ServiceNext]_vars
  PROVE  timer' \in BOOLEAN /\ restarts' \in 0..MaxRestarts /\ faults' \in 0..MaxFaults
<1> DEFINE Goal == timer' \in BOOLEAN /\ restarts' \in 0..MaxRestarts /\ faults' \in 0..MaxFaults
<1>0. /\ timer \in BOOLEAN /\ restarts \in 0..MaxRestarts /\ faults \in 0..MaxFaults
      /\ MaxRestarts \in Nat /\ MaxFaults \in Nat
  BY ServiceBoundsAreNat DEF ServiceSound, ServiceTypeOK
<1>1. Fault => faults' \in 0..MaxFaults
  BY <1>0 DEF Fault
<1>2. restarts < MaxRestarts /\ restarts' = restarts + 1 => restarts' \in 0..MaxRestarts
  BY <1>0
<1>3. ASSUME NEW d \in Dumps, RequestStep(d) PROVE Goal
  BY <1>0, <1>1, <1>3 DEF RequestStep, AdmitUpload, AdmitUploadFails, ReceiveChunk,
     ReceiveChunkFails, StreamEnds, StreamAborts, StartProcessing
<1>4. ASSUME NEW d \in Dumps, HandlerStep(d) PROVE Goal
  <2>1. CASE Seal(d) \/ SealFails(d) \/ Fail(d) \/ FailFails(d) \/ Processed(d)
    BY <1>0, <1>1, <2>1 DEF Seal, SealFails, Fail, FailFails, Processed
  <2>2. CASE ProcessFails(d)
    BY <1>0, <1>1, <2>2 DEF ProcessFails, ProcessThrows, Enqueue, EnqueueRefused
  <2>3. CASE Process(d) \/ Drain(d) \/ Reconcile(d)
    BY <1>0, <1>1, <2>3 DEF Process, Drain, Reconcile, ProcessStep, serviceVars
  <2>4. CASE NextDump(d) \/ Drained(d) \/ DrainFails(d) \/ Retain(d) \/ RetainFails(d) \/ Reconciled(d)
    BY <1>0, <1>1, <2>4 DEF NextDump, Drained, DrainFails, ProcessThrows, Retain, RetainFails, Reconciled
  <2>5. CASE ReconcileFails(d)
    BY <1>0, <1>1, <2>5 DEF ReconcileFails, ProcessGone
  <2>6. QED
    BY <1>4, <2>1, <2>2, <2>3, <2>4, <2>5 DEF HandlerStep
<1>5. CASE ShutdownEnds \/ Crash \/ Shutdown
  BY <1>0, <1>2, <1>5 DEF ShutdownEnds, Crash, Shutdown, ProcessGone
<1>6. CASE HandlerEnds \/ DrainTimer \/ RetentionTimer \/ Boot
  BY <1>0, <1>6 DEF HandlerEnds, DrainEnds, RetentionEnds, ReconcileEnds, DrainTimer, RetentionTimer,
     Boot
<1>7. CASE Operate \/ ClockTicks \/ DiskDisturbed \/ UNCHANGED vars
  BY <1>0, <1>7 DEF Operate, ClockTicks, DiskDisturbed, serviceVars, vars
<1>8. QED
  BY <1>3, <1>4, <1>5, <1>6, <1>7 DEF ServiceNext

ServiceInv == ServiceSound /\ LeasesAccounted /\ Armed

LEMMA ServiceInvInit == ServiceInit => ServiceInv
<1> SUFFICES ASSUME ServiceInit PROVE ServiceInv
  OBVIOUS
<1>1. TypeOK /\ \A d \in Dumps : DumpSafe(d)
  BY TypeInit, SafeInit DEF ServiceInit
<1>2. /\ loop = Idle /\ loop.job = "idle" /\ loop.at = None /\ loop.rest = {}
      /\ Live = {} /\ Pending = {} /\ LoopType
  BY DEF ServiceInit, Idle, Run, Live, Pending, LoopType, Jobs
<1>3. ServiceTypeOK
  <2>1. 0 \in Chunks /\ 0 \in 0..Capacity /\ 0 \in 0..MaxRestarts /\ 0 \in 0..MaxFaults
    BY ServiceBoundsAreNat, BoundsAreNat DEF Chunks
  <2>2. /\ mode \in Modes /\ session \in [Dumps -> SessionStates] /\ hashed \in [Dumps -> Chunks]
        /\ active \in 0..Capacity /\ timer \in BOOLEAN /\ stranded \in SUBSET Dumps
        /\ restarts \in 0..MaxRestarts /\ faults \in 0..MaxFaults
    BY <2>1 DEF ServiceInit, Modes, SessionStates
  <2>3. queue \in [Dumps -> 0..(MaxAttempts - 1) \cup {None}]
    BY DEF ServiceInit
  <2>4. QED
    BY <1>1, <1>2, <2>2, <2>3 DEF ServiceTypeOK, LoopType
<1>4. LoopShape /\ Armed
  BY <1>2 DEF ServiceInit, LoopShape, Armed
<1>5. LeasesAccounted
  BY <1>2, FS_EmptySet, ServiceBoundsAreNat DEF ServiceInit, LeasesAccounted
<1>6. ASSUME NEW d \in Dumps PROVE DumpServed(d)
  <2>1. dumps[d].phase = "absent"
    BY DEF ServiceInit, EngineInit, NoDump
  <2>2. QED
    BY <1>2, <2>1, NoneIsFresh DEF ServiceInit, DumpServed, RequestOf, DigestOf, OwnerOf, ListOf, At, Inbound
<1>7. QED
  BY <1>1, <1>3, <1>4, <1>5, <1>6 DEF ServiceInv, ServiceSound

LEMMA ServiceInvStep == ServiceInv /\ [ServiceNext]_vars => ServiceInv'
<1> SUFFICES ASSUME ServiceInv, [ServiceNext]_vars PROVE ServiceInv'
  OBVIOUS
<1>1. ServiceSound /\ HashedOK /\ TypeOK /\ \A d \in Dumps : DumpSafe(d)
  BY DEF ServiceInv, ServiceSound, ServiceTypeOK, HashedOK
<1>2. [EngineNext]_engineVars
  BY <1>1, StepIsEngineStep
<1>3. TypeOK' /\ \A d \in Dumps : DumpSafe(d)'
  BY <1>1, <1>2, TypeStep, SafeStep
<1>4. LeasesAccounted' /\ active' \in 0..Capacity /\ Armed'
  BY <1>1, AccountedStep DEF ServiceInv
<1>5. ServiceTypeOK'
  BY <1>1, <1>3, <1>4, HashedStep, LoopTypeStep, OwnerTypeStep, CounterTypeStep
  DEF ServiceTypeOK, HashedOK, LoopType
<1>6. QED
  BY <1>1, <1>3, <1>4, <1>5, ServedStep DEF ServiceInv, ServiceSound

\* The process invariant holds for any number of dumps, faults and restarts.
THEOREM ServiceInvariant == ServiceSafety => []ServiceInv
BY ServiceInvInit, ServiceInvStep, PTL DEF ServiceSafety

\* For any capacity, queue limit and number of attempts: a lease for each
\* request and no other, the queue within its limit, and a timer whenever
\* dumps are queued and the loop is free.
THEOREM ServiceIsAccounted == ServiceSafety => []ServiceAccounted
<1>1. ServiceInv => ServiceAccounted
  BY DEF ServiceInv, ServiceSound, ServiceAccounted, Armed, QueueArmed, LoopFree, Idle, Run
<1>2. QED
  BY <1>1, ServiceInvariant, PTL

\* No interleaving of requests, the queue, the retention job, faults and
\* recoveries leaves a dump on its way in without exactly one owner.
THEOREM DumpsAreOwned == ServiceSafety => []NoDumpForgotten
<1>1. ServiceInv => NoDumpForgotten
  BY DEF ServiceInv, ServiceSound, DumpServed, OwnerOf, NoDumpForgotten, Live, Pending
<1>2. QED
  BY <1>1, ServiceInvariant, PTL

\* The digest the ledger holds is that of the bytes it holds, whatever broke
\* while they came in, for uploads of any size.
THEOREM DigestsAreOfBytes == ServiceSafety => []DigestIsOfBytes
<1>1. ServiceInv => DigestIsOfBytes
  BY DEF ServiceInv, ServiceSound, DumpServed, DigestOf, DigestIsOfBytes
<1>2. QED
  BY <1>1, ServiceInvariant, PTL

-----------------------------------------------------------------------------
(* What the recovery and the retention job may never do.                   *)

\* Only the end of the recovery opens the service.
LEMMA ServingBegins ==
  ASSUME ServiceSound, [ServiceNext]_vars, mode = "starting", mode' = "serving"
  PROVE  ReconcileEnds
<1>1. loop.job = "reconcile" /\ loop # Idle /\ ~LoopFree
  BY SoundMeans DEF LoopShape, LoopFree, Idle, Run
<1>2. ASSUME NEW d \in Dumps, RequestStep(d) PROVE FALSE
  BY <1>1, <1>2 DEF RequestStep, AdmitUpload, AdmitUploadFails, ReceiveChunk, ReceiveChunkFails,
     StreamEnds, StreamAborts, StartProcessing
<1>3. ASSUME NEW d \in Dumps, HandlerStep(d) PROVE mode' \in {mode, "down"}
  BY <1>3 DEF HandlerStep, Seal, SealFails, Fail, FailFails, Process, Processed, ProcessFails, NextDump,
     Drain, Drained, DrainFails, Retain, RetainFails, Reconcile, Reconciled, ReconcileFails,
     ProcessStep, ProcessGone, serviceVars
<1>4. CASE \/ DrainEnds \/ RetentionEnds \/ DrainTimer \/ RetentionTimer \/ Boot \/ Shutdown
           \/ ShutdownEnds \/ Crash \/ Operate \/ ClockTicks \/ DiskDisturbed \/ UNCHANGED vars
  BY <1>4 DEF DrainEnds, RetentionEnds, DrainTimer, RetentionTimer, Boot, Shutdown, ShutdownEnds,
     Crash, ProcessGone, Operate, ClockTicks, DiskDisturbed, serviceVars, vars
<1>5. QED
  BY <1>2, <1>3, <1>4 DEF ServiceNext, HandlerEnds

\* Whatever state crashes left behind, and whatever happens to the disk
\* meanwhile, a startup that completes has settled or reported every dump.
THEOREM RecoveriesAreComplete == ServiceSafety => RecoveryIsComplete
<1>1. ASSUME ServiceInv, [ServiceNext]_vars, mode = "starting", mode' = "serving", NEW d \in Dumps
      PROVE  Settled(d)
  <2>1. ServiceSound
    BY <1>1 DEF ServiceInv
  <2>2. loop.at = None /\ loop.rest = {}
    BY <1>1, <2>1, ServingBegins DEF ReconcileEnds, Run
  <2>3. QED
    BY <1>1, <2>1, <2>2, SoundMeans, NoneIsFresh DEF DumpServed, ListOf, Held
<1>2. ServiceInv /\ [ServiceNext]_vars =>
        [mode = "starting" /\ mode' = "serving" =>
           \A d \in Dumps :
             dumps[d].phase \in {"absent", "available", "rejected", "deleted"} \/ Alarmed(d)]_vars
  BY <1>1 DEF Settled
<1>3. QED
  BY <1>2, ServiceInvariant, PTL DEF ServiceSafety, RecoveryIsComplete

\* No command but BeginPurge takes a dump out of circulation.
LEMMA NoPurge ==
  ASSUME TypeOK, NEW d \in Dumps,
         IntakeStep(d) \/ CustodyStep(d) \/ RepairStep(d) \/ OutsideStep(d), ~BeginPurge(d),
         NEW e \in Dumps, dumps'[e].phase = "deleting"
  PROVE  dumps[e].phase = "deleting"
<1> dumps[d] \in DumpRow /\ "future" \in Deadlines /\ "due" \in Deadlines
  BY DEF TypeOK, Deadlines
<1>1. CASE e # d
  BY <1>1, OneDumpStep
<1>2. CASE e = d
  <2> SUFFICES ASSUME dumps[d].phase # "deleting" PROVE FALSE
    BY <1>2
  <2>1. dumps[d].phase \in {"available", "rejected"} /\ dumps'[d].phase = "deleting"
    BY <1>2, RowMoves DEF PhaseMoves
  <2> USE DEF TypeOK, ledgerVars
  <2>2. CASE SetRetention(d)
    BY <2>1, <2>2, DatedFields DEF SetRetention, TransitionDump
  <2>3. CASE PurgeDeadlinePasses(d)
    BY <2>1, <2>3, DatedFields DEF PurgeDeadlinePasses
  <2>4. CASE IntakeStep(d)
    BY <2>1, <2>4 DEF IntakeStep, AppendChunk, SyncAndClose, SealUpload, FailUpload,
       FailUploadInterrupted, PromoteObject, PromoteObjectInterrupted, MarkQuarantined, AcceptDump,
       RejectDump, TransitionDump
  <2>5. CASE FinishPurge(d) \/ FinishPurgeInterrupted(d) \/ RepairStep(d) \/ OutsideStep(d)
    BY <2>1, <2>5 DEF FinishPurge, FinishPurgeInterrupted, TransitionDump, RepairStep, RemoveOrphan,
       RemoveRejectedResidue, RemoveTombstoneResidue, OutsideStep, FilesVanish, FilesReappear
  <2>6. CASE \E a \in Analyses, form \in {"summary", "rich"} : RecordAnalysis(d, a, form)
    BY <2>1, <2>6 DEF RecordAnalysis
  <2>7. QED
    BY <2>2, <2>3, <2>4, <2>5, <2>6 DEF CustodyStep
<1>3. QED
  BY <1>1, <1>2

LEMMA PurgeStep ==
  ASSUME ServiceSound, [ServiceNext]_vars, NEW e \in Dumps,
         dumps[e].phase # "deleting", dumps'[e].phase = "deleting"
  PROVE  dumps[e].purgeAt = "due" \/ vault[e] = None
<1> USE SoundMeans
<1>1. ASSUME NEW d \in Dumps, BeginPurge(d), dumps[d].purgeAt = "due" \/ vault[d] = None
      PROVE  dumps[e].purgeAt = "due" \/ vault[e] = None
  BY <1>1, OneDumpStep DEF CustodyStep
<1>2. ASSUME NEW d \in Dumps, NEW g \in Grants, BeginUpload(g, d) PROVE FALSE
  BY <1>2 DEF BeginUpload, ReceivingRow, NoDump, TypeOK
<1>3. ASSUME NEW d \in Dumps, RequestStep(d) PROVE FALSE
  <2>1. \/ \E g \in Grants : BeginUpload(g, d)
        \/ UNCHANGED dumps
    BY <1>3 DEF RequestStep, AdmitUpload, AdmitUploadFails, BeginUploadInterrupted, ReceiveChunk,
       AppendChunk, ReceiveChunkFails, StreamEnds, SyncAndClose, StreamAborts, StartProcessing,
       engineVars, ledgerVars
  <2>2. QED
    BY <1>2, <2>1
<1>4. ASSUME NEW d \in Dumps, HandlerStep(d), ~Retain(d), ~Reconcile(d) PROVE FALSE
  <2>1. \/ \E k \in Chunks : SealUpload(d, k)
        \/ FailUpload(d) \/ PromoteObject(d) \/ MarkQuarantined(d) \/ AcceptDump(d) \/ RejectDump(d)
        \/ UNCHANGED dumps
    BY <1>4 DEF HandlerStep, Seal, SealFails, Fail, FailFails, FailUploadInterrupted, Process,
       Processed, ProcessFails, ProcessStep, ProcessThrows, PromoteObjectInterrupted, NextDump, Drain,
       Drained, DrainFails, RetainFails, FinishPurgeInterrupted, Reconciled, ReconcileFails,
       engineVars, ledgerVars
  <2>2. IntakeStep(d) \/ UNCHANGED dumps
    BY <2>1 DEF IntakeStep
  <2>3. BeginPurge(d) => dumps[d].phase \in {"available", "rejected"}
    BY DEF BeginPurge, TransitionDump
  <2>4. IntakeStep(d) /\ ~(UNCHANGED dumps) => dumps[d].phase \notin {"available", "rejected"}
    BY DEF IntakeStep, AppendChunk, SyncAndClose, SealUpload, FailUpload, FailUploadInterrupted,
       PromoteObject, PromoteObjectInterrupted, MarkQuarantined, AcceptDump, RejectDump,
       TransitionDump, ledgerVars
  <2>5. QED
    BY <2>2, <2>3, <2>4, NoPurge
<1>5. ASSUME NEW d \in Dumps, Retain(d) PROVE dumps[e].purgeAt = "due" \/ vault[e] = None
  <2>1. CASE BeginPurge(d)
    <3>1. dumps[d].phase \in {"available", "rejected"} /\ loop.job = "retention" /\ loop.at = d
      BY <1>5, <2>1 DEF BeginPurge, TransitionDump, Retain, At
    <3>2. dumps[d].purgeAt = "due"
      BY <3>1 DEF DumpServed, ListOf, Held
    <3>3. QED
      BY <1>1, <2>1, <3>2
  <2>2. CASE FinishPurge(d) /\ ~BeginPurge(d)
    BY <2>2, NoPurge DEF CustodyStep
  <2>3. QED
    BY <1>5, <2>1, <2>2 DEF Retain
<1>6. ASSUME NEW d \in Dumps, Reconcile(d) PROVE dumps[e].purgeAt = "due" \/ vault[e] = None
  <2>1. CASE vault[d] = None /\ BeginPurge(d)
    BY <1>1, <2>1
  <2>2. CASE ~BeginPurge(d)
    <3>1. IntakeStep(d) \/ CustodyStep(d) \/ RepairStep(d)
      BY <1>6, <2>2 DEF Reconcile, ProcessStep, ReconcileCommand, IntakeStep, CustodyStep, RepairStep
    <3>2. QED
      BY <2>2, <3>1, NoPurge
  <2>3. CASE vault[d] # None /\ BeginPurge(d)
    <3>1. dumps[d].phase \in {"available", "rejected"} /\ dumps'[d].phase = "deleting"
      <4>1. dumps[d] \in DumpRow
        BY DEF TypeOK
      <4>2. QED
        BY <2>3, <4>1, DeletingFields DEF BeginPurge, TransitionDump, TypeOK
    <3>2. ProcessStep(d) \/ ReconcileCommand(d)
      BY <1>6 DEF Reconcile
    <3>3. ~ProcessStep(d) /\ ~FailUpload(d) /\ ~FinishPurge(d)
      BY <3>1 DEF ProcessStep, PromoteObject, MarkQuarantined, AcceptDump, RejectDump, FailUpload,
         FinishPurge, TransitionDump
    <3>4. ~RemoveOrphan(d) /\ ~RemoveRejectedResidue(d) /\ ~RemoveTombstoneResidue(d)
      BY <3>1 DEF RemoveOrphan, RemoveRejectedResidue, RemoveTombstoneResidue, ledgerVars
    <3>5. QED
      BY <2>3, <3>2, <3>3, <3>4 DEF ReconcileCommand
  <2>4. QED
    BY <2>1, <2>2, <2>3
<1>7. ASSUME NEW d \in Dumps, RetentionRequest(d) \/ PurgeDeadlinePasses(d) PROVE FALSE
  <2>1. dumps[d] \in DumpRow /\ "future" \in Deadlines /\ "due" \in Deadlines
    BY DEF TypeOK, Deadlines
  <2>2. dumps'[d].phase = dumps[d].phase /\ \A f \in Dumps \ {d} : dumps'[f] = dumps[f]
    BY <1>7, <2>1, DatedFields DEF RetentionRequest, SetRetention, TransitionDump,
       PurgeDeadlinePasses, TypeOK
  <2>3. QED
    BY <2>2
<1>8. CASE Operate \/ ClockTicks \/ DiskDisturbed
  <2>1. \/ UNCHANGED dumps
        \/ \E d \in Dumps : RetentionRequest(d) \/ PurgeDeadlinePasses(d)
    BY <1>8 DEF Operate, CaseRequest, GrantRequest, AnalysisRequest, RecordAnalysis, ClockTicks,
       DiskDisturbed, CaseStep, CreateCase, StartInvestigation, WaitForCustomer, ResumeInvestigation,
       ResolveCase, TransitionCase, CloseCase, IssueGrant, RevokeGrant, TransitionGrant,
       GrantDeadlinePasses, OutsideStep, FilesVanish, FilesReappear, ledgerVars
  <2>2. QED
    BY <1>7, <2>1
<1>9. CASE \/ HandlerEnds \/ DrainTimer \/ RetentionTimer \/ Boot \/ Shutdown \/ ShutdownEnds \/ Crash
           \/ UNCHANGED vars
  BY <1>9 DEF HandlerEnds, DrainEnds, RetentionEnds, ReconcileEnds, DrainTimer, RetentionTimer, Boot,
     Shutdown, ShutdownEnds, Crash, DescriptorsDropped, engineVars, ledgerVars, vars
<1>10. QED
  BY <1>3, <1>4, <1>5, <1>6, <1>8, <1>9 DEF ServiceNext

\* However operators move deadlines while the job runs, it purges only what is
\* due at that moment; the recovery purges only what is already lost.
THEOREM PurgesAreDue == ServiceSafety => PurgeOnlyWhenDue
<1>1. ServiceInv /\ [ServiceNext]_vars =>
        [\A d \in Dumps :
           dumps[d].phase # "deleting" /\ dumps'[d].phase = "deleting" =>
             dumps[d].purgeAt = "due" \/ vault[d] = None]_vars
  BY PurgeStep DEF ServiceInv
<1>2. QED
  BY <1>1, ServiceInvariant, PTL DEF ServiceSafety, PurgeOnlyWhenDue

\* The service keeps the promises of the engine: cases keep their dumps apart,
\* slots are counted, spent grants stay spent, reports live with their bytes,
\* and the abstract custody is kept.
THEOREM ServiceKeepsPromises ==
  ServiceSafety => /\ [](CaseIsolation /\ SlotsAccounted /\ AnalysesFollowBytes)
                   /\ VaultIsImmutable /\ TerminalGrantIsFinal /\ CustodyKept
<1>1. QED
  BY ServiceImplementsEngine, CasesAreIsolated, SlotsAreAccounted, AnalysesLiveWithBytes,
     VaultImmutable, TerminalGrantsAreFinal, EngineImplementsCustody, PTL DEF ImplementsEngine
=============================================================================
