---------------------------- MODULE DumpService ----------------------------
(***************************************************************************)
(* The running service around the engine: upload requests with their       *)
(* admission, the post-processing queue, the retention job, the startup    *)
(* reconciliation and the shutdown.  It decides who sends which engine     *)
(* command and when.                                                       *)
(*                                                                         *)
(* The program is one JavaScript event loop.  A handler runs from one      *)
(* await to the next without another handler in between, so the variable   *)
(* loop names the handler that has the thread; a new one starts only when  *)
(* loop is Idle.  Between two engine commands of a handler the process can *)
(* still die, and the clock and the disk do not wait.                      *)
(*                                                                         *)
(* A command that fails half-way leaves on disk what a crash in its middle *)
(* leaves; that crash is therefore the failure followed by Crash.          *)
(***************************************************************************)
EXTENDS DumpEngine

CONSTANTS
  Capacity,      \* UploadAdmission.capacity
  MaxPending,    \* PostProcessingQueue maxPending
  MaxAttempts,   \* PostProcessingQueue maxAttempts
  BatchSize,     \* runRetention limit
  MaxAnalyses,   \* MAX_ANALYSES_PER_DUMP
  MaxRestarts,   \* bound: crashes and shutdowns in a behaviour
  MaxFaults      \* bound: storage and network faults in a behaviour

ASSUME ServiceBoundsAreNat ==
  /\ Capacity \in Nat \ {0} /\ MaxPending \in Nat \ {0} /\ MaxAttempts \in Nat \ {0}
  /\ BatchSize \in Nat \ {0} /\ MaxAnalyses \in Nat \ {0} /\ MaxRestarts \in Nat /\ MaxFaults \in Nat

VARIABLES
  mode,      \* what main is doing
  loop,      \* the handler that has the thread: its job, dump and dumps still to do
  session,   \* the upload request of a dump
  hashed,    \* chunks that went into the hash of the upload of a dump
  active,    \* UploadAdmission.#active
  queue,     \* PostProcessingQueue.#pending: attempts made, or None
  timer,     \* PostProcessingQueue.#timer is armed
  stranded,  \* dumps this process has given up: #exhausted, 202 recovery-required, 500
  restarts,  \* crashes and shutdowns so far
  faults     \* faults so far

serviceVars == <<mode, loop, session, hashed, active, queue, timer, stranded, restarts, faults>>
vars == <<engineVars, serviceVars>>

Modes == {"down", "starting", "serving", "closing"}
Jobs == {"idle", "seal", "fail", "process", "drain", "retention", "reconcile"}
SessionStates == {"none", "streaming", "broken", "sealed"}

Run(job, at, rest) == [job |-> job, at |-> at, rest |-> rest]
Idle == Run("idle", None, {})

Pending == {d \in Dumps : queue[d] # None}
Live == {d \in Dumps : session[d] # "none"}

\* A handler of a request or a timer may start.
LoopFree == mode \in {"serving", "closing"} /\ loop = Idle

At(job, d) == loop.job = job /\ loop.at = d

\* A storage or network fault strikes.
Fault == faults < MaxFaults /\ faults' = faults + 1

ServiceInit ==
  /\ EngineInit
  /\ mode = "down"
  /\ loop = Idle
  /\ session = [d \in Dumps |-> "none"]
  /\ hashed = [d \in Dumps |-> 0]
  /\ active = 0
  /\ queue = [d \in Dumps |-> None]
  /\ timer = FALSE
  /\ stranded = {}
  /\ restarts = 0
  /\ faults = 0

-----------------------------------------------------------------------------
(* Upload requests.                                                        *)

\* tryAcquire and BeginUpload run in the same turn of the loop.
AdmitUpload(g, d) ==
  /\ mode = "serving" /\ LoopFree
  /\ active < Capacity
  /\ BeginUpload(g, d)
  /\ active' = active + 1
  /\ session' = [session EXCEPT ![d] = "streaming"]
  /\ UNCHANGED <<mode, loop, hashed, queue, timer, stranded, restarts, faults>>

\* Ledger and file system both refuse: the new staging file stays behind.
AdmitUploadFails(g, d) ==
  /\ mode = "serving" /\ LoopFree
  /\ active < Capacity
  /\ BeginUploadInterrupted(g, d)
  /\ Fault
  /\ UNCHANGED <<mode, loop, session, hashed, active, queue, timer, stranded, restarts>>

\* The write callback checks the size, hashes the chunk and then appends it.
ReceiveChunk(d) ==
  /\ LoopFree
  /\ session[d] = "streaming"
  /\ hashed[d] < MaxChunks
  /\ AppendChunk(d)
  /\ hashed' = [hashed EXCEPT ![d] = @ + 1]
  /\ UNCHANGED <<mode, loop, session, active, queue, timer, stranded, restarts, faults>>

\* The append throws: the chunk is hashed and not in the file.
ReceiveChunkFails(d) ==
  /\ LoopFree
  /\ session[d] = "streaming"
  /\ hashed[d] < MaxChunks
  /\ Fault
  /\ hashed' = [hashed EXCEPT ![d] = @ + 1]
  /\ session' = [session EXCEPT ![d] = "broken"]
  /\ UNCHANGED <<engineVars, mode, loop, active, queue, timer, stranded, restarts>>

\* Seeded fault: a broken write does not end the pipeline.
StreamEndsBroken(d) ==
  /\ LoopFree
  /\ session[d] \in {"streaming", "broken"}
  /\ SyncAndClose(d)
  /\ loop' = Run("seal", d, {})
  /\ UNCHANGED <<mode, session, hashed, active, queue, timer, stranded, restarts, faults>>

StreamEnds(d) ==
  /\ LoopFree
  /\ session[d] = "streaming"
  /\ SyncAndClose(d)
  /\ loop' = Run("seal", d, {})
  /\ UNCHANGED <<mode, session, hashed, active, queue, timer, stranded, restarts, faults>>

\* A timeout, a client that goes away, a byte over the limit, a failed write
\* or fsync: the pipeline or the sync throws.
StreamAborts(d) ==
  /\ LoopFree
  /\ session[d] \in {"streaming", "broken"}
  /\ loop' = Run("fail", d, {})
  /\ UNCHANGED <<engineVars, mode, session, hashed, active, queue, timer, stranded, restarts, faults>>

Seal(d) ==
  /\ At("seal", d)
  /\ SealUpload(d, hashed[d])
  /\ session' = [session EXCEPT ![d] = "sealed"]
  /\ loop' = Idle
  /\ UNCHANGED <<mode, hashed, active, queue, timer, stranded, restarts, faults>>

\* The staging file is gone, or the transaction fails: on to the catch block.
SealFails(d) ==
  /\ At("seal", d)
  /\ Fault \/ (staging[d] = None /\ UNCHANGED faults)
  /\ loop' = Run("fail", d, {})
  /\ UNCHANGED <<engineVars, mode, session, hashed, active, queue, timer, stranded, restarts>>

\* Seeded fault: the lease is not released.
RequestEndsUnreleased(d) ==
  /\ session' = [session EXCEPT ![d] = "none"]
  /\ hashed' = [hashed EXCEPT ![d] = 0]
  /\ loop' = Idle
  /\ UNCHANGED active

\* The finally of the route.
RequestEnds(d) ==
  /\ session' = [session EXCEPT ![d] = "none"]
  /\ hashed' = [hashed EXCEPT ![d] = 0]
  /\ loop' = Idle
  /\ active' = active - 1

Fail(d) ==
  /\ At("fail", d)
  /\ FailUpload(d)
  /\ RequestEnds(d)
  /\ UNCHANGED <<mode, queue, timer, stranded, restarts, faults>>

\* FailUpload fails as well: the request ends in 500 and the row stays.
FailFails(d) ==
  /\ At("fail", d)
  /\ FailUploadInterrupted(d) \/ UNCHANGED engineVars
  /\ Fault
  /\ RequestEnds(d)
  /\ stranded' = stranded \cup {d}
  /\ UNCHANGED <<mode, queue, timer, restarts>>

\* receive resolved; the route goes on with process.
StartProcessing(d) ==
  /\ LoopFree
  /\ session[d] = "sealed"
  /\ loop' = Run("process", d, {})
  /\ UNCHANGED <<engineVars, mode, session, hashed, active, queue, timer, stranded, restarts, faults>>

-----------------------------------------------------------------------------
(* EngineUploadPostProcessor.process, the same commands as the             *)
(* reconciliation of a sealed dump.                                        *)

\* No file, two files, or a row that points at the missing one.
Unrecoverable(d) ==
  /\ dumps[d].phase = "sealed"
  /\ \/ (staging[d] = None) = (vault[d] = None)
     \/ dumps[d].blob = "vault" /\ vault[d] = None

\* A command of the script succeeds; the next one is chosen by the phase.
\* The inspector only refuses well-formed bytes when reading them fails.
ProcessStep(d) ==
  \/ PromoteObject(d) /\ UNCHANGED serviceVars
  \/ MarkQuarantined(d) /\ UNCHANGED serviceVars
  \/ AcceptDump(d) /\ UNCHANGED serviceVars
  \/ /\ RejectDump(d)
     /\ Fault \/ (~Acceptable(d) /\ UNCHANGED faults)
     /\ UNCHANGED <<mode, loop, session, hashed, active, queue, timer, stranded, restarts>>

\* A command of the script fails, or no command fits the phase.
ProcessThrows(d) ==
  \/ /\ dumps[d].phase \in {"sealed", "quarantined"}
     /\ PromoteObjectInterrupted(d) \/ UNCHANGED engineVars
     /\ Fault
  \/ /\ Unrecoverable(d) \/ dumps[d].phase \notin {"sealed", "quarantined", "available", "rejected"}
     /\ UNCHANGED <<engineVars, faults>>

ProcessReturns(d) == dumps[d].phase \in {"available", "rejected"}

\* The request's own attempt.
Process(d) ==
  /\ At("process", d)
  /\ ProcessStep(d)

Processed(d) ==
  /\ At("process", d)
  /\ ProcessReturns(d)
  /\ RequestEnds(d)
  /\ UNCHANGED <<engineVars, mode, queue, timer, stranded, restarts, faults>>

Enqueue(d) ==
  /\ d \in Pending \/ Cardinality(Pending) < MaxPending
  /\ queue' = [queue EXCEPT ![d] = IF @ = None THEN 0 ELSE @]
  /\ timer' = TRUE
  /\ UNCHANGED stranded

\* A full queue: the answer is 202 recovery-required.
EnqueueRefused(d) ==
  /\ d \notin Pending /\ Cardinality(Pending) >= MaxPending
  /\ stranded' = stranded \cup {d}
  /\ UNCHANGED <<queue, timer>>

ProcessFails(d) ==
  /\ At("process", d)
  /\ ProcessThrows(d)
  /\ Enqueue(d) \/ EnqueueRefused(d)
  /\ RequestEnds(d)
  /\ UNCHANGED <<mode, restarts>>

-----------------------------------------------------------------------------
(* The timer of the post-processing queue.                                 *)

DrainTimer ==
  /\ LoopFree
  /\ timer
  /\ timer' = FALSE
  /\ loop' = Run("drain", None, Pending)
  /\ UNCHANGED <<engineVars, mode, session, hashed, active, queue, stranded, restarts, faults>>

\* A handler that works through a list takes up the next dump, in any order.
NextDump(d) ==
  /\ loop.job \in {"drain", "retention", "reconcile"}
  /\ loop.at = None
  /\ d \in loop.rest
  /\ loop' = Run(loop.job, d, loop.rest \ {d})
  /\ UNCHANGED <<engineVars, mode, session, hashed, active, queue, timer, stranded, restarts, faults>>

DumpDone == loop' = Run(loop.job, None, loop.rest)

Drain(d) ==
  /\ At("drain", d)
  /\ ProcessStep(d)

Drained(d) ==
  /\ At("drain", d)
  /\ ProcessReturns(d)
  /\ queue' = [queue EXCEPT ![d] = None]
  /\ DumpDone
  /\ UNCHANGED <<engineVars, mode, session, hashed, active, timer, stranded, restarts, faults>>

\* Seeded fault: an item that used up its attempts is dropped in silence.
AttemptFailedSilently(d) ==
  /\ queue' = [queue EXCEPT ![d] = IF @ + 1 >= MaxAttempts THEN None ELSE @ + 1]
  /\ UNCHANGED stranded

AttemptFailed(d) ==
  /\ queue' = [queue EXCEPT ![d] = IF @ + 1 >= MaxAttempts THEN None ELSE @ + 1]
  /\ stranded' = IF queue[d] + 1 >= MaxAttempts THEN stranded \cup {d} ELSE stranded

DrainFails(d) ==
  /\ At("drain", d)
  /\ ProcessThrows(d)
  /\ AttemptFailed(d)
  /\ DumpDone
  /\ UNCHANGED <<mode, session, hashed, active, timer, restarts>>

\* Seeded fault: a drain does not schedule the next one.
DrainEndsUnarmed ==
  /\ loop = Run("drain", None, {})
  /\ loop' = Idle
  /\ UNCHANGED <<engineVars, mode, session, hashed, active, queue, timer, stranded, restarts, faults>>

DrainEnds ==
  /\ loop = Run("drain", None, {})
  /\ loop' = Idle
  /\ timer' = (Pending # {})
  /\ UNCHANGED <<engineVars, mode, session, hashed, active, queue, stranded, restarts, faults>>

-----------------------------------------------------------------------------
(* The retention job.                                                      *)

Deleting == {d \in Dumps : dumps[d].phase = "deleting"}

\* Seeded fault: the WHERE clause without purge_at <= ?.
DueEver == {d \in Dumps : dumps[d].phase \in {"available", "rejected"} /\ dumps[d].purgeAt # "unset"}

Due == {d \in Dumps : dumps[d].phase \in {"available", "rejected"} /\ dumps[d].purgeAt = "due"}

\* Seeded fault: the job forgets purges that were interrupted.
CandidatesDueOnly == Due

Candidates == Deleting \cup Due

\* The first BatchSize candidates, interrupted purges before due ones.
Slice(S) ==
  /\ S \subseteq Candidates
  /\ IF Cardinality(Candidates) <= BatchSize THEN S = Candidates
                                             ELSE Cardinality(S) = BatchSize
  /\ S \subseteq Deleting \/ Deleting \subseteq S

RetentionTimer ==
  /\ mode = "serving" /\ LoopFree
  /\ Candidates # {}
  /\ \E S \in SUBSET Dumps : Slice(S) /\ loop' = Run("retention", None, S)
  /\ UNCHANGED <<engineVars, mode, session, hashed, active, queue, timer, stranded, restarts, faults>>

\* Seeded fault: both halves of the purge in one command.
RetainInOneStep(d) ==
  /\ At("retention", d)
  /\ dumps' = [dumps EXCEPT ![d] = DeletedRow(@)]
  /\ RemoveObject(d)
  /\ analyses' = [analyses EXCEPT ![d] = NoAnalyses]
  /\ DumpDone
  /\ UNCHANGED <<caseStatus, grants, disturbed, mode, session, hashed, active, queue, timer,
                 stranded, restarts, faults>>

Retain(d) ==
  /\ At("retention", d)
  /\ \/ BeginPurge(d) /\ UNCHANGED loop
     \/ FinishPurge(d) /\ DumpDone
  /\ UNCHANGED <<mode, session, hashed, active, queue, timer, stranded, restarts, faults>>

RetainFails(d) ==
  /\ At("retention", d)
  /\ FinishPurgeInterrupted(d) \/ UNCHANGED engineVars
  /\ Fault
  /\ DumpDone
  /\ UNCHANGED <<mode, session, hashed, active, queue, timer, stranded, restarts>>

RetentionEnds ==
  /\ loop = Run("retention", None, {})
  /\ loop' = Idle
  /\ UNCHANGED <<engineVars, mode, session, hashed, active, queue, timer, stranded, restarts, faults>>

-----------------------------------------------------------------------------
(* Startup, shutdown, crash.                                               *)

\* The process and everything it held in memory is gone.
ProcessGone ==
  /\ mode' = "down"
  /\ loop' = Idle
  /\ session' = [d \in Dumps |-> "none"]
  /\ hashed' = [d \in Dumps |-> 0]
  /\ active' = 0
  /\ queue' = [d \in Dumps |-> None]
  /\ timer' = FALSE
  /\ stranded' = {}

Boot ==
  /\ mode = "down"
  /\ mode' = "starting"
  /\ loop' = Run("reconcile", None, {d \in Dumps : dumps[d].phase # "absent" \/ staging[d] # None})
  /\ UNCHANGED <<engineVars, session, hashed, active, queue, timer, stranded, restarts, faults>>

\* What reconcile finds no repair for and reports as an integrity alarm.
Alarmed(d) ==
  \/ Unrecoverable(d)
  \/ dumps[d].phase = "quarantined" /\ vault[d] = None

\* Seeded fault: the switch has no case "deleting".
NothingToRepairWhenDeleting(d) ==
  \/ Alarmed(d)
  \/ dumps[d].phase = "available" /\ vault[d] # None
  \/ dumps[d].phase = "rejected" /\ staging[d] = None
  \/ dumps[d].phase = "deleted" /\ staging[d] = None /\ vault[d] = None
  \/ dumps[d].phase = "deleting"

\* The case of the switch leaves the dump as it is.
NothingToRepair(d) ==
  \/ Alarmed(d)
  \/ dumps[d].phase = "available" /\ vault[d] # None
  \/ dumps[d].phase = "rejected" /\ staging[d] = None
  \/ dumps[d].phase = "deleted" /\ staging[d] = None /\ vault[d] = None

\* A file or row is repaired without another word from the inspector.
ReconcileCommand(d) ==
  \/ FailUpload(d)
  \/ dumps[d].phase = "available" /\ vault[d] = None /\ BeginPurge(d)
  \/ FinishPurge(d)
  \/ RemoveOrphan(d) \/ RemoveRejectedResidue(d) \/ RemoveTombstoneResidue(d)

Reconcile(d) ==
  /\ At("reconcile", d)
  /\ ~NothingToRepair(d)
  /\ ProcessStep(d) \/ (ReconcileCommand(d) /\ UNCHANGED serviceVars)

\* Nothing to do, or a staging file without a row that is still young.
Reconciled(d) ==
  /\ At("reconcile", d)
  /\ NothingToRepair(d) \/ dumps[d].phase = "absent"
  /\ DumpDone
  /\ UNCHANGED <<engineVars, mode, session, hashed, active, queue, timer, stranded, restarts, faults>>

\* Seeded fault: an integrity alarm throws.
ReconcileFailsOnAlarm(d) ==
  /\ At("reconcile", d)
  /\ Alarmed(d)
  /\ ProcessGone
  /\ UNCHANGED <<engineVars, restarts, faults>>

\* requireSuccess throws and main exits.
ReconcileFails(d) ==
  /\ At("reconcile", d)
  /\ ~NothingToRepair(d)
  /\ \/ FailUploadInterrupted(d) \/ PromoteObjectInterrupted(d) \/ FinishPurgeInterrupted(d)
     \/ UNCHANGED engineVars
  /\ Fault
  /\ ProcessGone
  /\ UNCHANGED restarts

ReconcileEnds ==
  /\ loop = Run("reconcile", None, {})
  /\ mode' = "serving"
  /\ loop' = Idle
  /\ UNCHANGED <<engineVars, session, hashed, active, queue, timer, stranded, restarts, faults>>

\* SIGTERM: the retention job is closed and no request is taken any more.
Shutdown ==
  /\ mode = "serving" /\ LoopFree
  /\ restarts < MaxRestarts
  /\ restarts' = restarts + 1
  /\ mode' = "closing"
  /\ UNCHANGED <<engineVars, loop, session, hashed, active, queue, timer, stranded, faults>>

\* server.close resolves after the last request; then the queue is cleared.
ShutdownEnds ==
  /\ mode = "closing" /\ LoopFree
  /\ Live = {}
  /\ DescriptorsDropped
  /\ ProcessGone
  /\ UNCHANGED <<restarts, faults>>

Crash ==
  /\ mode # "down"
  /\ restarts < MaxRestarts
  /\ restarts' = restarts + 1
  /\ DescriptorsDropped
  /\ ProcessGone
  /\ UNCHANGED faults

-----------------------------------------------------------------------------
(* Everyone else: the operator's and the analyzer's requests, the clock,   *)
(* the disk.                                                               *)

\* Requests that only read send nothing that changes a row.
CaseRequest(c) == CaseStep(c)

GrantRequest(g) ==
  \/ \E c \in Cases, n \in 1..MaxUploads : IssueGrant(g, c, n)
  \/ RevokeGrant(g)

RetentionRequest(d) == SetRetention(d)

Reported(d) == {a \in Analyses : analyses[d][a] # "none"}

\* The cap on reports is for new identities; a known one may gain its detail.
AnalysisRequest(d, a, form) ==
  /\ a \in Reported(d) \/ Cardinality(Reported(d)) < MaxAnalyses
  /\ RecordAnalysis(d, a, form)

Operate ==
  /\ mode = "serving" /\ LoopFree
  /\ \/ \E c \in Cases : CaseRequest(c)
     \/ \E g \in Grants : GrantRequest(g)
     \/ \E d \in Dumps : RetentionRequest(d)
     \/ \E d \in Dumps, a \in Analyses, form \in {"summary", "rich"} : AnalysisRequest(d, a, form)
  /\ UNCHANGED serviceVars

ClockTicks ==
  /\ \/ \E g \in Grants : GrantDeadlinePasses(g)
     \/ \E d \in Dumps : PurgeDeadlinePasses(d)
  /\ UNCHANGED serviceVars

\* Reconciliation looks at the files of a dump once and then runs its commands
\* without a pause; files that change in just that instant are left out.
DiskDisturbed ==
  /\ \E d \in Dumps : ~At("reconcile", d) /\ OutsideStep(d)
  /\ UNCHANGED serviceVars

RequestStep(d) ==
  \/ \E g \in Grants : AdmitUpload(g, d)
  \/ \E g \in Grants : AdmitUploadFails(g, d)
  \/ ReceiveChunk(d) \/ ReceiveChunkFails(d) \/ StreamEnds(d) \/ StreamAborts(d)
  \/ StartProcessing(d)

\* The handler that has the thread goes on.
HandlerStep(d) ==
  \/ Seal(d) \/ SealFails(d) \/ Fail(d) \/ FailFails(d)
  \/ Process(d) \/ Processed(d) \/ ProcessFails(d)
  \/ NextDump(d) \/ Drain(d) \/ Drained(d) \/ DrainFails(d)
  \/ Retain(d) \/ RetainFails(d)
  \/ Reconcile(d) \/ Reconciled(d) \/ ReconcileFails(d)

HandlerEnds == DrainEnds \/ RetentionEnds \/ ReconcileEnds

ServiceNext ==
  \/ \E d \in Dumps : RequestStep(d) \/ HandlerStep(d)
  \/ HandlerEnds
  \/ DrainTimer \/ RetentionTimer
  \/ Boot \/ Shutdown \/ ShutdownEnds \/ Crash
  \/ Operate \/ ClockTicks \/ DiskDisturbed

ServiceSafety == ServiceInit /\ [][ServiceNext]_vars

\* Synchronous code runs to its end.  A ready callback is not passed over
\* forever by others (the loop serves its queues in order), and the total
\* timeout ends every stream.  Somebody restarts a process that stopped.
ServiceSpec ==
  /\ ServiceSafety
  /\ WF_vars((\E d \in Dumps : HandlerStep(d)) \/ HandlerEnds)
  /\ \A d \in Dumps : SF_vars(StreamEnds(d) \/ StreamAborts(d)) /\ SF_vars(StartProcessing(d))
  /\ SF_vars(DrainTimer) /\ SF_vars(RetentionTimer) /\ SF_vars(ShutdownEnds)
  /\ WF_vars(Boot)

-----------------------------------------------------------------------------
(* Properties.                                                             *)

\* Every piece of the process state is within its domain.
ServiceTypeOK ==
  /\ TypeOK
  /\ mode \in Modes
  /\ loop \in [job: Jobs, at: Dumps \cup {None}, rest: SUBSET Dumps]
  /\ session \in [Dumps -> SessionStates]
  /\ hashed \in [Dumps -> Chunks]
  /\ active \in 0..Capacity
  /\ queue \in [Dumps -> 0..(MaxAttempts - 1) \cup {None}]
  /\ timer \in BOOLEAN
  /\ stranded \in SUBSET Dumps
  /\ restarts \in 0..MaxRestarts
  /\ faults \in 0..MaxFaults

\* The admission counter is the number of upload requests in progress,
\* whichever way they end, and the queue stays within its limit.
LeasesAccounted ==
  active = Cardinality(Live) /\ Cardinality(Pending) <= MaxPending

\* A queued dump never waits without a timer: whenever the loop is free and
\* the queue is not empty, the next drain is scheduled.
QueueArmed == LoopFree /\ Pending # {} => timer

Inbound(d) == dumps[d].phase \in {"receiving", "sealed", "quarantined"}

\* While the service runs, every dump on its way in has exactly one owner: its
\* request, the queue, or the list of those the process told somebody it gave
\* up on.  The only dumps without an owner are those with disturbed files.
NoDumpForgotten ==
  mode \in {"serving", "closing"} =>
    /\ \A d \in Dumps : Inbound(d) => d \in Live \cup Pending \cup stranded \cup disturbed
    /\ Live \cap Pending = {} /\ Live \cap stranded = {} /\ Pending \cap stranded = {}

\* The digest in the ledger is that of the bytes in the one file of the dump,
\* whatever failed while they were streamed, sealed and promoted.
DigestIsOfBytes ==
  \A d \in Dumps \ disturbed :
    dumps[d].phase \in {"sealed", "quarantined", "available"} =>
      dumps[d].digest = IF vault[d] # None THEN vault[d] ELSE staging[d]

\* A startup that completes leaves no transfer and no purge half-done, after
\* any number of crashes, also inside earlier startups: what is not settled
\* has been reported as an integrity alarm.
RecoveryIsComplete ==
  [][mode = "starting" /\ mode' = "serving" =>
       \A d \in Dumps :
         dumps[d].phase \in {"absent", "available", "rejected", "deleted"} \/ Alarmed(d)]_vars

\* Bytes are taken out of circulation only when their deadline has passed,
\* as it stands at that moment, or when they are already lost.
PurgeOnlyWhenDue ==
  [][\A d \in Dumps :
       dumps[d].phase # "deleting" /\ dumps'[d].phase = "deleting" =>
         dumps[d].purgeAt = "due" \/ vault[d] = None]_vars

\* A stopped service comes back: startup cannot block on any state of the
\* disk, and fails only as long as the storage does.
RecoveryHappens == mode = "down" ~> mode = "serving"

\* Every transfer that began is settled, or the process gives it up openly.
UploadsSettle ==
  \A d \in Dumps :
    Inbound(d) ~> dumps[d].phase \in {"available", "rejected"} \/ d \in stranded \cup disturbed

\* A dump whose deadline has passed is deleted, unless the deadline is moved.
PurgesFinish ==
  \A d \in Dumps :
    d \in Deleting \cup Due ~> dumps[d].phase = "deleted" \/ dumps[d].purgeAt = "future"

\* The service sends the engine nothing but engine commands: every property
\* of the engine under arbitrary callers is one of the service.
ImplementsEngine == EngineSpec

\* Nothing of the process leaks or waits for ever: every piece of state in its
\* domain, a lease for each request and no other, a timer whenever dumps are
\* queued (UploadAdmission, PostProcessingQueue).
ServiceAccounted == ServiceTypeOK /\ LeasesAccounted /\ QueueArmed
=============================================================================
