----------------------------- MODULE UploadPage -----------------------------
(***************************************************************************)
(* The public upload page: one visitor, the queue of chosen files, and the *)
(* server at the other end of an unreliable connection.                    *)
(*                                                                         *)
(* The page asks once how many slots the link has left, trims what was     *)
(* chosen, and sends the files one after the other.  A slot is consumed    *)
(* when the server begins an upload, whatever becomes of it.  The same     *)
(* link may be used elsewhere or revoked meanwhile.                        *)
(***************************************************************************)
EXTENDS Integers, Sequences, FiniteSetsExt

CONSTANTS
  MaxUploads,   \* slots of the link
  MaxFiles      \* bound on the files chosen

ASSUME PageBounds == MaxUploads \in Nat /\ MaxFiles \in Nat

VARIABLES
  link,     \* server: the slots used, and whether the grant can be used
  server,   \* server: per file, the uploads begun and the dumps sealed
  quota,    \* page: loading, ready with the room left, unavailable
  asking,   \* page: a quota query is under way
  retry,    \* page: the notice with the "Try again" button
  phase,    \* page: selecting, uploading, done
  entries,  \* page: the files and what became of them
  queue,    \* page: files runQueue has still to settle
  xhr       \* the request under way

pageVars == <<link, server, quota, asking, retry, phase, entries, queue, xhr>>

NoRequest == [at |-> "none", answer |-> "none"]
Files == 1..MaxFiles

-----------------------------------------------------------------------------
(* The page before anything is sent.                                       *)

Room == IF quota.kind = "ready" THEN quota.room ELSE MaxFiles

\* The effect that follows the answer.
Trim(chosen, room) == SubSeq(chosen, 1, IF Len(chosen) > room THEN room ELSE Len(chosen))

\* The form is shown: no terminal panel takes its place.
Form == quota.kind # "unavailable" /\ ~(quota.kind = "ready" /\ quota.room = 0) /\ phase = "selecting"

QuotaAnswered ==
  /\ asking /\ asking' = FALSE
  /\ \/ /\ link.open
        /\ quota' = [kind |-> "ready", room |-> MaxUploads - link.used]
        /\ entries' = Trim(entries, quota'.room)
        /\ UNCHANGED retry
     \/ /\ ~link.open /\ quota' = [kind |-> "unavailable", room |-> 0] /\ UNCHANGED <<entries, retry>>
     \/ retry' = TRUE /\ UNCHANGED <<quota, entries>>      \* 429, 503 or no connection
  /\ UNCHANGED <<link, server, phase, queue, xhr>>

AddFiles(n) ==
  /\ Form /\ Len(entries) + n <= MaxFiles
  /\ retry' = FALSE
  /\ LET room == IF Room > Len(entries) THEN Room - Len(entries) ELSE 0
         accepted == IF quota.kind = "ready" /\ n > room THEN room ELSE n
     IN  entries' = entries \o [i \in 1..accepted |-> [status |-> "queued", outcome |-> "none"]]
  /\ UNCHANGED <<link, server, quota, asking, phase, queue, xhr>>

Queued == {f \in DOMAIN entries : entries[f].status = "queued"}

\* Seeded fault: the file chosen last goes first.
LastFirst(files) == Max(files)

\* runQueue sends them in the order in which they were chosen.
First(files) == Min(files)

Send(f) == /\ xhr' = [at |-> "sent", answer |-> "none"]
           /\ entries' = [entries EXCEPT ![f].status = "uploading"]

\* runQueue, up to its first await.
RunQueue ==
  /\ Form /\ quota.kind = "ready" /\ queue = {} /\ Queued # {}
  /\ queue' = Queued /\ phase' = "uploading" /\ retry' = FALSE
  /\ Send(First(Queued))
  /\ UNCHANGED <<link, server, quota, asking>>

TryAgain ==
  /\ Form /\ retry
  /\ \/ quota.kind # "ready" /\ retry' = FALSE /\ asking' = TRUE
        /\ UNCHANGED <<link, server, quota, phase, entries, queue, xhr>>
     \/ RunQueue

-----------------------------------------------------------------------------
(* The server, as the upload route and UploadSession answer.               *)

Reply(code) == xhr' = [at |-> "over", answer |-> code]

ServerTurn == UNCHANGED <<quota, asking, retry, phase, entries, queue>>

\* Rate limit or admission: nothing was begun.
Busy == xhr.at = "sent" /\ Reply("retryable") /\ UNCHANGED <<link, server>> /\ ServerTurn

Begin ==
  /\ xhr.at = "sent"
  /\ \/ /\ link.open /\ link.used < MaxUploads
        /\ link' = [link EXCEPT !.used = @ + 1]
        /\ server' = [server EXCEPT ![First(queue)].begun = @ + 1]
        /\ xhr' = [xhr EXCEPT !.at = "receiving"]
     \/ /\ link.open /\ link.used = MaxUploads /\ Reply("grant_slots_exhausted") /\ UNCHANGED <<link, server>>
     \/ Reply("grant_unavailable") /\ UNCHANGED <<link, server>>   \* revoked, closed, or a storage fault
  /\ ServerTurn

\* The bytes are in and sealed, or the upload has failed.
Receive ==
  /\ xhr.at = "receiving"
  /\ \/ server' = [server EXCEPT ![First(queue)].sealed = @ + 1] /\ Reply("success")
     \/ Reply("upload_too_large") /\ UNCHANGED server
     \/ Reply("retryable") /\ UNCHANGED server         \* storage_unavailable, upload_incomplete
     \/ Reply("internal_error") /\ UNCHANGED server    \* FailUpload failed too
  /\ UNCHANGED link /\ ServerTurn

\* The connection breaks, or the visitor cancels; the server may be done.
Lose(code) ==
  /\ xhr.at # "none" /\ xhr.answer \notin {"aborted", "connection"}
  /\ Reply(code)
  /\ UNCHANGED <<link, server>> /\ ServerTurn

Elsewhere ==
  /\ link.open
  /\ \/ link' = [link EXCEPT !.open = FALSE]
     \/ link.used < MaxUploads /\ link' = [link EXCEPT !.used = @ + 1]
  /\ UNCHANGED <<server, quota, asking, retry, phase, entries, queue, xhr>>

-----------------------------------------------------------------------------
(* The answer.                                                             *)

\* outcomeFromSuccess and outcomeFromError.
OutcomeFrom(answer) ==
  CASE answer = "success" -> "received"
    [] answer \in {"retryable", "grant_unavailable", "grant_slots_exhausted", "upload_too_large"} -> answer
    [] OTHER -> "uncertain"

\* markRemainingNotAttempted.
NotAttempted(list, f) ==
  [i \in DOMAIN list |-> IF list[i].status = "queued" THEN [list[i] EXCEPT !.status = "failed"] ELSE list[i]]

\* A retryable refusal puts the file back and stops the queue.
Pause(f) ==
  /\ entries' = [entries EXCEPT ![f].status = "queued"]
  /\ retry' = TRUE /\ phase' = "selecting" /\ queue' = {} /\ xhr' = NoRequest

Settle ==
  LET f == First(queue)
      rest == queue \ {f}
      outcome == OutcomeFrom(xhr.answer)
      marked(status) == [entries EXCEPT ![f] = [status |-> status, outcome |-> outcome]]
      goOn == rest # {} /\ outcome \in {"received", "upload_too_large"}
  IN  /\ xhr.at = "over"
      /\ \/ outcome = "retryable" /\ Pause(f)
         \/ /\ outcome # "retryable" /\ goOn
            /\ queue' = rest /\ xhr' = [at |-> "sent", answer |-> "none"]
            /\ entries' = [marked(IF outcome = "received" THEN "done" ELSE "failed")
                             EXCEPT ![First(rest)].status = "uploading"]
            /\ UNCHANGED <<retry, phase>>
         \/ /\ outcome # "retryable" /\ ~goOn
            /\ queue' = {} /\ xhr' = NoRequest /\ phase' = "done"
            /\ entries' = IF outcome = "received" THEN marked("done")
                          ELSE NotAttempted(marked("failed"), f)
            /\ UNCHANGED retry
      /\ UNCHANGED <<link, server, quota, asking>>

\* batchEntryText, resultCopy: what the visitor reads about a file.
Told(entry) ==
  CASE entry.status = "done"                                -> "received"
    [] entry.status = "failed" /\ entry.outcome = "none"      -> "not attempted"
    [] entry.status = "failed" /\ entry.outcome = "uncertain" -> "unknown"
    [] entry.status = "failed" /\ entry.outcome \notin {"none", "uncertain"} -> "not sent"
    [] OTHER                                                -> "waiting"

-----------------------------------------------------------------------------
PageInit ==
  /\ link = [used |-> 0, open |-> TRUE] /\ server = [f \in Files |-> [begun |-> 0, sealed |-> 0]]
  /\ quota = [kind |-> "loading", room |-> 0] /\ asking = TRUE /\ retry = FALSE
  /\ phase = "selecting" /\ entries = <<>> /\ queue = {} /\ xhr = NoRequest

PageNext ==
  \/ QuotaAnswered \/ (\E n \in 1..MaxFiles : AddFiles(n)) \/ RunQueue \/ TryAgain
  \/ Busy \/ Begin \/ Receive \/ Lose("aborted") \/ Lose("connection") \/ Elsewhere
  \/ Settle

PageSafety == PageInit /\ [][PageNext]_pageVars

\* The request ends, by the server's answer or by its timeouts, and the page
\* takes the answer.
PageSpec == PageSafety /\ WF_pageVars(Begin) /\ WF_pageVars(Receive) /\ WF_pageVars(Settle)

-----------------------------------------------------------------------------
(* Properties.                                                             *)

\* What the page says of a file is what happened: a received file is sealed,
\* a file not attempted was never begun, a file not sent is not stored, and
\* a sealed file is reported received, unknown, or is still under way, and
\* is never sent again.
ReportedIsTrue ==
  \A f \in DOMAIN entries :
    /\ server[f].sealed <= 1
    /\ Told(entries[f]) = "received" => server[f].sealed = 1
    /\ Told(entries[f]) = "not attempted" => server[f].begun = 0
    /\ Told(entries[f]) = "not sent" => server[f].sealed = 0
    /\ server[f].sealed > 0 => Told(entries[f]) \in {"received", "unknown"} \/ (queue # {} /\ First(queue) = f)

\* Of the files chosen before and after the quota came, no more are kept than
\* the link had slots when it was asked.
SelectionFits == quota.kind = "ready" => Len(entries) <= quota.room

\* A batch that was started comes to its end or pauses with the notice.
BatchEnds == phase = "uploading" ~> phase # "uploading"

\* "Nothing was sent and this intake link is still valid": a file the page
\* offers to send again has consumed no slot.
RetryConsumedNothing ==
  retry => \A f \in DOMAIN entries : entries[f].status = "queued" => server[f].begun = 0

\* "Retryable failures offer a manual re-check": while the quota is unknown a
\* query is under way or the page offers to ask again.
QuotaCanBeAsked == quota.kind = "loading" => asking \/ retry

\* The upload page promises no more than the link has and reports what happened.
UploadIsTrue == ReportedIsTrue /\ SelectionFits
=============================================================================
