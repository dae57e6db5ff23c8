--------------------------- MODULE ImportProgress ---------------------------
(***************************************************************************)
(* The import panel of the operations page: the form that starts an import *)
(* and useImportProgress, which polls the import that is under way.        *)
(*                                                                         *)
(* The panel is part of the operations page's ready view, and is unmounted *)
(* whenever the page's own polling fails.                                  *)
(***************************************************************************)
EXTENDS Integers, Sequences, SequencesExt

CONSTANTS
  MaxImports,    \* bound on the imports the server starts
  MaxPolls,      \* bound on the polls under way
  MaxHides       \* bound on the times the document is hidden

\* What the constants are taken to be.
ImportBounds == MaxImports \in Nat /\ MaxPolls \in Nat \ {0} /\ MaxHides \in Nat

VARIABLES
  imports,    \* server: the status of each import, oldest first
  hidden,     \* document.hidden
  hides,      \* how often it was
  mounted,    \* the operations page is ready, the panel is on it
  start,      \* startFlow: idle, sent, or the answer
  active,     \* activeImportId, 0 for none
  progress,   \* status of the last snapshot, "none" before the first
  failed,     \* the progress error is on the screen
  busy,       \* busyRef
  terminal,   \* terminalRef
  polls       \* requests under way, oldest first

importVars == <<imports, hidden, hides, mounted, start, active, progress, failed, busy, terminal, polls>>

NoStart == [at |-> "idle", import |-> 0]

-----------------------------------------------------------------------------
(* The server.                                                             *)

Progress(k) ==
  /\ imports[k] = "running"
  /\ \E status \in {"finished", "failed"} : imports' = [imports EXCEPT ![k] = status]
  /\ UNCHANGED <<hidden, hides, mounted, start, active, progress, failed, busy, terminal, polls>>

\* One transfer at a time: 409 while one runs.
Begun ==
  /\ Len(imports) < MaxImports /\ \A k \in DOMAIN imports : imports[k] # "running"
  /\ imports' = Append(imports, "running")

\* The answer of a begun import may be lost.
AnswerStart ==
  /\ start.at = "sent"
  /\ \/ Begun /\ start' = [at |-> "started", import |-> Len(imports) + 1]
     \/ (Begun \/ UNCHANGED imports) /\ start' = [at |-> "refused", import |-> 0]
  /\ UNCHANGED <<hidden, hides, mounted, active, progress, failed, busy, terminal, polls>>

\* Another operator's import, or one whose request was under way when the
\* panel went.
StartedElsewhere ==
  /\ Begun
  /\ UNCHANGED <<hidden, hides, mounted, start, active, progress, failed, busy, terminal, polls>>

AnswerPoll(i) ==
  /\ polls[i].answer = "none"
  /\ \/ polls' = [polls EXCEPT ![i].answer = imports[polls[i].import]]
     \/ polls' = [polls EXCEPT ![i].answer = "error"]
  /\ UNCHANGED <<imports, hidden, hides, mounted, start, active, progress, failed, busy, terminal>>

-----------------------------------------------------------------------------
(* useImportProgress.                                                      *)

Aborted(list) == [i \in DOMAIN list |-> [list[i] EXCEPT !.aborted = TRUE]]

\* poll, up to its await: it aborts the request before it.
Polled(list, k) == Append(Aborted(list), [import |-> k, answer |-> "none", aborted |-> FALSE])

\* An interval tick, or the document becoming visible.
Poll ==
  /\ mounted /\ active # 0 /\ ~busy /\ ~terminal /\ ~hidden /\ Len(polls) < MaxPolls
  /\ busy' = TRUE /\ polls' = Polled(polls, active)
  /\ UNCHANGED <<imports, hidden, hides, mounted, start, active, progress, failed, terminal>>

\* "disposed || controller.signal.aborted".
Heard(poll) == ~poll.aborted

\* The finally block: of any poll, aborted or not.
Freed(poll) == FALSE

DeliverPoll(i) ==
  LET poll == polls[i] IN
  /\ poll.answer # "none" /\ polls' = RemoveAt(polls, i)
  /\ busy' = Freed(poll)
  /\ IF Heard(poll)
     THEN /\ progress' = IF poll.answer = "error" THEN progress ELSE poll.answer
          /\ failed' = (poll.answer = "error")
          /\ terminal' = (poll.answer # "running")
     ELSE UNCHANGED <<progress, failed, terminal>>
  /\ UNCHANGED <<imports, hidden, hides, mounted, start, active>>

\* The effect of a new importId: reset, dispose of the old one, poll at once.
Activate(k) ==
  /\ active' = k /\ progress' = "none" /\ failed' = FALSE /\ terminal' = FALSE
  /\ IF hidden THEN busy' = FALSE /\ polls' = Aborted(polls)
     ELSE busy' = TRUE /\ polls' = Polled(polls, k)

-----------------------------------------------------------------------------
(* ImportPanel.                                                            *)

ImportRunning == progress = "running"

HandleSubmit ==
  /\ mounted /\ start.at = "idle" /\ ~ImportRunning
  /\ start' = [at |-> "sent", import |-> 0]
  /\ UNCHANGED <<imports, hidden, hides, mounted, active, progress, failed, busy, terminal, polls>>

DeliverStart ==
  /\ start.at \in {"started", "refused"} /\ start' = NoStart
  /\ IF start.at = "started" THEN Activate(start.import)
     ELSE UNCHANGED <<active, progress, failed, busy, terminal, polls>>
  /\ UNCHANGED <<imports, hidden, hides, mounted>>

\* visibilitychange; becoming visible is followed by a Poll.
Visibility ==
  /\ \/ ~hidden /\ hides < MaxHides /\ hidden' = TRUE /\ hides' = hides + 1
     \/ hidden /\ hidden' = FALSE /\ UNCHANGED hides
  /\ UNCHANGED <<imports, mounted, start, active, progress, failed, busy, terminal, polls>>

\* A poll of the operations page fails: its ready view, and the panel with it,
\* goes; a later poll brings back a new panel.
OperationsPoll ==
  /\ mounted' = ~mounted
  /\ start' = NoStart /\ active' = 0 /\ progress' = "none" /\ failed' = FALSE /\ busy' = FALSE /\ terminal' = FALSE
  /\ polls' = <<>>
  /\ UNCHANGED <<imports, hidden, hides>>

-----------------------------------------------------------------------------
ImportInit ==
  /\ imports = <<>> /\ hidden = FALSE /\ hides = 0 /\ mounted = TRUE /\ start = NoStart
  /\ active = 0 /\ progress = "none" /\ failed = FALSE /\ busy = FALSE /\ terminal = FALSE /\ polls = <<>>

ProgressSome == \E k \in DOMAIN imports : Progress(k)
AnswerSome == \E i \in DOMAIN polls : AnswerPoll(i)
DeliverSome == \E i \in DOMAIN polls : DeliverPoll(i)

ImportNext ==
  \/ ProgressSome \/ AnswerStart \/ StartedElsewhere \/ AnswerSome \/ Poll \/ DeliverSome
  \/ HandleSubmit \/ DeliverStart \/ Visibility \/ OperationsPoll

\* The import, the polls and the timer go on.
ImportSpec ==
  /\ ImportInit /\ [][ImportNext]_importVars
  /\ WF_importVars(ProgressSome)
  /\ WF_importVars(AnswerSome) /\ WF_importVars(DeliverSome) /\ WF_importVars(Poll)

-----------------------------------------------------------------------------
(* Properties.                                                             *)

\* What the panel shows is of the import it started last: the end of an
\* earlier import never gets in, and an end that is shown has happened.
ShownIsActive ==
  /\ progress \in {"finished", "failed"} => imports[active] = progress
  /\ (progress = "running" /\ terminal) => failed

\* An import that was started comes to be reported: its end, or an error,
\* unless the document is hidden or the panel goes.
EndReported ==
  (active # 0 /\ mounted) ~> (progress \in {"finished", "failed"} \/ failed \/ hidden \/ ~mounted)

\* "a tick never overlaps an outstanding request": only a new import, or the
\* panel going, aborts a poll.
NoOverlap ==
  [][(active' = active /\ mounted' = mounted) =>
       \A i \in DOMAIN polls : (~polls[i].aborted /\ polls[i].answer = "none" /\ i \in DOMAIN polls')
         => ~polls'[i].aborted]_importVars

\* "A failed poll stops the loop; the operator can retry the import": the form
\* is open when the error is on the screen.
RetryAfterError == failed => ~ImportRunning

\* "While the import runs, progress polls": the panel does not lose an import
\* that is running.
RunningIsFollowed ==
  [][(active # 0 /\ imports[active] = "running") => active' # 0]_importVars
=============================================================================
