----------------------------- MODULE SymbolQueue -----------------------------
(***************************************************************************)
(* The symbols page: the ingest queue, the list of artifacts and the purge *)
(* dialog, against a store other operators purge too.                      *)
(*                                                                         *)
(* Files are sent one after the other; a picker that was opened before a   *)
(* drop may add more while the queue drains.  The list is loaded again     *)
(* once, when a drain in which something was registered is over.  Two      *)
(* files of one build are one artifact; an artifact that was purged and is *)
(* stored again has an id of its own, and a purge names the id.            *)
(***************************************************************************)
EXTENDS Integers, Sequences

CONSTANTS
  Artifacts,   \* identities the files can carry
  MaxFiles,    \* bound on the files added
  MaxPurges    \* bound on the purges

\* What the constants are taken to be.
QueueBounds == MaxFiles \in Nat /\ MaxPurges \in Nat

VARIABLES
  store,      \* server: the records it holds
  ever,       \* server: the records it ever held
  mounted,    \* the page is on the screen
  entries,    \* queue: the files and what became of them
  picker,     \* queue: the file picker is open
  draining,   \* queue: drainingRef, busy
  any,        \* queue: anyRegistered of this drain
  upload,     \* queue: the request under way
  list,       \* page: the resource's state and the records shown
  load,       \* page: the request for the list the page listens to
  purge,      \* page: purgeTarget and the purge flow
  purges,     \* purges so far, the page's and others'
  mine,       \* records of what the page was told is registered, not purged since
  gone        \* records the page was told are purged

queueVars == <<store, ever, mounted, entries, picker, draining, any, upload, list, load, purge, purges, mine, gone>>

\* A record: an artifact under one of the ids it is ever given.
Records == Artifacts \X (1..MaxFiles)
Of(records, a) == {r \in records : r[1] = a}

NoUpload == [at |-> "none", entry |-> 0]
NoPurge == [at |-> "none", target |-> <<>>]

-----------------------------------------------------------------------------
(* The list: useResource without a route.  A load settles the one before   *)
(* it, whose answer is then ignored: the page listens to one request.      *)
(* DetailPage has the steps between a reload and its effect.               *)

NoLoad == [at |-> "idle", shown |-> {}]
Load == [at |-> "sent", shown |-> {}]

\* The "Refresh" and retry buttons: only the first load disables them.
Refresh ==
  /\ mounted /\ list.status # "loading" /\ load' = Load
  /\ UNCHANGED <<store, ever, mounted, entries, picker, draining, any, upload, list, purge, purges, mine, gone>>

AnswerLoad ==
  /\ load.at = "sent"
  /\ load' = [at |-> "ready", shown |-> store] \/ load' = [at |-> "error", shown |-> {}]
  /\ UNCHANGED <<store, ever, mounted, entries, picker, draining, any, upload, list, purge, purges, mine, gone>>

DeliverLoad ==
  /\ load.at \in {"ready", "error"} /\ load' = NoLoad
  /\ list' = [status |-> load.at, shown |-> load.shown]
  /\ UNCHANGED <<store, ever, mounted, entries, picker, draining, any, upload, purge, purges, mine, gone>>

-----------------------------------------------------------------------------
(* SymbolIngestQueue.                                                      *)

Waiting(queue) == {i \in DOMAIN queue : queue[i].status = "waiting"}
Next(queue) == CHOOSE i \in Waiting(queue) : \A j \in Waiting(queue) : i <= j

\* One turn of the drain's loop, up to its await.
Turn(queue) ==
  /\ entries' = [queue EXCEPT ![Next(queue)].status = "uploading"]
  /\ upload' = [at |-> "sent", entry |-> Next(queue)]

Files == {<<a>> : a \in Artifacts} \cup (Artifacts \X Artifacts)

\* A drain that is under way takes the files up by itself.
AddFiles(files) ==
  LET added == entries \o [i \in DOMAIN files |-> [artifact |-> files[i], status |-> "waiting"]] IN
  /\ mounted /\ Len(added) <= MaxFiles
  /\ IF draining THEN entries' = added /\ UNCHANGED <<draining, any, upload>>
     ELSE draining' = TRUE /\ any' = FALSE /\ Turn(added)
  /\ UNCHANGED <<store, ever, mounted, list, load, purge, purges, mine, gone>>

\* A busy queue opens no picker.
OpenPicker ==
  /\ mounted /\ ~draining /\ ~picker /\ Len(entries) < MaxFiles /\ picker' = TRUE
  /\ UNCHANGED <<store, ever, mounted, entries, draining, any, upload, list, load, purge, purges, mine, gone>>

HandleFileChange(files) == picker /\ picker' = FALSE /\ AddFiles(files)

HandleDrop(files) == ~draining /\ AddFiles(files) /\ UNCHANGED picker

\* Seeded fault: the last file decides whether the list is loaded.
AnyRegisteredLast(ok) == ok

AnyRegistered(ok) == any \/ ok

GoesOn(queue, ok) == Waiting(queue) # {}

PatchEntry(entry, status) == [entries EXCEPT ![entry].status = status]

\* The answer: the entry settles; then the next file, or the end of the drain.
DeliverUpload ==
  LET ok == upload.at = "ok"
      settled == PatchEntry(upload.entry, IF ok THEN "done" ELSE "failed")
  IN  /\ upload.at \in {"ok", "refused"}
      /\ IF GoesOn(settled, ok)
         THEN any' = AnyRegistered(ok) /\ Turn(settled) /\ UNCHANGED <<draining, load>>
         ELSE /\ entries' = settled /\ upload' = NoUpload /\ draining' = FALSE /\ any' = FALSE
              /\ load' = IF AnyRegistered(ok) THEN Load ELSE load
      /\ mine' = IF ok THEN mine \cup Of(store, entries[upload.entry].artifact) ELSE mine
      /\ UNCHANGED <<store, ever, mounted, picker, list, purge, purges, gone>>

\* What an ingest leaves: a known artifact keeps its record, another gets one.
Ingested(a) ==
  IF Of(store, a) # {} THEN {{}}
  ELSE {{r} : r \in {s \in Records \ ever : s[1] = a /\ \A i \in 1..(s[2] - 1) : <<a, i>> \in ever}}

\* The server registers the artifact, or knows it already, or refuses the
\* file; the connection may be lost after either.
AnswerUpload ==
  /\ upload.at = "sent"
  /\ \/ /\ \E new \in Ingested(entries[upload.entry].artifact) :
             store' = store \cup new /\ ever' = ever \cup new
        /\ \E at \in {"ok", "refused"} : upload' = [upload EXCEPT !.at = at]
     \/ upload' = [upload EXCEPT !.at = "refused"] /\ UNCHANGED <<store, ever>>
  /\ UNCHANGED <<mounted, entries, picker, draining, any, list, load, purge, purges, mine, gone>>

-----------------------------------------------------------------------------
(* Purge.                                                                  *)

\* The dialog keeps its record, whatever the list becomes behind it.
OpenDialog(r) ==
  /\ mounted /\ list.status = "ready" /\ r \in list.shown /\ purge.at = "none" /\ purges < MaxPurges
  /\ purge' = [at |-> "dialog", target |-> r]
  /\ UNCHANGED <<store, ever, mounted, entries, picker, draining, any, upload, list, load, purges, mine, gone>>

CancelPurge ==
  /\ purge.at = "dialog" /\ purge' = NoPurge
  /\ UNCHANGED <<store, ever, mounted, entries, picker, draining, any, upload, list, load, purges, mine, gone>>

ConfirmPurge ==
  /\ purge.at = "dialog" /\ purges < MaxPurges
  /\ purge' = [purge EXCEPT !.at = "sent"] /\ purges' = purges + 1
  /\ UNCHANGED <<store, ever, mounted, entries, picker, draining, any, upload, list, load, mine, gone>>

\* A record that is there is removed, though the answer may be lost.
AnswerPurge ==
  /\ purge.at = "sent"
  /\ \/ /\ purge.target \in store /\ store' = store \ {purge.target} /\ mine' = mine \ {purge.target}
        /\ \E at \in {"ok", "refused"} : purge' = [purge EXCEPT !.at = at]
     \/ purge' = [purge EXCEPT !.at = "refused"] /\ UNCHANGED <<store, mine>>
  /\ UNCHANGED <<ever, mounted, entries, picker, draining, any, upload, list, load, purges, gone>>

DeliverPurge ==
  /\ purge.at \in {"ok", "refused"} /\ purge' = NoPurge
  /\ IF purge.at = "ok" THEN load' = Load /\ gone' = gone \cup {purge.target}
     ELSE UNCHANGED <<load, gone>>
  /\ UNCHANGED <<store, ever, mounted, entries, picker, draining, any, upload, list, purges, mine>>

PurgedElsewhere ==
  /\ purges < MaxPurges /\ purges' = purges + 1
  /\ \E r \in store : store' = store \ {r} /\ mine' = mine \ {r}
  /\ UNCHANGED <<ever, mounted, entries, picker, draining, any, upload, list, load, purge, gone>>

\* The route changes: the file under way is aborted, later writes are silenced.
\* What the server makes of an aborted request no page is told any more.
Leave ==
  /\ mounted /\ mounted' = FALSE
  /\ upload' = NoUpload /\ load' = NoLoad /\ purge' = NoPurge /\ picker' = FALSE
  /\ UNCHANGED <<store, ever, entries, draining, any, list, purges, mine, gone>>

-----------------------------------------------------------------------------
QueueInit ==
  /\ store = {} /\ ever = {} /\ mounted = TRUE
  /\ entries = <<>> /\ picker = FALSE /\ draining = FALSE /\ any = FALSE /\ upload = NoUpload
  /\ list = [status |-> "loading", shown |-> {}] /\ load = Load
  /\ purge = NoPurge /\ purges = 0 /\ mine = {} /\ gone = {}

QueueNext ==
  \/ Refresh \/ AnswerLoad \/ DeliverLoad
  \/ OpenPicker \/ (\E files \in Files : HandleFileChange(files) \/ HandleDrop(files))
  \/ AnswerUpload \/ DeliverUpload
  \/ (\E r \in Records : OpenDialog(r)) \/ CancelPurge \/ ConfirmPurge
  \/ AnswerPurge \/ DeliverPurge \/ PurgedElsewhere \/ Leave

\* Requests end.
QueueSpec == QueueInit /\ [][QueueNext]_queueVars /\ WF_queueVars(AnswerUpload) /\ WF_queueVars(DeliverUpload)

-----------------------------------------------------------------------------
(* Properties.                                                             *)

Registered == {entries[i].artifact : i \in {j \in DOMAIN entries : entries[j].status = "done"}}

\* An entry that says "Registered" or "Already registered" is of a file the
\* server has held.
DoneWasStored == Registered \subseteq {r[1] : r \in ever}

\* At rest the list is no older than what the page did: what it registered and
\* the store still holds is listed, what it purged is not.
ListKeepsUp ==
  (mounted /\ ~draining /\ purge.at \in {"none", "dialog"} /\ load.at = "idle" /\ list.status = "ready")
    => mine \subseteq list.shown /\ gone \cap list.shown = {}

\* Every file added is dealt with, whatever became of the ones before it.
QueueDrains == (mounted /\ Waiting(entries) # {}) ~> (Waiting(entries) = {} \/ ~mounted)
=============================================================================
