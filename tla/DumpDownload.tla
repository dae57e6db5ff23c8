---------------------------- MODULE DumpDownload ----------------------------
(***************************************************************************)
(* GET /api/v1/dumps/:dumpId/content: several clients stream one dump out  *)
(* of the vault while the retention job purges it.                         *)
(*                                                                         *)
(* The handler authorizes the download in the ledger, opens the object and *)
(* answers with its size; the body is then read chunk by chunk, turn by    *)
(* turn with everything else.  The reader holds the file, not its name.    *)
(* The object may lose bytes at rest, and a command or an open may fail.   *)
(***************************************************************************)
EXTENDS Integers, FiniteSets

CONSTANTS
  Clients,
  Size,        \* chunks of the dump; byteSize of its row
  MaxRequests  \* bound on the requests

ASSUME DownloadBounds == Size \in Nat \ {0} /\ MaxRequests \in Nat

VARIABLES
  phase,     \* of the dump's row; downloadable exactly when available
  linked,    \* the object has its name in the vault
  len,       \* chunks the file still holds
  readers,   \* open vault readers
  stream,    \* Clients -> the request of the client and its body
  audits,    \* AuthorizeDownload events
  requests   \* requests made

downloadVars == <<phase, linked, len, readers, stream, audits, requests>>

NoStream == [state |-> "idle", pos |-> 0, size |-> 0]
Faults == {"none", "command", "open"}

-----------------------------------------------------------------------------
(* The handler.                                                            *)

\* Only a dump openDownload would serve has a validator to compare.
Etag == phase = "available"

\* openDownload closes the reader it does not hand on.
OpenRefused == 0

\* openImmutable finds the object and its size is the one recorded.
Servable == linked /\ len = Size

Answer(c, state) == stream' = [stream EXCEPT ![c].state = state]

\* One turn: revalidation, authorization with its audit event, the open.
Get(c, cached, fault) ==
  /\ stream[c].state = "idle" /\ requests < MaxRequests /\ requests' = requests + 1
  /\ \/ /\ Etag /\ cached
        /\ Answer(c, "304") /\ UNCHANGED <<readers, audits>>
     \/ /\ ~(Etag /\ cached) /\ (phase # "available" \/ fault = "command")
        /\ Answer(c, "404")
        /\ UNCHANGED <<readers, audits>>
     \/ /\ ~cached /\ phase = "available" /\ fault # "command" /\ (~Servable \/ fault = "open")
        /\ Answer(c, "404")
        /\ audits' = audits + 1
        /\ readers' = readers + (IF fault = "open" THEN 0 ELSE OpenRefused)
     \/ /\ ~cached /\ phase = "available" /\ fault = "none" /\ Servable
        /\ stream' = [stream EXCEPT ![c] = [state |-> "streaming", pos |-> 0, size |-> len]]
        /\ readers' = readers + 1 /\ audits' = audits + 1
  /\ UNCHANGED <<phase, linked, len>>

-----------------------------------------------------------------------------
(* The body: readerStream.                                                 *)

\* Seeded fault: the body is read through the name of the object.
InPlaceByName(c) == linked /\ stream[c].pos < len

\* A read at the position finds bytes in the file.
InPlace(c) == stream[c].pos < len

Streaming(c) == stream[c].state = "streaming"

ReadChunk(c) ==
  /\ Streaming(c) /\ stream[c].pos < stream[c].size /\ InPlace(c)
  /\ stream' = [stream EXCEPT ![c].pos = @ + 1]
  /\ UNCHANGED <<phase, linked, len, readers, audits, requests>>

\* The generator ends: its finally closes the reader.
Close(c, state) ==
  /\ Answer(c, state) /\ readers' = readers - 1
  /\ UNCHANGED <<phase, linked, len, audits, requests>>

\* "vault object ended before its recorded size": the connection is cut.
EndedEarly(c) ==
  /\ Streaming(c) /\ stream[c].pos < stream[c].size /\ ~InPlace(c) /\ Close(c, "cut")

End(c) == Streaming(c) /\ stream[c].pos = stream[c].size /\ Close(c, "complete")

\* The response is closed under the body.
ClientGone(c) == Streaming(c) /\ Close(c, "gone")

Again(c) ==
  /\ stream[c].state \notin {"idle", "streaming"}
  /\ stream' = [stream EXCEPT ![c] = NoStream]
  /\ UNCHANGED <<phase, linked, len, readers, audits, requests>>

-----------------------------------------------------------------------------
(* Everything else.                                                        *)

BeginPurge == phase = "available" /\ phase' = "deleting" /\ UNCHANGED <<linked, len, readers, stream, audits, requests>>

\* vault.remove, then the row; the process may stop in between.
Remove == phase = "deleting" /\ linked /\ linked' = FALSE /\ UNCHANGED <<phase, len, readers, stream, audits, requests>>
FinishPurge == phase = "deleting" /\ ~linked /\ phase' = "deleted" /\ UNCHANGED <<linked, len, readers, stream, audits, requests>>

\* The file loses bytes under the service.
Damage == len = Size /\ len' \in 0..(Size - 1) /\ UNCHANGED <<phase, linked, readers, stream, audits, requests>>

DownloadInit ==
  /\ phase \in {"quarantined", "available"} /\ linked = TRUE /\ len = Size
  /\ readers = 0 /\ audits = 0 /\ requests = 0
  /\ stream = [c \in Clients |-> NoStream]

DownloadNext ==
  \/ \E c \in Clients, cached \in BOOLEAN, fault \in Faults : Get(c, cached, fault)
  \/ \E c \in Clients : ReadChunk(c) \/ EndedEarly(c) \/ End(c) \/ ClientGone(c) \/ Again(c)
  \/ BeginPurge \/ Remove \/ FinishPurge \/ Damage

DownloadSpec == DownloadInit /\ [][DownloadNext]_downloadVars

-----------------------------------------------------------------------------
(* Properties.                                                             *)

\* A body that ended without an error has the length its headers announced,
\* the row's, whatever the file lost before or meanwhile.
CompleteBodyIsWhole == \A c \in Clients : stream[c].state = "complete" => stream[c].pos = Size

\* The open readers of the vault are those of the bodies being sent: no path
\* of the handler and no end of a body leaves one behind.
ReadersAccounted == readers = Cardinality({c \in Clients : Streaming(c)})

\* Only damage cuts a body short.  A purge that begins, removes the object
\* and finishes while the body is sent lets it run to its end.
PurgeCutsNoBody == \A c \in Clients : stream[c].state = "cut" => len < Size

\* "404 not_found: Unknown dump id (or purged content)": a dump that is there
\* and available is not answered so.
NotFoundIsGone == [][\A c \in Clients :
                       stream'[c].state = "404" /\ stream[c].state # "404" => phase # "available"]_downloadVars

\* A download is whole or visibly broken, a purge does not break it, and its
\* reader is closed (openDownload, the download route).
DownloadIsWhole == CompleteBodyIsWhole /\ ReadersAccounted /\ PurgeCutsNoBody
=============================================================================
