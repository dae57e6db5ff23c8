---------------------------- MODULE SymbolStore ----------------------------
(***************************************************************************)
(* The symbol store: ingest of PDB and image files, the symsrv read route  *)
(* and operator purge.  Bytes are in the vault under a server-made         *)
(* artifact id, rows in the ledger; no transaction spans both, and nothing *)
(* reconciles them at startup.                                             *)
(*                                                                         *)
(* The part of a request that follows its last await runs in one turn of   *)
(* the event loop and is one action; a failure or a crash inside it is an  *)
(* action of its own.                                                      *)
(***************************************************************************)
EXTENDS Naturals, FiniteSets

CONSTANTS
  Artifacts,    \* artifact ids, each given out once
  Contents,     \* what clients upload
  Identities,   \* debug or code identities
  IdentityOf,   \* identity in the bytes, NoIdentity when unreadable
  NoIdentity,
  Chunks,       \* chunks of an upload
  MaxFailures   \* bound on crashes and storage failures

ASSUME SymbolAssumption ==
  /\ NoIdentity \notin Identities
  /\ IdentityOf \in [Contents -> Identities \cup {NoIdentity}]
  /\ Chunks \in Nat \ {0} /\ MaxFailures \in Nat

VARIABLES
  process,   \* the process: "up" or "down"
  ingest,    \* POST /api/v1/symbols of each artifact id: its progress
  content,   \* what that request uploads
  parts,     \* chunks in the staging file, "none" where there is no file
  object,    \* chunks in artifact.bin, "none" where there is no file
  rows,      \* artifacts with a row; their module row is created with it
  acked,     \* identities whose last answer was 201 and which no one purged
  torn,      \* artifacts whose purge was interrupted, for the properties
  failures   \* failures so far

symbolVars == <<process, ingest, content, parts, object, rows, acked, torn, failures>>

Progress == {"unused", "streaming", "ended"}
Files == {<<"none", 0>>} \cup {"file"} \X (0..Chunks)

\* Every file, row and request keeps its domain; what was answered as stored has
\* an identity (the ingest route, SealSymbol).
SymbolTypeOK ==
  /\ process \in {"up", "down"}
  /\ ingest \in [Artifacts -> Progress]
  /\ content \in [Artifacts -> Contents]
  /\ parts \in [Artifacts -> Files] /\ object \in [Artifacts -> Files]
  /\ rows \subseteq Artifacts
  /\ acked \subseteq Identities /\ torn \subseteq Artifacts
  /\ failures \in 0..MaxFailures

NoBytes == <<"none", 0>>
FileOf(n) == <<"file", n>>

SymbolInit ==
  /\ process = "up"
  /\ ingest = [a \in Artifacts |-> "unused"]
  /\ content \in [Artifacts -> Contents]
  /\ parts = [a \in Artifacts |-> NoBytes]
  /\ object = [a \in Artifacts |-> NoBytes]
  /\ rows = {} /\ acked = {} /\ torn = {} /\ failures = 0

Identity(a) == IdentityOf[content[a]]

\* Two artifacts are of one module row when their identity pairs agree.
SameModule(a, b) == Identity(b) = Identity(a)

\* findSymbolArtifact, asked by the engine and again in the ledger's transaction.
Existing(a) == {b \in rows : SameModule(a, b)}

-----------------------------------------------------------------------------
(* Ingest.                                                                 *)

\* IngestSymbol: a staging file under a fresh id (O_EXCL).
IngestSymbol(a) ==
  /\ process = "up" /\ ingest[a] = "unused"
  /\ ingest' = [ingest EXCEPT ![a] = "streaming"]
  /\ parts' = [parts EXCEPT ![a] = FileOf(0)]
  /\ UNCHANGED <<process, content, object, rows, acked, torn, failures>>

AppendSymbol(a) ==
  /\ process = "up" /\ ingest[a] = "streaming" /\ parts[a][2] < Chunks
  /\ parts' = [parts EXCEPT ![a] = FileOf(@[2] + 1)]
  /\ UNCHANGED <<process, ingest, content, object, rows, acked, torn, failures>>

\* FailSymbol, removeSymbolStaging.
FailSymbol(a) ==
  /\ ingest' = [ingest EXCEPT ![a] = "ended"]
  /\ parts' = [parts EXCEPT ![a] = NoBytes]
  /\ UNCHANGED <<process, content, object, rows, acked, torn, failures>>

\* boundedPipeline rejects: the client went away, was too slow or sent too
\* much, or a write failed.
AbortIngest(a) ==
  /\ process = "up" /\ ingest[a] = "streaming"
  /\ FailSymbol(a)

\* The bytes are all there and carry no identity: 422.
IdentityUnreadable(a) ==
  /\ process = "up" /\ ingest[a] = "streaming" /\ parts[a][2] = Chunks
  /\ Identity(a) = NoIdentity
  /\ FailSymbol(a)

AtSeal(a) ==
  /\ process = "up" /\ ingest[a] = "streaming" /\ parts[a][2] = Chunks
  /\ Identity(a) # NoIdentity

\* Seeded fault: the newest upload wins and the old bytes are removed.
SealReplaces(a) ==
  /\ AtSeal(a) /\ Existing(a) # {}
  /\ ingest' = [ingest EXCEPT ![a] = "ended"]
  /\ parts' = [parts EXCEPT ![a] = NoBytes]
  /\ object' = [b \in Artifacts |-> IF b \in Existing(a) THEN NoBytes ELSE object[b]]
  /\ acked' = acked \cup {Identity(a)}
  /\ UNCHANGED <<process, content, rows, torn, failures>>

\* Seeded fault: a known identity takes over the new bytes.
SealOverwrites(a) ==
  /\ AtSeal(a) /\ Existing(a) # {}
  /\ ingest' = [ingest EXCEPT ![a] = "ended"]
  /\ parts' = [parts EXCEPT ![a] = NoBytes]
  /\ content' = [b \in Artifacts |-> IF b \in Existing(a) THEN content[a] ELSE content[b]]
  /\ acked' = acked \cup {Identity(a)}
  /\ UNCHANGED <<process, object, rows, torn, failures>>

\* SealSymbol of a known identity drops the new bytes and answers 201 with
\* the id of the old artifact.
SealDeduplicates(a) ==
  /\ AtSeal(a) /\ Existing(a) # {}
  /\ ingest' = [ingest EXCEPT ![a] = "ended"]
  /\ parts' = [parts EXCEPT ![a] = NoBytes]
  /\ acked' = acked \cup {Identity(a)}
  /\ UNCHANGED <<process, content, object, rows, torn, failures>>

PromoteSymbol(a) ==
  /\ object' = [object EXCEPT ![a] = parts[a]]
  /\ parts' = [parts EXCEPT ![a] = NoBytes]

\* promoteSymbol, then the ledger's transaction: 201.
SealSymbol(a) ==
  /\ AtSeal(a) /\ Existing(a) = {}
  /\ ingest' = [ingest EXCEPT ![a] = "ended"]
  /\ PromoteSymbol(a)
  /\ rows' = rows \cup {a}
  /\ acked' = acked \cup {Identity(a)}
  /\ UNCHANGED <<process, content, torn, failures>>

Failure == failures < MaxFailures /\ failures' = failures + 1

\* The sync fails, an annotation is refused or promoteSymbol throws: the
\* request ends with an error and its staging file stays.
SealRefused(a) ==
  /\ AtSeal(a) /\ Failure
  /\ ingest' = [ingest EXCEPT ![a] = "ended"]
  /\ UNCHANGED <<process, content, parts, object, rows, acked, torn>>

\* The bytes are promoted and the row is not written: the transaction throws
\* (503) or the process dies.
SealInterrupted(a) ==
  /\ AtSeal(a) /\ Existing(a) = {} /\ Failure
  /\ process' \in {"up", "down"}
  /\ ingest' = [ingest EXCEPT ![a] = "ended"]
  /\ PromoteSymbol(a)
  /\ UNCHANGED <<content, rows, acked, torn>>

-----------------------------------------------------------------------------
(* Purge, crash and restart.                                               *)

PurgeSymbol(a) ==
  /\ process = "up" /\ a \in rows
  /\ object' = [object EXCEPT ![a] = NoBytes]
  /\ rows' = rows \ {a}
  /\ acked' = acked \ {Identity(a)}
  /\ UNCHANGED <<process, ingest, content, parts, torn, failures>>

\* The bytes are gone and the row stays; the operator is not told 204.
PurgeInterrupted(a) ==
  /\ process = "up" /\ a \in rows /\ Failure
  /\ process' \in {"up", "down"}
  /\ object' = [object EXCEPT ![a] = NoBytes]
  /\ acked' = acked \ {Identity(a)}
  /\ torn' = torn \cup {a}
  /\ UNCHANGED <<ingest, content, parts, rows>>

ProcessDies ==
  /\ process = "up" /\ Failure
  /\ process' = "down"
  /\ ingest' = [a \in Artifacts |-> IF ingest[a] = "streaming" THEN "ended" ELSE ingest[a]]
  /\ UNCHANGED <<content, parts, object, rows, acked, torn>>

\* Recovery looks at the dump staging root only.
Restart ==
  /\ process = "down"
  /\ process' = "up"
  /\ ingest' = [a \in Artifacts |-> IF ingest[a] = "streaming" THEN "ended" ELSE ingest[a]]
  /\ UNCHANGED <<content, parts, object, rows, acked, torn, failures>>

SymbolNext ==
  \/ \E a \in Artifacts :
       \/ IngestSymbol(a) \/ AppendSymbol(a) \/ AbortIngest(a) \/ IdentityUnreadable(a)
       \/ SealDeduplicates(a) \/ SealSymbol(a) \/ SealRefused(a) \/ SealInterrupted(a)
       \/ PurgeSymbol(a) \/ PurgeInterrupted(a)
  \/ ProcessDies \/ Restart

SymbolSpec == SymbolInit /\ [][SymbolNext]_symbolVars

-----------------------------------------------------------------------------
(* The read route.                                                         *)

Miss == {}

\* findSymbolArtifactByStorePath, then openSymbol: the bytes, or a miss when
\* there is no row or the file is gone.
OpenSymbolArtifact(i) ==
  {<<content[a], object[a][2]>> : a \in {b \in rows : Identity(b) = i /\ object[b] # NoBytes}}

-----------------------------------------------------------------------------
(* Properties.                                                             *)

\* A debugger that asks for an identity gets one file, all of it, and one that
\* carries this identity: never a cut upload and never one of two
\* (SealSymbol, sealSymbolArtifact, openSymbolArtifact).
ServedIsOwn ==
  \A i \in Identities :
    /\ Cardinality(OpenSymbolArtifact(i)) <= 1
    /\ \A f \in OpenSymbolArtifact(i) : IdentityOf[f[1]] = i /\ f[2] = Chunks

\* A 201 is kept: what the last answer called registered is served, through
\* every interleaving of ingests, failures and crashes, until it is purged.
\* The one exception is a row that an interrupted purge left without bytes.
AnsweredIsServed ==
  \A i \in acked :
    OpenSymbolArtifact(i) # Miss \/ \E a \in torn \cap rows : Identity(a) = i

\* Bytes served under an identity, which clients may cache for a year, are
\* not replaced while the artifact is registered (symbol-routes.ts).
ServedKept ==
  \A i \in Identities :
    OpenSymbolArtifact(i) # Miss =>
      \/ OpenSymbolArtifact(i)' = OpenSymbolArtifact(i)
      \/ OpenSymbolArtifact(i)' = Miss
ServedIsImmutable == [][ServedKept]_symbolVars

\* As long as no storage operation failed, no seal was refused (for an annotation
\* a client sent, too: its staging file stays) and the process did not crash,
\* each staging file belongs to a running request and each object to a row
\* (removeSymbolStaging, removeSymbol).
NothingLeaksUnprovoked ==
  failures = 0 =>
    \A a \in Artifacts :
      /\ parts[a] # NoBytes => ingest[a] = "streaming"
      /\ object[a] # NoBytes <=> a \in rows

\* The design says a purge removes object and row in one transaction: a row
\* has its object.
RowsHaveObjects == \A a \in rows : object[a] # NoBytes

\* The import says staging residue is removed at the next startup: once the
\* process is up, a staging file belongs to a running request.
StagingIsSwept ==
  \A a \in Artifacts : process = "up" /\ parts[a] # NoBytes => ingest[a] = "streaming"

\* The design bounds concurrent ingests to one.
OneIngestAtATime == Cardinality({a \in Artifacts : ingest[a] = "streaming"}) <= 1

\* What the symbol store promises, together: one whole file for an identity,
\* served from its 201 on, and nothing left behind without a failure.
SymbolsAreServed == SymbolTypeOK /\ ServedIsOwn /\ AnsweredIsServed /\ NothingLeaksUnprovoked
=============================================================================
