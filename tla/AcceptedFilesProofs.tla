------------------------ MODULE AcceptedFilesProofs ------------------------
(***************************************************************************)
(* Proofs about the files that clients bring.  SymbolStore, for any set of *)
(* artifact ids, identities and contents, uploads of any length and any    *)
(* number of failures; MinidumpInspector, for dumps of any shape within    *)
(* its limits, cut anywhere, damaged in any one field, and any number of   *)
(* failed reads.                                                           *)
(***************************************************************************)
EXTENDS AcceptedFiles, Integers, Sequences, FiniteSetTheorems, WellFoundedInduction, TLAPS

\* The promises are not inductive alone: one row per identity rests on the
\* second look for the identity inside the transaction, and whole files on the
\* order of promotion and row.
ArtifactSound(a) ==
  /\ ingest[a] = "unused" => parts[a] = NoBytes
  /\ ingest[a] = "streaming" => parts[a][1] = "file" /\ object[a] = NoBytes /\ a \notin rows
  /\ ingest[a] = "unused" => object[a] = NoBytes /\ a \notin rows
  /\ object[a] # NoBytes => object[a] = FileOf(Chunks)
  /\ a \in rows => Identity(a) # NoIdentity
  /\ a \in rows => object[a] # NoBytes \/ a \in torn
  /\ failures = 0 =>
       /\ parts[a] # NoBytes => ingest[a] = "streaming"
       /\ object[a] # NoBytes <=> a \in rows

OneRowPerIdentity == \A a, b \in rows : SameModule(a, b) => a = b

AckedHasRow == \A i \in acked : \E a \in rows : Identity(a) = i

StoreInv ==
  /\ SymbolTypeOK
  /\ \A a \in Artifacts : ArtifactSound(a)
  /\ OneRowPerIdentity
  /\ AckedHasRow
  /\ process = "down" => failures # 0

LEMMA FileFacts ==
  /\ \A n \in 0..Chunks : FileOf(n) \in Files /\ FileOf(n) # NoBytes /\ FileOf(n)[1] = "file" /\ FileOf(n)[2] = n
  /\ NoBytes \in Files
  /\ \A f \in Files : f[1] = "file" => f[2] \in 0..Chunks /\ f = FileOf(f[2])
  /\ \A f \in Files : f # NoBytes => f[1] = "file"
BY DEF FileOf, Files, NoBytes

LEMMA IdentityType == SymbolTypeOK => \A a \in Artifacts : Identity(a) \in Identities \cup {NoIdentity}
BY SymbolAssumption DEF SymbolTypeOK, Identity

-----------------------------------------------------------------------------
(* One step.                                                               *)

LEMMA StoreTypeStep ==
  ASSUME StoreInv, [SymbolNext]_symbolVars
  PROVE  SymbolTypeOK'
<1> USE DEF StoreInv, SymbolTypeOK, Progress
<1>0. Chunks \in Nat /\ MaxFailures \in Nat /\ NoBytes \in Files /\ 0 \in 0..Chunks
  BY SymbolAssumption, FileFacts
<1>1. ASSUME NEW a \in Artifacts, IngestSymbol(a) PROVE SymbolTypeOK'
  BY <1>0, <1>1, FileFacts DEF IngestSymbol
<1>2. ASSUME NEW a \in Artifacts, AppendSymbol(a) PROVE SymbolTypeOK'
  <2>1. parts[a][1] = "file" /\ parts[a] \in Files
    BY <1>2 DEF AppendSymbol, ArtifactSound
  <2>2. parts[a][2] + 1 \in 0..Chunks
    BY <1>0, <1>2, <2>1, FileFacts DEF AppendSymbol
  <2>3. FileOf(parts[a][2] + 1) \in Files
    BY <2>2, FileFacts
  <2>4. QED
    BY <1>2, <2>3 DEF AppendSymbol
<1>3. ASSUME NEW a \in Artifacts, AbortIngest(a) \/ IdentityUnreadable(a) PROVE SymbolTypeOK'
  BY <1>0, <1>3 DEF AbortIngest, IdentityUnreadable, FailSymbol
<1>4. Failure => failures' \in 0..MaxFailures
  BY <1>0 DEF Failure
<1>5. ASSUME NEW a \in Artifacts, AtSeal(a) PROVE Identity(a) \in Identities
  BY <1>5, IdentityType DEF AtSeal
<1>6. ASSUME NEW a \in Artifacts, SealDeduplicates(a) PROVE SymbolTypeOK'
  BY <1>0, <1>5, <1>6 DEF SealDeduplicates
<1>7. ASSUME NEW a \in Artifacts, SealSymbol(a) PROVE SymbolTypeOK'
  BY <1>0, <1>5, <1>7 DEF SealSymbol, PromoteSymbol
<1>8. ASSUME NEW a \in Artifacts, SealRefused(a) PROVE SymbolTypeOK'
  BY <1>4, <1>8 DEF SealRefused
<1>9. ASSUME NEW a \in Artifacts, SealInterrupted(a) PROVE SymbolTypeOK'
  BY <1>0, <1>4, <1>9 DEF SealInterrupted, PromoteSymbol
<1>10. ASSUME NEW a \in Artifacts, PurgeSymbol(a) \/ PurgeInterrupted(a) PROVE SymbolTypeOK'
  BY <1>0, <1>4, <1>10 DEF PurgeSymbol, PurgeInterrupted
<1>11. CASE ProcessDies \/ Restart
  BY <1>4, <1>11 DEF ProcessDies, Restart
<1>12. CASE UNCHANGED symbolVars
  BY <1>12 DEF symbolVars
<1>13. QED
  BY <1>1, <1>2, <1>3, <1>6, <1>7, <1>8, <1>9, <1>10, <1>11, <1>12 DEF SymbolNext

\* A step on another artifact does not touch this one.
LEMMA SoundElsewhere ==
  ASSUME NEW a \in Artifacts, ArtifactSound(a), content' = content,
         ingest'[a] = ingest[a], parts'[a] = parts[a], object'[a] = object[a],
         a \in rows' <=> a \in rows, a \in torn => a \in torn', failures' = 0 => failures = 0
  PROVE  ArtifactSound(a)'
BY DEF ArtifactSound, Identity

LEMMA ArtifactStep ==
  ASSUME StoreInv, [SymbolNext]_symbolVars
  PROVE  \A a \in Artifacts : ArtifactSound(a)'
<1> USE DEF StoreInv, SymbolTypeOK
<1>0. /\ Chunks \in Nat /\ NoBytes # FileOf(Chunks) /\ Chunks \in 0..Chunks
      /\ Failure => failures' # 0
  BY SymbolAssumption, FileFacts DEF Failure
<1>1. ASSUME NEW a \in Artifacts, IngestSymbol(a), NEW b \in Artifacts PROVE ArtifactSound(b)'
  <2>1. CASE b = a
    <3>1. 0 \in 0..Chunks /\ FileOf(0)[1] = "file"
      BY <1>0, FileFacts
    <3>2. QED
      BY <1>0, <1>1, <2>1, <3>1 DEF IngestSymbol, ArtifactSound, Identity
  <2>2. CASE b # a
    BY <1>1, <2>2, SoundElsewhere DEF IngestSymbol
  <2>3. QED
    BY <2>1, <2>2
<1>2. ASSUME NEW a \in Artifacts, AppendSymbol(a), NEW b \in Artifacts PROVE ArtifactSound(b)'
  <2>1. CASE b = a
    <3>1. FileOf(parts[a][2] + 1)[1] = "file"
      BY DEF FileOf
    <3>2. QED
      BY <1>2, <2>1, <3>1 DEF AppendSymbol, ArtifactSound, Identity
  <2>2. CASE b # a
    BY <1>2, <2>2, SoundElsewhere DEF AppendSymbol
  <2>3. QED
    BY <2>1, <2>2
<1>3. ASSUME NEW a \in Artifacts, AbortIngest(a) \/ IdentityUnreadable(a), NEW b \in Artifacts
      PROVE  ArtifactSound(b)'
  <2>1. CASE b = a
    BY <1>3, <2>1 DEF AbortIngest, IdentityUnreadable, FailSymbol, ArtifactSound, Identity
  <2>2. CASE b # a
    BY <1>3, <2>2, SoundElsewhere DEF AbortIngest, IdentityUnreadable, FailSymbol
  <2>3. QED
    BY <2>1, <2>2
<1>4. ASSUME NEW a \in Artifacts, SealDeduplicates(a), NEW b \in Artifacts PROVE ArtifactSound(b)'
  <2>1. CASE b = a
    BY <1>4, <2>1 DEF SealDeduplicates, AtSeal, ArtifactSound, Identity
  <2>2. CASE b # a
    BY <1>4, <2>2, SoundElsewhere DEF SealDeduplicates
  <2>3. QED
    BY <2>1, <2>2
<1>5. ASSUME NEW a \in Artifacts, AtSeal(a) PROVE parts[a] = FileOf(Chunks)
  BY <1>5, FileFacts DEF AtSeal, ArtifactSound
<1>6. ASSUME NEW a \in Artifacts, SealSymbol(a), NEW b \in Artifacts PROVE ArtifactSound(b)'
  <2>1. CASE b = a
    BY <1>0, <1>5, <1>6, <2>1 DEF SealSymbol, PromoteSymbol, AtSeal, ArtifactSound, Identity
  <2>2. CASE b # a
    BY <1>6, <2>2, SoundElsewhere DEF SealSymbol, PromoteSymbol
  <2>3. QED
    BY <2>1, <2>2
<1>7. ASSUME NEW a \in Artifacts, SealRefused(a), NEW b \in Artifacts PROVE ArtifactSound(b)'
  <2>1. CASE b = a
    BY <1>0, <1>7, <2>1 DEF SealRefused, AtSeal, ArtifactSound, Identity
  <2>2. CASE b # a
    BY <1>0, <1>7, <2>2, SoundElsewhere DEF SealRefused
  <2>3. QED
    BY <2>1, <2>2
<1>8. ASSUME NEW a \in Artifacts, SealInterrupted(a), NEW b \in Artifacts PROVE ArtifactSound(b)'
  <2>1. CASE b = a
    BY <1>0, <1>5, <1>8, <2>1 DEF SealInterrupted, PromoteSymbol, AtSeal, ArtifactSound, Identity
  <2>2. CASE b # a
    BY <1>0, <1>8, <2>2, SoundElsewhere DEF SealInterrupted, PromoteSymbol
  <2>3. QED
    BY <2>1, <2>2
<1>9. ASSUME NEW a \in Artifacts, PurgeSymbol(a), NEW b \in Artifacts PROVE ArtifactSound(b)'
  <2>1. CASE b = a
    BY <1>9, <2>1 DEF PurgeSymbol, ArtifactSound, Identity
  <2>2. CASE b # a
    BY <1>9, <2>2, SoundElsewhere DEF PurgeSymbol
  <2>3. QED
    BY <2>1, <2>2
<1>10. ASSUME NEW a \in Artifacts, PurgeInterrupted(a), NEW b \in Artifacts PROVE ArtifactSound(b)'
  <2>1. CASE b = a
    BY <1>0, <1>10, <2>1 DEF PurgeInterrupted, ArtifactSound, Identity
  <2>2. CASE b # a
    BY <1>0, <1>10, <2>2, SoundElsewhere DEF PurgeInterrupted
  <2>3. QED
    BY <2>1, <2>2
<1>11. ASSUME ProcessDies \/ Restart, NEW b \in Artifacts PROVE ArtifactSound(b)'
  <2>1. failures' # 0
    BY <1>0, <1>11 DEF ProcessDies, Restart
  <2>2. QED
    BY <1>11, <2>1 DEF ProcessDies, Restart, ArtifactSound, Identity
<1>12. CASE UNCHANGED symbolVars
  BY <1>12 DEF symbolVars, ArtifactSound, Identity
<1>13. QED
  BY <1>1, <1>2, <1>3, <1>4, <1>6, <1>7, <1>8, <1>9, <1>10, <1>11, <1>12 DEF SymbolNext

\* How a step may change the rows: they only shrink, except when SealSymbol adds
\* one for an identity that has none; a registered object stays or goes.
RowsStep ==
  /\ content' = content
  /\ \/ rows' \subseteq rows
     \/ \E a \in Artifacts : Existing(a) = {} /\ rows' = rows \cup {a}
  /\ \A b \in rows : object'[b] = object[b] \/ object'[b] = NoBytes

LEMMA RowsChange ==
  ASSUME StoreInv, [SymbolNext]_symbolVars
  PROVE  RowsStep
<1> USE DEF StoreInv, SymbolTypeOK, RowsStep
<1>1. ASSUME NEW a \in Artifacts,
             IngestSymbol(a) \/ AppendSymbol(a) \/ AbortIngest(a) \/ IdentityUnreadable(a)
             \/ SealDeduplicates(a) \/ SealRefused(a)
      PROVE  RowsStep
  BY <1>1 DEF IngestSymbol, AppendSymbol, AbortIngest, IdentityUnreadable, FailSymbol,
              SealDeduplicates, SealRefused
<1>2. ASSUME NEW a \in Artifacts, SealSymbol(a) \/ SealInterrupted(a)
      PROVE  RowsStep
  <2>1. a \notin rows
    BY <1>2 DEF SealSymbol, SealInterrupted, AtSeal, ArtifactSound
  <2>2. QED
    BY <1>2, <2>1 DEF SealSymbol, SealInterrupted, PromoteSymbol
<1>3. ASSUME NEW a \in Artifacts, PurgeSymbol(a) \/ PurgeInterrupted(a)
      PROVE  RowsStep
  BY <1>3 DEF PurgeSymbol, PurgeInterrupted
<1>4. CASE ProcessDies \/ Restart \/ UNCHANGED symbolVars
  BY <1>4 DEF ProcessDies, Restart, symbolVars
<1>5. QED
  BY <1>1, <1>2, <1>3, <1>4 DEF SymbolNext

LEMMA OneRowStep ==
  ASSUME StoreInv, [SymbolNext]_symbolVars
  PROVE  OneRowPerIdentity'
<1>1. RowsStep
  BY RowsChange
<1>2. CASE rows' \subseteq rows
  BY <1>1, <1>2 DEF StoreInv, RowsStep, OneRowPerIdentity, SameModule, Identity
<1>3. ASSUME NEW a \in Artifacts, Existing(a) = {}, rows' = rows \cup {a}
      PROVE  OneRowPerIdentity'
  BY <1>1, <1>3 DEF StoreInv, RowsStep, OneRowPerIdentity, SameModule, Identity, Existing
<1>4. QED
  BY <1>1, <1>2, <1>3 DEF RowsStep

LEMMA AckedStep ==
  ASSUME StoreInv, [SymbolNext]_symbolVars
  PROVE  AckedHasRow'
<1> USE DEF StoreInv, AckedHasRow
<1>0. content' = content
  BY RowsChange DEF RowsStep
<1>1. CASE acked' \subseteq acked /\ rows' = rows
  BY <1>0, <1>1 DEF Identity
<1>2. ASSUME NEW a \in Artifacts, SealDeduplicates(a)
      PROVE  AckedHasRow'
  BY <1>0, <1>2 DEF SealDeduplicates, Existing, SameModule, Identity
<1>3. ASSUME NEW a \in Artifacts, SealSymbol(a)
      PROVE  AckedHasRow'
  BY <1>0, <1>3 DEF SealSymbol, Identity
<1>4. ASSUME NEW a \in Artifacts, PurgeSymbol(a)
      PROVE  AckedHasRow'
  BY <1>0, <1>4 DEF PurgeSymbol, Identity
<1>5. ASSUME NEW a \in Artifacts,
             IngestSymbol(a) \/ AppendSymbol(a) \/ AbortIngest(a) \/ IdentityUnreadable(a)
             \/ SealRefused(a) \/ SealInterrupted(a) \/ PurgeInterrupted(a)
      PROVE  acked' \subseteq acked /\ rows' = rows
  BY <1>5 DEF IngestSymbol, AppendSymbol, AbortIngest, IdentityUnreadable, FailSymbol,
              SealRefused, SealInterrupted, PurgeInterrupted
<1>6. ProcessDies \/ Restart \/ UNCHANGED symbolVars => acked' \subseteq acked /\ rows' = rows
  BY DEF ProcessDies, Restart, symbolVars
<1>7. QED
  BY <1>1, <1>2, <1>3, <1>4, <1>5, <1>6 DEF SymbolNext

LEMMA DownStep ==
  ASSUME StoreInv, [SymbolNext]_symbolVars
  PROVE  process' = "down" => failures' # 0
<1> USE DEF StoreInv, SymbolTypeOK
<1>1. Failure => failures' # 0
  BY SymbolAssumption DEF Failure
<1>2. ASSUME NEW a \in Artifacts,
             IngestSymbol(a) \/ AppendSymbol(a) \/ AbortIngest(a) \/ IdentityUnreadable(a)
             \/ SealDeduplicates(a) \/ SealSymbol(a) \/ PurgeSymbol(a)
      PROVE  process' = process /\ failures' = failures
  BY <1>2 DEF IngestSymbol, AppendSymbol, AbortIngest, IdentityUnreadable, FailSymbol,
              SealDeduplicates, SealSymbol, PurgeSymbol
<1>3. ASSUME NEW a \in Artifacts, SealRefused(a) \/ SealInterrupted(a) \/ PurgeInterrupted(a)
      PROVE  Failure
  BY <1>3 DEF SealRefused, SealInterrupted, PurgeInterrupted
<1>4. ProcessDies => Failure
  BY DEF ProcessDies
<1>5. Restart => process' = "up"
  BY DEF Restart
<1>6. UNCHANGED symbolVars => process' = process /\ failures' = failures
  BY DEF symbolVars
<1>7. QED
  BY <1>1, <1>2, <1>3, <1>4, <1>5, <1>6 DEF SymbolNext

-----------------------------------------------------------------------------
(* The read route, from the invariant.                                     *)

\* An identity is served from at most one artifact.
LEMMA ServedFromOne ==
  ASSUME StoreInv, NEW i \in Identities
  PROVE  \/ OpenSymbolArtifact(i) = {}
         \/ \E a \in rows : /\ Identity(a) = i /\ object[a] = FileOf(Chunks)
                            /\ OpenSymbolArtifact(i) = {<<content[a], Chunks>>}
<1> USE DEF StoreInv, SymbolTypeOK
<1> DEFINE S == {b \in rows : Identity(b) = i /\ object[b] # NoBytes}
<1>1. CASE S = {}
  BY <1>1 DEF OpenSymbolArtifact
<1>2. ASSUME NEW a \in S
      PROVE  /\ Identity(a) = i /\ object[a] = FileOf(Chunks)
             /\ OpenSymbolArtifact(i) = {<<content[a], Chunks>>}
  <2>1. S = {a}
    BY <1>2 DEF OneRowPerIdentity, SameModule
  <2>2. object[a] = FileOf(Chunks)
    BY <1>2 DEF ArtifactSound
  <2>3. object[a][2] = Chunks
    BY <2>2 DEF FileOf
  <2>4. OpenSymbolArtifact(i) = {<<content[b], object[b][2]>> : b \in S}
    BY DEF OpenSymbolArtifact
  <2>5. OpenSymbolArtifact(i) = {<<content[a], object[a][2]>>}
    BY <2>1, <2>4
  <2>6. QED
    BY <1>2, <2>2, <2>3, <2>5
<1>3. QED
  BY <1>1, <1>2

LEMMA InvServes == StoreInv => SymbolsAreServed
<1> SUFFICES ASSUME StoreInv PROVE SymbolsAreServed
  OBVIOUS
<1>1. SymbolTypeOK
  BY DEF StoreInv
<1>2. ServedIsOwn
  <2> SUFFICES ASSUME NEW i \in Identities
               PROVE  /\ Cardinality(OpenSymbolArtifact(i)) <= 1
                      /\ \A f \in OpenSymbolArtifact(i) : IdentityOf[f[1]] = i /\ f[2] = Chunks
    BY DEF ServedIsOwn
  <2>1. CASE OpenSymbolArtifact(i) = {}
    <3>1. Cardinality(OpenSymbolArtifact(i)) = 0
      BY <2>1, FS_EmptySet
    <3>2. QED
      BY <2>1, <3>1
  <2>2. ASSUME NEW a \in rows, Identity(a) = i, OpenSymbolArtifact(i) = {<<content[a], Chunks>>}
        PROVE  /\ Cardinality(OpenSymbolArtifact(i)) <= 1
               /\ \A f \in OpenSymbolArtifact(i) : IdentityOf[f[1]] = i /\ f[2] = Chunks
    <3>1. Cardinality(OpenSymbolArtifact(i)) = 1
      BY <2>2, FS_Singleton
    <3>2. QED
      BY <2>2, <3>1 DEF Identity
  <2>3. QED
    BY <2>1, <2>2, ServedFromOne
<1>3. AnsweredIsServed
  <2> SUFFICES ASSUME NEW i \in acked
               PROVE  OpenSymbolArtifact(i) # Miss \/ \E a \in torn \cap rows : Identity(a) = i
    BY DEF AnsweredIsServed
  <2>1. PICK a \in rows : Identity(a) = i
    BY DEF StoreInv, AckedHasRow
  <2>2. object[a] # NoBytes \/ a \in torn
    BY DEF StoreInv, SymbolTypeOK, ArtifactSound
  <2>3. CASE object[a] # NoBytes
    <3>1. <<content[a], object[a][2]>> \in OpenSymbolArtifact(i)
      BY <2>1, <2>3 DEF OpenSymbolArtifact
    <3>2. QED
      BY <3>1 DEF Miss
  <2>4. QED
    BY <2>1, <2>2, <2>3
<1>4. NothingLeaksUnprovoked
  BY DEF StoreInv, ArtifactSound, NothingLeaksUnprovoked
<1>5. QED
  BY <1>1, <1>2, <1>3, <1>4 DEF SymbolsAreServed

LEMMA ServedStep ==
  ASSUME StoreInv, [SymbolNext]_symbolVars
  PROVE  ServedKept
<1> SUFFICES ASSUME NEW i \in Identities, OpenSymbolArtifact(i) # Miss
             PROVE  OpenSymbolArtifact(i)' = OpenSymbolArtifact(i) \/ OpenSymbolArtifact(i)' = Miss
  BY DEF ServedKept
<1>1. RowsStep
  BY RowsChange
<1>2. PICK a \in rows : /\ Identity(a) = i /\ object[a] = FileOf(Chunks)
                        /\ OpenSymbolArtifact(i) = {<<content[a], Chunks>>}
  BY ServedFromOne DEF Miss
<1>3. ASSUME NEW b \in rows', Identity(b)' = i
      PROVE  b = a
  <2>1. Identity(b) = i
    BY <1>1, <1>3 DEF RowsStep, Identity
  <2>2. b \in rows
    BY <1>1, <1>2, <1>3, <2>1 DEF RowsStep, Existing, SameModule
  <2>3. QED
    BY <1>2, <2>1, <2>2 DEF StoreInv, OneRowPerIdentity, SameModule
<1>4. OpenSymbolArtifact(i)' \subseteq OpenSymbolArtifact(i)
  <2> SUFFICES ASSUME NEW b \in rows', Identity(b)' = i, object'[b] # NoBytes
               PROVE  <<content'[b], object'[b][2]>> \in OpenSymbolArtifact(i)
    BY DEF OpenSymbolArtifact
  <2>1. b = a
    BY <1>3
  <2>2. object'[a] = object[a] /\ content'[a] = content[a]
    BY <1>1, <2>1 DEF RowsStep
  <2>3. object[a][2] = Chunks
    BY <1>2 DEF FileOf
  <2>4. QED
    BY <1>2, <2>1, <2>2, <2>3
<1>5. QED
  BY <1>2, <1>4 DEF Miss

-----------------------------------------------------------------------------
(* The theorems.                                                           *)

\* Ingest, purge, failures and crashes keep the store's invariant: a whole
\* object for a row, one row for an identity, a row for what was answered.
THEOREM StoreInvariant == SymbolSpec => []StoreInv
<1>1. SymbolInit => StoreInv
  <2> SUFFICES ASSUME SymbolInit PROVE StoreInv
    OBVIOUS
  <2>1. NoBytes \in Files
    BY FileFacts
  <2>2. SymbolTypeOK
    BY <2>1, SymbolAssumption DEF SymbolInit, SymbolTypeOK, Progress
  <2>3. \A a \in Artifacts : ArtifactSound(a)
    BY DEF SymbolInit, ArtifactSound
  <2>4. QED
    BY <2>2, <2>3 DEF SymbolInit, StoreInv, OneRowPerIdentity, AckedHasRow
<1>2. StoreInv /\ [SymbolNext]_symbolVars => StoreInv'
  BY StoreTypeStep, ArtifactStep, OneRowStep, AckedStep, DownStep DEF StoreInv
<1>3. QED
  BY <1>1, <1>2, PTL DEF SymbolSpec

\* A debugger gets one whole file of the identity it asks for, a 201 is kept
\* until it is purged, and nothing leaks without a failure
\* (SealSymbol, openSymbolArtifact).
THEOREM SymbolsServed == SymbolSpec => []SymbolsAreServed
BY StoreInvariant, InvServes, PTL

\* What is served under an identity is never replaced by other bytes, whatever
\* is uploaded, purged or interrupted meanwhile (symbol-routes.ts lets clients
\* cache it for a year).
THEOREM ServedNeverReplaced == SymbolSpec => ServedIsImmutable
<1>1. StoreInv /\ [SymbolNext]_symbolVars => [ServedKept]_symbolVars
  BY ServedStep
<1>2. QED
  BY <1>1, StoreInvariant, PTL DEF SymbolSpec, ServedIsImmutable

-----------------------------------------------------------------------------
(* The inspector: what the first bad check says.                           *)

\* A set of numbers has a least one.
LEMMA LeastNumber ==
  ASSUME NEW S \in SUBSET Nat, S # {}
  PROVE  \E n \in S : \A m \in S : n <= m
<1> DEFINE R == {ss \in Nat \X Nat : ss[1] < ss[2]}
<1>1. IsWellFoundedOn(R, Nat)
  BY NatLessThanWellFounded DEF OpToRel
<1>2. PICK n \in S : \A m \in S : ~(<<m, n>> \in R)
  <2> HIDE DEF R
  <2> QED  BY <1>1, WFMin
<1>3. \A m \in S : ~(m < n)
  BY <1>2
<1>4. QED
  BY <1>3

LEMMA SomeLeast ==
  ASSUME NEW S \in SUBSET Nat, S # {}
  PROVE  Inspector!Min(S) \in S
<1>1. \E n \in S : \A m \in S : n <= m
  BY LeastNumber
<1>2. QED
  BY <1>1 DEF Inspector!Min

\* A list of checks says "ok" when each of them does, and only then.
LEMMA FirstSaysAll ==
  ASSUME NEW codes, DOMAIN codes \subseteq Nat
  PROVE  Inspector!First(codes) = "ok" <=> \A i \in DOMAIN codes : codes[i] = "ok"
<1> DEFINE bad == {i \in DOMAIN codes : codes[i] # "ok"}
<1>1. bad # {} => Inspector!Min(bad) \in bad
  <2>1. bad \in SUBSET Nat
    OBVIOUS
  <2> HIDE DEF bad
  <2> QED  BY <2>1, SomeLeast
<1>2. QED
  BY <1>1 DEF Inspector!First

LEMMA FirstOfTwo == \A a, b : Inspector!First(<<a, b>>) = "ok" <=> a = "ok" /\ b = "ok"
<1> SUFFICES ASSUME NEW a, NEW b PROVE Inspector!First(<<a, b>>) = "ok" <=> a = "ok" /\ b = "ok"
  OBVIOUS
<1>1. DOMAIN <<a, b>> = {1, 2}
  OBVIOUS
<1>2. QED
  BY <1>1, FirstSaysAll

LEMMA FirstOfThree ==
  \A a, b, c : Inspector!First(<<a, b, c>>) = "ok" <=> a = "ok" /\ b = "ok" /\ c = "ok"
<1> SUFFICES ASSUME NEW a, NEW b, NEW c
             PROVE  Inspector!First(<<a, b, c>>) = "ok" <=> a = "ok" /\ b = "ok" /\ c = "ok"
  OBVIOUS
<1>1. DOMAIN <<a, b, c>> = {1, 2, 3}
  OBVIOUS
<1>2. QED
  BY <1>1, FirstSaysAll

\* A list of checks says what one of them says.
LEMMA FirstIsOne ==
  ASSUME NEW codes, DOMAIN codes \subseteq Nat
  PROVE  \/ Inspector!First(codes) = "ok"
         \/ \E i \in DOMAIN codes : codes[i] # "ok" /\ Inspector!First(codes) = codes[i]
<1> DEFINE bad == {i \in DOMAIN codes : codes[i] # "ok"}
<1>1. bad # {} => Inspector!Min(bad) \in bad
  <2>1. bad \in SUBSET Nat
    OBVIOUS
  <2> HIDE DEF bad
  <2> QED  BY <2>1, SomeLeast
<1>2. QED
  BY <1>1 DEF Inspector!First

-----------------------------------------------------------------------------
(* The inspector: sums of sizes.                                           *)

\* t is the list of the first sums of seq, up to that of k numbers.
SumsUpTo(seq, k, t) == t[0] = 0 /\ \A n \in 1..k : t[n] = t[n - 1] + seq[n]

\* The sums exist: with those of k numbers come those of one number more.
LEMMA SumsExist ==
  ASSUME NEW seq \in Seq(Nat)
  PROVE  \E t \in [0..Len(seq) -> Nat] : SumsUpTo(seq, Len(seq), t)
<1> DEFINE P(k) == \E t \in [0..k -> Nat] : SumsUpTo(seq, k, t)
           Bad == {k \in 0..Len(seq) : ~P(k)}
<1>1. Len(seq) \in Nat /\ \A i \in 1..Len(seq) : seq[i] \in Nat
  OBVIOUS
<1>2. P(0)
  <2>1. [i \in 0..0 |-> 0] \in [0..0 -> Nat] /\ SumsUpTo(seq, 0, [i \in 0..0 |-> 0])
    BY DEF SumsUpTo
  <2> QED  BY <2>1
<1>3. ASSUME NEW k \in 1..Len(seq), P(k - 1) PROVE P(k)
  <2>1. PICK t \in [0..(k - 1) -> Nat] : SumsUpTo(seq, k - 1, t)
    BY <1>3
  <2> DEFINE longer == [i \in 0..k |-> IF i = k THEN t[k - 1] + seq[k] ELSE t[i]]
  <2>2. longer \in [0..k -> Nat]
    BY <1>1
  <2>3. longer[0] = 0
    BY <2>1 DEF SumsUpTo
  <2>4. ASSUME NEW n \in 1..k PROVE longer[n] = longer[n - 1] + seq[n]
    BY <2>1 DEF SumsUpTo
  <2>5. SumsUpTo(seq, k, longer)
    BY <2>3, <2>4 DEF SumsUpTo
  <2> QED  BY <2>2, <2>5
<1>4. Bad = {}
  <2> SUFFICES ASSUME Bad # {} PROVE FALSE
    OBVIOUS
  <2> HIDE DEF P
  <2>1. Bad \in SUBSET Nat
    BY <1>1
  <2>2. PICK k \in Bad : \A m \in Bad : k <= m
    <3> HIDE DEF Bad
    <3> QED  BY <2>1, LeastNumber
  <2>3. k \in 1..Len(seq) /\ k - 1 \notin Bad
    BY <1>1, <1>2, <2>2
  <2>4. P(k - 1)
    BY <1>1, <2>3
  <2> QED  BY <1>3, <2>2, <2>3, <2>4
<1> HIDE DEF P
<1>5. P(Len(seq))
  <2>1. Len(seq) \in 0..Len(seq)
    BY <1>1
  <2> QED  BY <1>4, <2>1
<1>6. QED
  BY <1>5 DEF P

\* The recursive function is what its equations say.
LEMMA SumsAre ==
  ASSUME NEW seq \in Seq(Nat)
  PROVE  /\ Inspector!Sums(seq) \in [0..Len(seq) -> Nat] /\ Inspector!Sums(seq)[0] = 0
         /\ \A n \in 1..Len(seq) : Inspector!Sums(seq)[n] = Inspector!Sums(seq)[n - 1] + seq[n]
<1> DEFINE Rec(t) == t = [n \in 0..Len(seq) |-> IF n = 0 THEN 0 ELSE t[n - 1] + seq[n]]
           sums == Inspector!Sums(seq)
<1>1. Len(seq) \in Nat /\ \A i \in 1..Len(seq) : seq[i] \in Nat
  OBVIOUS
<1>2. PICK t \in [0..Len(seq) -> Nat] : SumsUpTo(seq, Len(seq), t)
  BY SumsExist
<1>3. Rec(t)
  BY <1>1, <1>2 DEF SumsUpTo
<1>4. sums = CHOOSE u : Rec(u)
  BY DEF Inspector!Sums
<1>5. Rec(sums)
  <2> HIDE DEF Rec, sums
  <2> QED  BY <1>3, <1>4
<1> HIDE DEF sums
<1>6. sums[0] = 0 /\ DOMAIN sums = 0..Len(seq) /\ \A n \in 1..Len(seq) : sums[n] = sums[n - 1] + seq[n]
  BY <1>1, <1>5
<1> DEFINE Bad == {n \in 0..Len(seq) : sums[n] # t[n]}
<1>7. Bad = {}
  <2> SUFFICES ASSUME Bad # {} PROVE FALSE
    OBVIOUS
  <2>1. Bad \in SUBSET Nat
    BY <1>1
  <2>2. PICK k \in Bad : \A m \in Bad : k <= m
    <3> HIDE DEF Bad
    <3> QED  BY <2>1, LeastNumber
  <2>3. k \in 1..Len(seq) /\ k - 1 \notin Bad
    BY <1>1, <1>2, <1>6, <2>2 DEF SumsUpTo
  <2>4. sums[k - 1] = t[k - 1]
    BY <1>1, <2>3
  <2>5. sums[k] = t[k]
    BY <1>2, <1>6, <2>3, <2>4 DEF SumsUpTo
  <2> QED  BY <2>2, <2>5
<1>8. sums = [n \in 0..Len(seq) |-> sums[n]] /\ \A n \in 0..Len(seq) : sums[n] \in Nat
  <2>1. \A n \in 0..Len(seq) : sums[n] = t[n]
    BY <1>7
  <2> QED  BY <1>2, <1>5, <2>1
<1>9. QED
  BY <1>6, <1>8 DEF sums

\* Sums grow.
LEMMA SumsGrow ==
  ASSUME NEW seq \in Seq(Nat), NEW i \in 0..Len(seq), NEW j \in i..Len(seq)
  PROVE  Inspector!Sums(seq)[i] <= Inspector!Sums(seq)[j]
<1> DEFINE sums == Inspector!Sums(seq)
           Bad == {k \in i..Len(seq) : sums[k] < sums[i]}
<1>1. Len(seq) \in Nat /\ i \in Nat /\ \A k \in 1..Len(seq) : seq[k] \in Nat
  OBVIOUS
<1>2. /\ \A k \in 0..Len(seq) : sums[k] \in Nat
      /\ \A k \in 1..Len(seq) : sums[k] = sums[k - 1] + seq[k]
  BY SumsAre
<1> HIDE DEF sums
<1>3. Bad = {}
  <2> SUFFICES ASSUME Bad # {} PROVE FALSE
    OBVIOUS
  <2>1. Bad \in SUBSET Nat
    BY <1>1
  <2>2. PICK k \in Bad : \A m \in Bad : k <= m
    <3> HIDE DEF Bad
    <3> QED  BY <2>1, LeastNumber
  <2>3. k \in i..Len(seq) /\ k # i /\ k - 1 \notin Bad
    BY <1>1, <1>2, <2>2
  <2>4. k \in 1..Len(seq) /\ k - 1 \in i..Len(seq) /\ k - 1 \in 0..Len(seq)
    BY <1>1, <2>3
  <2>5. ~(sums[k - 1] < sums[i])
    BY <2>3, <2>4
  <2>6. sums[k] = sums[k - 1] + seq[k] /\ sums[k - 1] \in Nat /\ seq[k] \in Nat /\ sums[i] \in Nat
    BY <1>1, <1>2, <2>4
  <2>7. sums[k] < sums[i]
    BY <2>2
  <2> HIDE DEF Bad
  <2> QED  BY <2>5, <2>6, <2>7
<1>4. ~(sums[j] < sums[i])
  BY <1>3
<1>5. QED
  BY <1>1, <1>2, <1>4 DEF sums

\* Lists that begin alike have the same sums.
LEMMA SumsOfPrefix ==
  ASSUME NEW a \in Seq(Nat), NEW b \in Seq(Nat), NEW n \in Nat, n <= Len(a), n <= Len(b),
         \A i \in 1..n : a[i] = b[i]
  PROVE  Inspector!Sums(a)[n] = Inspector!Sums(b)[n]
<1> DEFINE sa == Inspector!Sums(a)
           sb == Inspector!Sums(b)
           Bad == {k \in 0..n : sa[k] # sb[k]}
<1>1. /\ Len(a) \in Nat /\ Len(b) \in Nat
      /\ sa[0] = 0 /\ \A k \in 1..Len(a) : sa[k] = sa[k - 1] + a[k]
      /\ sb[0] = 0 /\ \A k \in 1..Len(b) : sb[k] = sb[k - 1] + b[k]
  BY SumsAre
<1> HIDE DEF sa, sb
<1>2. \A k \in 1..n : k \in 1..Len(a) /\ k \in 1..Len(b)
  BY <1>1
<1>3. Bad = {}
  <2> SUFFICES ASSUME Bad # {} PROVE FALSE
    OBVIOUS
  <2>1. Bad \in SUBSET Nat
    OBVIOUS
  <2>2. PICK k \in Bad : \A m \in Bad : k <= m
    <3> HIDE DEF Bad
    <3> QED  BY <2>1, LeastNumber
  <2>3. k \in 1..n /\ k - 1 \notin Bad
    BY <1>1, <2>2
  <2>4. sa[k - 1] = sb[k - 1] /\ a[k] = b[k]
    BY <2>3
  <2>5. sa[k] = sb[k]
    BY <1>1, <1>2, <2>3, <2>4
  <2> QED  BY <2>2, <2>5
<1>4. n \in 0..n
  OBVIOUS
<1>5. sa[n] = sb[n]
  BY <1>3, <1>4
<1>6. QED
  BY <1>5 DEF sa, sb

\* One number more adds itself to the total.
LEMMA SumOfAppend ==
  ASSUME NEW seq \in Seq(Nat), NEW x \in Nat
  PROVE  /\ Inspector!Total(seq) \in Nat /\ Append(seq, x) \in Seq(Nat)
         /\ Inspector!Total(Append(seq, x)) = Inspector!Total(seq) + x
<1> DEFINE more == Append(seq, x)
           n == Len(seq)
<1>1. /\ n \in Nat /\ more \in Seq(Nat) /\ Len(more) = n + 1 /\ more[n + 1] = x
      /\ \A i \in 1..n : more[i] = seq[i]
  OBVIOUS
<1> HIDE DEF more
<1>2. Inspector!Sums(more)[n] = Inspector!Sums(seq)[n]
  <2>1. n <= Len(more) /\ n <= Len(seq)
    BY <1>1
  <2> QED  BY <1>1, <2>1, SumsOfPrefix, Zenon
<1>3. Inspector!Sums(more)[n + 1] = Inspector!Sums(more)[n] + x
  <2>1. n + 1 \in 1..Len(more) /\ (n + 1) - 1 = n
    BY <1>1
  <2>2. Inspector!Sums(more)[n + 1] = Inspector!Sums(more)[(n + 1) - 1] + more[n + 1]
    BY <1>1, <2>1, SumsAre, Zenon
  <2> QED  BY <1>1, <2>1, <2>2
<1>4. Inspector!Sums(seq)[n] \in Nat
  <2>1. n \in 0..Len(seq)
    BY <1>1
  <2> QED  BY <2>1, SumsAre
<1>5. QED
  BY <1>1, <1>2, <1>3, <1>4 DEF Inspector!Total, more

\* No number of a list ends after the total.
LEMMA SumsWithin ==
  ASSUME NEW seq \in Seq(Nat)
  PROVE  /\ Inspector!Total(seq) \in Nat /\ Len(seq) \in Nat /\ DOMAIN seq = 1..Len(seq)
         /\ \A i \in 1..Len(seq) :
              /\ seq[i] \in Nat /\ Inspector!Before(seq, i) \in Nat
              /\ Inspector!Sums(seq)[i] = Inspector!Before(seq, i) + seq[i]
              /\ Inspector!Before(seq, i) + seq[i] <= Inspector!Total(seq)
<1> DEFINE sums == Inspector!Sums(seq)
<1>1. /\ Len(seq) \in Nat /\ DOMAIN seq = 1..Len(seq) /\ \A i \in 1..Len(seq) : seq[i] \in Nat
      /\ \A i \in 1..Len(seq) : i \in 0..Len(seq) /\ i - 1 \in 0..Len(seq) /\ Len(seq) \in i..Len(seq)
      /\ Len(seq) \in 0..Len(seq)
  OBVIOUS
<1>2. /\ \A i \in 0..Len(seq) : sums[i] \in Nat
      /\ \A i \in 1..Len(seq) : sums[i] = sums[i - 1] + seq[i]
  BY SumsAre
<1>3. \A i \in 1..Len(seq) : sums[i] <= sums[Len(seq)]
  BY <1>1, SumsGrow
<1> HIDE DEF sums
<1>4. Inspector!Total(seq) = sums[Len(seq)] /\ \A i : Inspector!Before(seq, i) = sums[i - 1]
  BY DEF Inspector!Total, Inspector!Before, sums
<1>5. QED
  BY <1>1, <1>2, <1>3, <1>4 DEF sums

-----------------------------------------------------------------------------
(* The inspector: the files it is given.                                   *)

Rest == {"signature", "version", "directory", "info", "list", "list64", "parameters"}

EntryTyped(e) == {"type", "size", "rva"} = DOMAIN e /\ e.size \in Nat
ModuleTyped(m) ==
  /\ {"name", "length", "odd", "record", "bytes", "rsds"} = DOMAIN m
  /\ m.length \in Nat /\ m.bytes \in Nat

\* n modules are in the file; its one damaged field is not both the count of
\* the modules and the size of their stream.
FileTyped(f, n) ==
  /\ f.entries = [i \in 1..6 |-> f.entries[i]] /\ \A i \in 1..6 : EntryTyped(f.entries[i])
  /\ f.streams \in Nat /\ (f.streams <= 6 \/ f.streams > MaxCount)
  /\ DOMAIN f.modules.list = 1..n /\ \A i \in 1..n : ModuleTyped(f.modules.list[i])
  /\ f.modules.count \in Nat
  /\ f.modules.count = n \/ \A i \in 1..6 : f.entries[i].type = "modules" => f.entries[i].size = 1 + n

\* As the writer left it.
FileWhole(f, n) ==
  /\ FileTyped(f, n) /\ f.streams = 6 /\ f.modules.count = n
  /\ \A i \in 1..6 : f.entries[i].type = "modules" => f.entries[i].size = 1 + n
  /\ DOMAIN f.modules = {"count", "list"}
  /\ {"entries", "streams", "modules", "size"} \cup Rest \subseteq DOMAIN f

LEMMA LayoutIsWhole ==
  ASSUME NEW s \in Shapes
  PROVE  Len(s.names) \in Nat /\ FileWhole(Inspector!Layout(s), Len(s.names))
<1> DEFINE f == Inspector!Layout(s)
           n == Len(s.names)
<1>1. /\ {s.ranges, s.ranges64, s.names, s.records} \subseteq Seq(Nat)
      /\ Len(s.records) = n
  BY InspectorAssumption, Zenon DEF Inspector!InspectorBounds
<1>2. /\ n \in Nat /\ DOMAIN s.names = 1..n /\ \A i \in 1..n : s.names[i] \in Nat
      /\ Len(s.ranges) \in Nat /\ Len(s.ranges64) \in Nat
      /\ \A i \in 1..n : s.records[i] \in Nat
  <2>1. s.ranges \in Seq(Nat) /\ s.ranges64 \in Seq(Nat) /\ s.names \in Seq(Nat) /\ s.records \in Seq(Nat)
    BY <1>1, Zenon
  <2>2. n \in Nat /\ Len(s.ranges) \in Nat /\ Len(s.ranges64) \in Nat
    BY <2>1
  <2>3. DOMAIN s.names = 1..n /\ \A i \in 1..n : s.names[i] \in Nat
    BY <2>1
  <2>4. \A i \in 1..n : s.records[i] \in Nat
    BY <1>1, <2>1
  <2> QED  BY <2>2, <2>3, <2>4
<1>3. \E r1, r2, r3, r4, r5, r6 :
        f.entries = << [type |-> "memoryInfo", size |-> 2, rva |-> r1],
                       [type |-> "memoryList", size |-> 1 + Len(s.ranges), rva |-> r2],
                       [type |-> "memory64", size |-> 1 + Len(s.ranges64), rva |-> r3],
                       [type |-> "systemInfo", size |-> 1, rva |-> r4],
                       [type |-> "exception", size |-> 1, rva |-> r5],
                       [type |-> "modules", size |-> 1 + n, rva |-> r6] >>
  BY DEF Inspector!Layout
<1>4. f.streams = 6 /\ f.modules.count = n /\ DOMAIN f.modules = {"count", "list"}
      /\ {"entries", "streams", "modules", "size"} \cup Rest \subseteq DOMAIN f
  BY DEF Inspector!Layout, Rest
<1>5. /\ DOMAIN f.modules.list = 1..n
      /\ \A i \in 1..n :
           /\ DOMAIN f.modules.list[i] = {"name", "length", "odd", "record", "bytes", "rsds"}
           /\ f.modules.list[i].length = IF s.alias THEN s.names[1] ELSE s.names[i]
           /\ f.modules.list[i].bytes = s.records[i]
  BY DEF Inspector!Layout
<1> HIDE DEF f, n
<1>6. f.entries = [i \in 1..6 |-> f.entries[i]] /\ \A i \in 1..6 : EntryTyped(f.entries[i])
  <2>1. DOMAIN f.entries = 1..6 /\ \A i \in 1..6 : DOMAIN f.entries[i] = {"type", "size", "rva"}
    BY <1>3
  <2>2. \A i \in 1..6 : f.entries[i].size \in Nat
    <3>1. /\ f.entries[1].size = 2 /\ f.entries[2].size = 1 + Len(s.ranges)
          /\ f.entries[3].size = 1 + Len(s.ranges64) /\ f.entries[4].size = 1
          /\ f.entries[5].size = 1 /\ f.entries[6].size = 1 + n
      BY <1>3
    <3>2. \A i \in 1..6 : i = 1 \/ i = 2 \/ i = 3 \/ i = 4 \/ i = 5 \/ i = 6
      OBVIOUS
    <3>3. \A i \in 1..6 :
            f.entries[i].size \in {1, 2, 1 + Len(s.ranges), 1 + Len(s.ranges64), 1 + n}
      BY <3>1, <3>2, Zenon
    <3>4. {1, 2, 1 + Len(s.ranges), 1 + Len(s.ranges64), 1 + n} \subseteq Nat
      BY <1>2
    <3> QED  BY <3>3, <3>4, Zenon
  <2>3. f.entries = [i \in 1..6 |-> f.entries[i]]
    BY <1>3
  <2> QED  BY <2>1, <2>2, <2>3 DEF EntryTyped
<1>7. \A i \in 1..6 : f.entries[i].type = "modules" => f.entries[i].size = 1 + n
  BY <1>3
<1>8. DOMAIN f.modules.list = 1..n /\ \A i \in 1..n : ModuleTyped(f.modules.list[i])
  <2>1. \A i \in 1..n : 1 \in 1..n
    BY <1>2
  <2> QED  BY <1>2, <1>5, <2>1 DEF ModuleTyped
<1>9. QED
  BY <1>2, <1>4, <1>6, <1>7, <1>8 DEF FileWhole, FileTyped, f, n
\* Only what is read of the directory and of the modules matters here.
SameWalk(f, g) == g.entries = f.entries /\ g.streams = f.streams /\ g.modules = f.modules

LEMMA DamageElsewhere ==
  ASSUME NEW f, NEW n, FileWhole(f, n),
         NEW g \in Inspector!DamagedHeader(f) \cup Inspector!DamagedStream(f) \cup Inspector!DamagedRange(f)
  PROVE  SameWalk(f, g)
<1>1. {"entries", "streams", "modules"} \subseteq DOMAIN f
  BY DEF FileWhole
<1>2. CASE g \in Inspector!DamagedHeader(f)
  BY <1>1, <1>2 DEF Inspector!DamagedHeader, SameWalk
<1>3. CASE g \in Inspector!DamagedStream(f)
  BY <1>1, <1>3 DEF Inspector!DamagedStream, SameWalk
<1>4. CASE g \in Inspector!DamagedRange(f)
  <2> DEFINE One == {[f EXCEPT !.list.ranges[i].va = x] : i \in DOMAIN f.list.ranges, x \in Sizes}
             Two == {[f EXCEPT !.list.ranges[i].size = x] : i \in DOMAIN f.list.ranges, x \in Sizes}
             Three == {[f EXCEPT !.list.ranges[i].rva = x] : i \in DOMAIN f.list.ranges, x \in Sizes}
             Four == {[f EXCEPT !.list64.ranges[i].va = x] : i \in DOMAIN f.list64.ranges, x \in Sizes}
             Five == {[f EXCEPT !.list64.ranges[i].size = x] : i \in DOMAIN f.list64.ranges, x \in Sizes}
  <2>1. Inspector!DamagedRange(f) = One \cup Two \cup Three \cup Four \cup Five
    BY DEF Inspector!DamagedRange
  <2>2. CASE g \in One  BY <1>1, <2>2 DEF SameWalk
  <2>3. CASE g \in Two  BY <1>1, <2>3 DEF SameWalk
  <2>4. CASE g \in Three  BY <1>1, <2>4 DEF SameWalk
  <2>5. CASE g \in Four  BY <1>1, <2>5 DEF SameWalk
  <2>6. CASE g \in Five  BY <1>1, <2>6 DEF SameWalk
  <2> HIDE DEF One, Two, Three, Four, Five
  <2> QED  BY <1>4, <2>1, <2>2, <2>3, <2>4, <2>5, <2>6
<1>5. QED
  BY <1>2, <1>3, <1>4

LEMMA DamageToDirectory ==
  ASSUME NEW f, NEW n, FileWhole(f, n), NEW g \in Inspector!DamagedDirectory(f), Sizes \subseteq Nat
  PROVE  /\ g.streams = f.streams /\ g.modules = f.modules
         /\ g.entries = [i \in 1..6 |-> g.entries[i]] /\ \A i \in 1..6 : EntryTyped(g.entries[i])
<1>1. /\ {"entries", "streams", "modules"} \subseteq DOMAIN f
      /\ DOMAIN f.entries = 1..6 /\ \A i \in 1..6 : EntryTyped(f.entries[i])
  BY DEF FileWhole, FileTyped
<1>2. PICK i \in 1..6, field \in {"type", "size", "rva"} : \E x :
        g = [f EXCEPT !.entries[i][field] = x] /\ (field = "size" => x \in Nat)
  <2>1. \A x \in {0} \cup Sizes : x \in Nat
    OBVIOUS
  <2> DEFINE Kinds == {[f EXCEPT !.entries[i].type = t] :
                         i \in DOMAIN f.entries, t \in {"memoryList", "modules", "ignored"}}
             Lengths == {[f EXCEPT !.entries[i].size = x] : i \in DOMAIN f.entries, x \in {0} \cup Sizes}
             Moves == UNION {{[f EXCEPT !.entries[i].rva = x] : x \in Inspector!Outside(f, f.entries[i].size)} :
                               i \in DOMAIN f.entries}
  <2>2. Inspector!DamagedDirectory(f) = Kinds \cup Lengths \cup Moves
    BY DEF Inspector!DamagedDirectory
  <2>3. CASE g \in Kinds  BY <1>1, <2>3
  <2>4. CASE g \in Lengths  BY <1>1, <2>1, <2>4
  <2>5. CASE g \in Moves  BY <1>1, <2>5
  <2> HIDE DEF Kinds, Lengths, Moves
  <2> QED  BY <2>2, <2>3, <2>4, <2>5
<1>3. QED
  BY <1>1, <1>2 DEF EntryTyped

ModulesElse(f, g, n) ==
  /\ g.entries = f.entries /\ g.streams = f.streams /\ g.modules.count \in Nat
  /\ DOMAIN g.modules.list = 1..n /\ \A i \in 1..n : ModuleTyped(g.modules.list[i])

Relisted(f, g, list) == g = [f EXCEPT !.modules.list = list]
Refielded(f, g, i, field, x) == g = [f EXCEPT !.modules.list[i][field] = x]

LEMMA OtherList ==
  ASSUME NEW f, NEW n, FileWhole(f, n), NEW list, DOMAIN list = 1..n, \A i \in 1..n : ModuleTyped(list[i]),
         NEW g, Relisted(f, g, list)
  PROVE  ModulesElse(f, g, n)
<1>1. /\ {"entries", "streams", "modules"} \subseteq DOMAIN f /\ DOMAIN f.modules = {"count", "list"}
      /\ f.modules.count \in Nat
  BY DEF FileWhole, FileTyped
<1>2. g.entries = f.entries /\ g.streams = f.streams
      /\ g.modules.list = list /\ g.modules.count = f.modules.count
  BY <1>1 DEF Relisted
<1>3. QED
  BY <1>1, <1>2 DEF ModulesElse

LEMMA OtherModule ==
  ASSUME NEW f, NEW n, FileWhole(f, n), NEW i \in 1..n, NEW x,
         NEW field \in {"name", "odd", "record", "bytes", "rsds"}, field = "bytes" => x \in Nat,
         NEW g, Refielded(f, g, i, field, x)
  PROVE  ModulesElse(f, g, n)
<1>1. DOMAIN f.modules.list = 1..n /\ \A j \in 1..n : ModuleTyped(f.modules.list[j])
  BY DEF FileWhole, FileTyped
<1>2. PICK m : m = [f.modules.list[i] EXCEPT ![field] = x]
  OBVIOUS
<1>3. ModuleTyped(m)
  BY <1>1, <1>2 DEF ModuleTyped
<1>4. PICK list : list = [f.modules.list EXCEPT ![i] = m]
  OBVIOUS
<1>5. DOMAIN list = 1..n /\ \A j \in 1..n : ModuleTyped(list[j])
  BY <1>1, <1>3, <1>4
<1>6. Relisted(f, g, list)
  BY <1>2, <1>4 DEF Relisted, Refielded
<1>7. QED
  BY <1>5, <1>6, OtherList, Zenon

LEMMA DamageToModules ==
  ASSUME NEW f, NEW n, FileWhole(f, n), NEW g \in Inspector!DamagedModules(f), Sizes \subseteq Nat
  PROVE  ModulesElse(f, g, n)
<1> DEFINE list == f.modules.list
           Away == {0} \cup Inspector!Outside(f, 1)
           Counts == {[f EXCEPT !.modules.count = x] : x \in Sizes}
           Names == UNION {{[f EXCEPT !.modules.list[i].name = x] : x \in Away} : i \in DOMAIN list}
           Lengths == {Inspector!Renamed(f, i, x) : i \in DOMAIN list, x \in Sizes}
           Odds == {[f EXCEPT !.modules.list[i].odd = TRUE] : i \in DOMAIN list}
           Records == UNION {{[f EXCEPT !.modules.list[i].record = x] : x \in Away} : i \in DOMAIN list}
           Bytes == {[f EXCEPT !.modules.list[i].bytes = x] : i \in DOMAIN list, x \in {0} \cup Sizes}
           Marks == {[f EXCEPT !.modules.list[i].rsds = FALSE] : i \in DOMAIN list}
<1>1. /\ {"entries", "streams", "modules"} \subseteq DOMAIN f /\ DOMAIN f.modules = {"count", "list"}
      /\ DOMAIN list = 1..n /\ \A i \in 1..n : ModuleTyped(list[i])
      /\ \A x \in {0} \cup Sizes : x \in Nat
  BY DEF FileWhole, FileTyped
<1>2. CASE g \in Counts
  BY <1>1, <1>2 DEF ModulesElse
<1>3. CASE g \in Lengths
  <2>1. PICK i \in 1..n, x \in Nat : g = Inspector!Renamed(f, i, x)
    BY <1>1, <1>3
  <2>2. PICK other : other = [j \in DOMAIN list |->
                                IF list[j].name = list[i].name THEN [list[j] EXCEPT !.length = x] ELSE list[j]]
    OBVIOUS
  <2>3. DOMAIN other = 1..n /\ \A j \in 1..n : ModuleTyped(other[j])
    BY <1>1, <2>2 DEF ModuleTyped
  <2>4. Relisted(f, g, other)
    BY <2>1, <2>2 DEF Inspector!Renamed, Relisted
  <2> QED  BY <2>3, <2>4, OtherList, Zenon
<1>4. ASSUME NEW i \in DOMAIN list, NEW field \in {"name", "odd", "record", "bytes", "rsds"}, NEW x,
             field = "bytes" => x \in Nat, Refielded(f, g, i, field, x)
      PROVE  ModulesElse(f, g, n)
  BY <1>1, <1>4, OtherModule, Zenon
<1>5. CASE g \in Names
  <2>1. PICK i \in DOMAIN list : \E x : Refielded(f, g, i, "name", x)
    BY <1>5 DEF Refielded
  <2> QED  BY <1>4, <2>1
<1>6. CASE g \in Odds
  <2>1. PICK i \in DOMAIN list : Refielded(f, g, i, "odd", TRUE)
    BY <1>6 DEF Refielded
  <2> QED  BY <1>4, <2>1
<1>7. CASE g \in Records
  <2>1. PICK i \in DOMAIN list : \E x : Refielded(f, g, i, "record", x)
    BY <1>7 DEF Refielded
  <2> QED  BY <1>4, <2>1
<1>8. CASE g \in Bytes
  <2>1. PICK i \in DOMAIN list, x \in {0} \cup Sizes : Refielded(f, g, i, "bytes", x)
    BY <1>8 DEF Refielded
  <2> QED  BY <1>1, <1>4, <2>1
<1>9. CASE g \in Marks
  <2>1. PICK i \in DOMAIN list : Refielded(f, g, i, "rsds", FALSE)
    BY <1>9 DEF Refielded
  <2> QED  BY <1>4, <2>1
<1>10. CASE g \in Inspector!DamagedName(f)
  <2>1. Inspector!DamagedName(f) = Names \cup Lengths \cup Odds
    BY DEF Inspector!DamagedName
  <2> HIDE DEF Names, Lengths, Odds
  <2> QED  BY <1>3, <1>5, <1>6, <1>10, <2>1
<1>11. CASE g \in Inspector!DamagedRecord(f)
  <2>1. Inspector!DamagedRecord(f) = Records \cup Bytes \cup Marks
    BY DEF Inspector!DamagedRecord
  <2> HIDE DEF Records, Bytes, Marks
  <2> QED  BY <1>7, <1>8, <1>9, <1>11, <2>1
<1>12. QED
  BY <1>2, <1>10, <1>11 DEF Inspector!DamagedModules

LEMMA SameWalkTyped ==
  ASSUME NEW f, NEW n, FileWhole(f, n), NEW g, SameWalk(f, g)
  PROVE  FileTyped(g, n)
BY DEF FileWhole, FileTyped, SameWalk

LEMMA DamagedTyped ==
  ASSUME NEW f, NEW n, n \in Nat, FileWhole(f, n), NEW g \in Inspector!Damaged(f)
  PROVE  FileTyped(g, n)
<1>1. Sizes \subseteq Nat /\ MaxCount \in Nat
  BY InspectorAssumption, Zenon DEF Inspector!InspectorBounds
<1>2. CASE g \in Inspector!DamagedHeader(f) \cup Inspector!DamagedStream(f) \cup Inspector!DamagedRange(f)
  BY <1>2, DamageElsewhere, SameWalkTyped, Zenon
<1>3. CASE g \in Inspector!DamagedStreams(f)
  <2>1. PICK x \in {0, 5, MaxCount + 1} : g = [f EXCEPT !.streams = x]
    BY <1>3 DEF Inspector!DamagedStreams
  <2>2. g.entries = f.entries /\ g.modules = f.modules /\ g.streams = x
    BY <2>1 DEF FileWhole
  <2>3. x \in Nat /\ (x <= 6 \/ x > MaxCount)
    BY <1>1
  <2> QED  BY <2>2, <2>3 DEF FileWhole, FileTyped
<1>4. CASE g \in Inspector!DamagedDirectory(f)
  <2>1. /\ g.streams = f.streams /\ g.modules = f.modules
        /\ g.entries = [i \in 1..6 |-> g.entries[i]] /\ \A i \in 1..6 : EntryTyped(g.entries[i])
    BY <1>1, <1>4, DamageToDirectory, Zenon
  <2> QED  BY <2>1 DEF FileWhole, FileTyped
<1>5. CASE g \in Inspector!DamagedModules(f)
  <2>1. ModulesElse(f, g, n)
    BY <1>1, <1>5, DamageToModules, Zenon
  <2> QED  BY <2>1 DEF FileWhole, FileTyped, ModulesElse
<1>6. QED
  BY <1>2, <1>3, <1>4, <1>5 DEF Inspector!Damaged

LEMMA GivenTyped ==
  ASSUME Inspector!InspectInit
  PROVE  \E n \in Nat : FileTyped(dump, n)
<1>1. PICK s \in Shapes :
        \/ dump = Inspector!Layout(s)
        \/ dump \in Inspector!Cut(Inspector!Layout(s))
        \/ dump \in Inspector!Damaged(Inspector!Layout(s))
  BY Zenon DEF Inspector!InspectInit
<1> DEFINE f == Inspector!Layout(s)
<1>2. PICK n \in Nat : FileWhole(f, n)
  BY LayoutIsWhole, Zenon
<1> HIDE DEF f
<1>3. CASE dump = f
  BY <1>2, <1>3 DEF FileWhole
<1>4. CASE dump \in Inspector!Cut(f)
  <2>1. SameWalk(f, dump)
    BY <1>2, <1>4 DEF Inspector!Cut, SameWalk, FileWhole
  <2> QED  BY <1>2, <2>1, SameWalkTyped, Zenon
<1>5. CASE dump \in Inspector!Damaged(f)
  BY <1>2, <1>5, DamagedTyped, Zenon
<1>6. QED
  BY <1>1, <1>3, <1>4, <1>5, Zenon DEF f

-----------------------------------------------------------------------------
(* The inspector: its walk.                                                *)

Walking == {"directory", "memoryInfo", "memoryList", "memory64", "systemInfo", "exception",
            "modules", "module"}

\* The entries before i are of other types than the critical type of i.
FirstOfType(i) ==
  dump.entries[i].type \in Inspector!Critical =>
    \A j \in 1..(i - 1) : dump.entries[j].type # dump.entries[i].type

\* The walk stays in the file it was given: past the header no more streams are
\* declared than entries are there, and at the modules no more modules than the
\* file has.  The entries walked so far are each the first of their type.
WalkFits ==
  \E n \in Nat :
    /\ FileTyped(dump, n)
    /\ phase = "module" /\ Inspector!Has(dump, "modules") => dump.modules.count <= n

WalkInv ==
  /\ WalkFits
  /\ at \in Nat \ {0} /\ budget \in Int /\ readFaults \in Nat
  /\ phase \in Walking => dump.streams <= 6
  /\ phase = "directory" => \A i \in 1..(at - 1) : i <= dump.streams => FirstOfType(i)
  /\ phase \in Walking \ {"directory"} \/ outcome = "ok" =>
       dump.streams <= 6 /\ \A i \in 1..dump.streams : FirstOfType(i)
  /\ phase \in Walking \cup {"open", "header"} => outcome = "none"
  /\ phase \in {"open", "header"} => at = 1

\* The directory holds the entries the header declares.
LEMMA EntriesDeclared ==
  ASSUME NEW f, NEW n, FileTyped(f, n), f.streams <= 6
  PROVE  /\ f.streams \in 0..6 /\ DOMAIN Inspector!Entries(f) = 1..f.streams
         /\ \A i \in 1..f.streams : Inspector!Entries(f)[i] = f.entries[i]
<1>1. f.entries = [i \in 1..6 |-> f.entries[i]] /\ f.streams \in 0..6
  BY DEF FileTyped
<1>2. PICK S : \A i \in 1..6 : f.entries[i] \in S
  <2>1. \A i \in 1..6 : f.entries[i] \in {f.entries[j] : j \in 1..6}
    OBVIOUS
  <2> QED  BY <2>1
<1>3. f.entries \in Seq(S) /\ Len(f.entries) = 6
  BY <1>1, <1>2
<1>4. QED
  BY <1>1, <1>3 DEF Inspector!Entries

\* A stream that is there is found at an entry of its type.
LEMMA EntryFound ==
  ASSUME NEW f, NEW n, FileTyped(f, n), f.streams <= 6, NEW type, Inspector!Has(f, type)
  PROVE  \E i \in 1..6 : /\ Inspector!FindEntry(f, type) = f.entries[i] /\ f.entries[i].type = type
                         /\ f.entries[i].size \in Nat
<1> DEFINE S == {i \in DOMAIN Inspector!Entries(f) : Inspector!Entries(f)[i].type = type}
<1>1. /\ DOMAIN Inspector!Entries(f) = 1..f.streams /\ f.streams \in 0..6
      /\ \A i \in 1..f.streams : Inspector!Entries(f)[i] = f.entries[i]
  BY EntriesDeclared, Zenon
<1>2. Inspector!Min(S) \in S
  <2>1. S \in SUBSET Nat /\ S # {}
    BY <1>1 DEF Inspector!Has
  <2> HIDE DEF S
  <2> QED  BY <2>1, SomeLeast
<1>3. \E i \in 1..6 : Inspector!FindEntry(f, type) = f.entries[i] /\ f.entries[i].type = type
  BY <1>1, <1>2 DEF Inspector!FindEntry
<1>4. QED
  BY <1>3 DEF FileTyped, EntryTyped

CountKept(f, type, count, n) ==
  count = n \/ \A i \in 1..6 : f.entries[i].type = type => f.entries[i].size = 1 + n

\* The count of a list is above what the file holds only where ListCheck refuses it.
LEMMA CountFits ==
  ASSUME NEW f, NEW n, FileTyped(f, n), f.streams <= 6, NEW type, Inspector!Has(f, type),
         NEW count \in Nat, NEW k \in Nat, CountKept(f, type, count, k),
         Inspector!ListCheck(Inspector!FindEntry(f, type), count) = "ok"
  PROVE  count <= k
<1> DEFINE e == Inspector!FindEntry(f, type)
<1>1. PICK i \in 1..6 : e = f.entries[i] /\ f.entries[i].type = type /\ f.entries[i].size \in Nat
  BY EntryFound, Zenon
<1> HIDE DEF e
<1>2. Inspector!RequireStreamBytes(e, 1 + count) = "ok"
  BY FirstOfThree DEF Inspector!ListCheck, e
<1>3. 1 + count <= e.size
  BY <1>2 DEF Inspector!RequireStreamBytes, Inspector!Require
<1>4. count = k \/ e.size = 1 + k
  BY <1>1 DEF CountKept
<1>5. QED
  BY <1>1, <1>3, <1>4

LEMMA HeaderFits ==
  ASSUME NEW n, FileTyped(dump, n), Inspector!HeaderCheck(dump) = "ok"
  PROVE  dump.streams <= 6
<1>1. PICK a, b, c, d, e : Inspector!HeaderCheck(dump) = Inspector!First(<<a, b, c,
        Inspector!Require(dump.streams <= MaxCount, "impossible-count"), d, e>>)
  BY DEF Inspector!HeaderCheck
<1>2. PICK code : code = Inspector!Require(dump.streams <= MaxCount, "impossible-count")
  OBVIOUS
<1>3. DOMAIN <<a, b, c, code, d, e>> = 1..6
  OBVIOUS
<1>4. <<a, b, c, code, d, e>>[4] = "ok"
  BY <1>1, <1>2, <1>3, FirstSaysAll
<1>5. code = "ok"
  BY <1>4
<1>6. QED
  BY <1>2, <1>5, InspectorAssumption DEF Inspector!Require, FileTyped, Inspector!InspectorBounds

LEMMA EntryIsFirst ==
  ASSUME NEW i, Inspector!EntryCheck(dump, i) = "ok"
  PROVE  FirstOfType(i)
<1>1. PICK a : Inspector!EntryCheck(dump, i) = Inspector!First(<<a,
        Inspector!Require(\/ dump.entries[i].type \notin Inspector!Critical
                          \/ \A j \in 1..(i - 1) : dump.entries[j].type # dump.entries[i].type,
                          "duplicate-stream")>>)
  BY DEF Inspector!EntryCheck
<1>2. Inspector!Require(\/ dump.entries[i].type \notin Inspector!Critical
                        \/ \A j \in 1..(i - 1) : dump.entries[j].type # dump.entries[i].type,
                        "duplicate-stream") = "ok"
  BY <1>1, FirstOfTwo, Zenon
<1>3. QED
  BY <1>2 DEF Inspector!Require, FirstOfType

LEMMA ModulesFit ==
  ASSUME NEW n \in Nat, FileTyped(dump, n), dump.streams <= 6,
         Inspector!Has(dump, "modules"), Inspector!ModuleListCheck(dump) = "ok"
  PROVE  dump.modules.count <= n
<1>1. dump.modules.count \in Nat /\ CountKept(dump, "modules", dump.modules.count, n)
  BY DEF FileTyped, CountKept
<1>2. Inspector!ListCheck(Inspector!FindEntry(dump, "modules"), dump.modules.count) = "ok"
  BY FirstOfTwo, Zenon DEF Inspector!ModuleListCheck
<1>3. QED
  BY <1>1, <1>2, CountFits

LEMMA ChargesAreNumbers ==
  ASSUME NEW m, ModuleTyped(m)
  PROVE  Inspector!NameCharge(m) \in Nat /\ Inspector!RecordCharge(m) \in Nat
<1>1. m.length \in Nat /\ m.bytes \in Nat /\ MaxRecord \in Nat
  BY InspectorAssumption DEF ModuleTyped, Inspector!InspectorBounds
<1>2. Inspector!Min({m.bytes, MaxRecord}) \in Nat
  <2>1. {m.bytes, MaxRecord} \in SUBSET Nat /\ {m.bytes, MaxRecord} # {}
    BY <1>1
  <2>2. Inspector!Min({m.bytes, MaxRecord}) \in {m.bytes, MaxRecord}
    BY <2>1, SomeLeast, Zenon
  <2> QED  BY <2>1, <2>2
<1>3. Inspector!RecordBytes(m) \in Nat
  BY <1>2 DEF Inspector!RecordBytes
<1>4. QED
  BY <1>1, <1>3 DEF Inspector!NameCharge, Inspector!RecordCharge, Inspector!NameFactor, Inspector!RecordFactor

LEMMA WalkStarts == Inspector!InspectInit => WalkInv
<1> SUFFICES ASSUME Inspector!InspectInit PROVE WalkInv
  OBVIOUS
<1>1. /\ phase = "open" /\ at = 1 /\ budget = MaxMetadata /\ outcome = "none" /\ readFaults = 0
  BY DEF Inspector!InspectInit
<1>2. MaxMetadata \in Nat
  BY InspectorAssumption DEF Inspector!InspectorBounds
<1>3. WalkFits
  BY <1>1, GivenTyped DEF WalkFits
<1>4. QED
  BY <1>1, <1>2, <1>3 DEF WalkInv, Walking

\* A step that stands where it stood on the same dump, or leaves the walk.
LEMMA WalkFitsKept ==
  ASSUME WalkFits, dump' = dump, phase' = "module" => phase = "module"
  PROVE  WalkFits'
BY DEF WalkFits, Inspector!Has, Inspector!Entries, FileTyped, EntryTyped, ModuleTyped

LEMMA FirstOfTypeKept ==
  ASSUME dump' = dump, NEW i, FirstOfType(i)
  PROVE  FirstOfType(i)'
BY DEF FirstOfType, Inspector!Critical

LEMMA WalkStep ==
  ASSUME WalkInv, Inspector!InspectNext
  PROVE  WalkInv'
<1> USE DEF Inspector!Decide
<1>1. dump' = dump
  BY DEF Inspector!InspectNext, Inspector!Open, Inspector!ReadFails, Inspector!Header,
         Inspector!Directory, Inspector!MemoryInfo, Inspector!MemoryList, Inspector!Memory64List,
         Inspector!SystemInfo, Inspector!Exception, Inspector!Modules, Inspector!Module,
         Inspector!Accept, Inspector!Close, Inspector!Done, Inspector!inspectVars
<1>2. WalkFits /\ at \in Nat \ {0} /\ budget \in Int /\ readFaults \in Nat
  BY DEF WalkInv
<1>3. \A i : FirstOfType(i) => FirstOfType(i)'
  BY <1>1, FirstOfTypeKept, Zenon
<1>4. CASE Inspector!Open
  BY <1>1, <1>2, <1>4, WalkFitsKept DEF Inspector!Open, WalkInv, Walking
<1>5. CASE Inspector!ReadFails \/ Inspector!Close
  <2>1. /\ phase' \in {"close", "done"} /\ UNCHANGED <<at, budget>> /\ readFaults' \in Nat
        /\ outcome' = "ok" => outcome = "ok"
    BY <1>2, <1>5 DEF Inspector!ReadFails, Inspector!Close
  <2> QED  BY <1>1, <1>2, <1>3, <2>1, WalkFitsKept DEF WalkInv, Walking
<1>6. CASE Inspector!Done
  <2>1. UNCHANGED <<phase, at, budget, outcome, readFaults>>
    BY <1>6 DEF Inspector!Done, Inspector!inspectVars
  <2> QED  BY <1>1, <1>2, <1>3, <2>1, WalkFitsKept DEF WalkInv, Walking
<1>7. CASE Inspector!Header
  <2>1. /\ phase = "header" /\ UNCHANGED <<at, budget, readFaults>>
        /\ \/ Inspector!HeaderCheck(dump) = "ok" /\ phase' = "directory" /\ outcome' = outcome
           \/ outcome' # "ok" /\ phase' = "close"
    BY <1>7 DEF Inspector!Header
  <2>2. Inspector!HeaderCheck(dump) = "ok" => dump.streams <= 6
    BY <1>2, HeaderFits DEF WalkFits
  <2> QED  BY <1>1, <1>2, <2>1, <2>2, WalkFitsKept DEF WalkInv, Walking

<1>8. CASE Inspector!Directory
  <2>1. /\ phase = "directory" /\ UNCHANGED <<budget, readFaults>> /\ at' \in Nat \ {0}
        /\ \/ at > dump.streams /\ phase' = "memoryInfo" /\ outcome' = outcome
           \/ /\ Inspector!EntryCheck(dump, at) = "ok" /\ at' = at + 1
              /\ phase' = "directory" /\ outcome' = outcome
           \/ outcome' # "ok" /\ phase' = "close"
    BY <1>2, <1>8 DEF Inspector!Directory
  <2>2. Inspector!EntryCheck(dump, at) = "ok" => FirstOfType(at)
    BY EntryIsFirst
  <2>3. dump.streams \in 0..6 /\ \A i \in 1..(at - 1) : i <= dump.streams => FirstOfType(i)
    <3>1. dump.streams \in Nat
      BY <1>2 DEF WalkFits, FileTyped
    <3>2. dump.streams <= 6
      BY <2>1 DEF WalkInv, Walking
    <3>3. \A i \in 1..(at - 1) : i <= dump.streams => FirstOfType(i)
      BY <2>1 DEF WalkInv
    <3> QED  BY <3>1, <3>2, <3>3
  <2>4. CASE at > dump.streams /\ phase' = "memoryInfo" /\ outcome' = outcome
    <3>1. \A i \in 1..dump.streams : FirstOfType(i)
      BY <1>2, <2>3, <2>4
    <3> QED  BY <1>1, <1>2, <1>3, <2>1, <2>3, <2>4, <3>1, WalkFitsKept DEF WalkInv, Walking
  <2>5. CASE /\ Inspector!EntryCheck(dump, at) = "ok" /\ at' = at + 1
             /\ phase' = "directory" /\ outcome' = outcome
    <3>1. \A i \in 1..(at' - 1) : i <= dump.streams => FirstOfType(i)
      BY <1>2, <2>2, <2>3, <2>5
    <3> QED  BY <1>1, <1>2, <1>3, <2>1, <2>3, <2>5, <3>1, WalkFitsKept DEF WalkInv, Walking
  <2>6. CASE outcome' # "ok" /\ phase' = "close"
    BY <1>1, <1>2, <2>1, <2>6, WalkFitsKept DEF WalkInv, Walking
  <2> QED  BY <2>1, <2>4, <2>5, <2>6
<1>9. ASSUME phase \in Walking \ {"directory"}, at' \in Nat \ {0}, budget' \in Int, readFaults' \in Nat,
             WalkFits', \/ phase' \in Walking \ {"directory"} /\ outcome' = outcome
                        \/ phase' = "close"
      PROVE  WalkInv'
  <2>1. dump.streams <= 6 /\ \A i \in 1..dump.streams : FirstOfType(i)
    BY <1>9 DEF WalkInv
  <2> QED  BY <1>1, <1>3, <1>9, <2>1 DEF WalkInv, Walking
<1>10. CASE \/ Inspector!MemoryInfo \/ Inspector!MemoryList \/ Inspector!Memory64List
            \/ Inspector!SystemInfo \/ Inspector!Exception
  <2>1. /\ phase \in Walking \ {"directory"} /\ UNCHANGED <<at, budget, readFaults>>
        /\ \/ phase' \in Walking \ {"directory", "module"} /\ outcome' = outcome
           \/ phase' = "close"
    BY <1>10 DEF Inspector!MemoryInfo, Inspector!MemoryList, Inspector!Memory64List,
                 Inspector!SystemInfo, Inspector!Exception, Walking
  <2> QED  BY <1>1, <1>2, <1>9, <2>1, WalkFitsKept
<1>11. CASE Inspector!Modules
  <2>1. /\ phase = "modules" /\ UNCHANGED <<at, readFaults>>
        /\ \/ /\ phase' = "module" /\ outcome' = outcome
              /\ Inspector!Has(dump, "modules") => Inspector!ModuleListCheck(dump) = "ok"
           \/ phase' = "close"
        /\ budget' = IF Inspector!Has(dump, "modules") /\ Inspector!ModuleListCheck(dump) = "ok"
                     THEN budget - dump.modules.count * Inspector!ModuleCharge ELSE budget
    BY <1>11 DEF Inspector!Modules
  <2>2. PICK n \in Nat : FileTyped(dump, n)
    BY <1>2 DEF WalkFits
  <2>3. budget' \in Int
    BY <1>2, <2>1, <2>2 DEF FileTyped, Inspector!ModuleCharge
  <2>4. dump.streams <= 6
    BY <2>1 DEF WalkInv, Walking
  <2>5. phase' = "module" /\ Inspector!Has(dump, "modules") => dump.modules.count <= n
    BY <2>1, <2>2, <2>4, ModulesFit
  <2>6. Inspector!Has(dump, "modules")' = Inspector!Has(dump, "modules") /\ FileTyped(dump, n)'
    BY <1>1, <2>2 DEF Inspector!Has, Inspector!Entries, FileTyped, EntryTyped, ModuleTyped
  <2>7. WalkFits'
    BY <1>1, <2>5, <2>6 DEF WalkFits
  <2>8. phase \in Walking \ {"directory"} /\ at' \in Nat \ {0} /\ readFaults' \in Nat
    BY <1>2, <2>1 DEF Walking
  <2> QED  BY <1>9, <2>1, <2>3, <2>7, <2>8 DEF Walking
<1>12. CASE Inspector!Module
  <2> phase = "module" /\ Inspector!Has(dump, "modules") /\ at <= dump.modules.count
    BY <1>12, Zenon DEF Inspector!Module
  <2>1. PICK n \in Nat : FileTyped(dump, n) /\ at \in 1..n
    <3>1. PICK n \in Nat : FileTyped(dump, n) /\ dump.modules.count <= n
      BY <1>2 DEF WalkFits
    <3>2. dump.modules.count \in Nat
      BY <3>1, Zenon DEF FileTyped
    <3> QED  BY <1>2, <3>1, <3>2
  <2>2. ModuleTyped(dump.modules.list[at])
    BY <2>1 DEF FileTyped
  <2>3. /\ phase = "module" /\ at' = at + 1 /\ readFaults' \in {readFaults, readFaults + 1}
        /\ (phase' = "module" /\ outcome' = outcome) \/ phase' = "close"
        /\ budget' \in {budget, budget - Inspector!NameCharge(dump.modules.list[at])
                                       - Inspector!RecordCharge(dump.modules.list[at])}
    BY <1>12 DEF Inspector!Module
  <2>4. budget' \in Int
    BY <1>2, <2>2, <2>3, ChargesAreNumbers
  <2> QED  BY <1>1, <1>2, <1>9, <2>3, <2>4, WalkFitsKept DEF Walking
<1>13. CASE Inspector!Accept
  BY <1>1, <1>2, <1>9, <1>13, WalkFitsKept DEF Inspector!Accept, Walking
<1>14. QED
  BY <1>4, <1>5, <1>6, <1>7, <1>8, <1>10, <1>11, <1>12, <1>13 DEF Inspector!InspectNext

\* A walk that ends at a module whose name is sound ends for want of budget.
LEMMA RecordContained ==
  ASSUME WalkInv, [Inspector!InspectNext]_(Inspector!inspectVars)
  PROVE  Inspector!NotTheRecord
<1> DEFINE m == dump.modules.list[at]
<1> SUFFICES ASSUME phase = "module", Inspector!Has(dump, "modules"), at <= dump.modules.count,
                    outcome' # outcome, readFaults' = readFaults
             PROVE  Inspector!NameCheck(m) # "ok" \/ Inspector!NameCharge(m) + Inspector!RecordCharge(m) > budget
  BY DEF Inspector!NotTheRecord
<1>1. at \in Nat \ {0} /\ budget \in Int /\ readFaults \in Nat /\ WalkFits
  BY DEF WalkInv
<1>2. Inspector!InspectNext
  BY DEF Inspector!inspectVars
<1>3. Inspector!Module
  <2>1. /\ ~Inspector!Open /\ ~Inspector!Header /\ ~Inspector!Directory /\ ~Inspector!MemoryInfo
        /\ ~Inspector!MemoryList /\ ~Inspector!Memory64List /\ ~Inspector!SystemInfo
        /\ ~Inspector!Exception /\ ~Inspector!Modules /\ ~Inspector!Close /\ ~Inspector!Done
    BY DEF Inspector!Open, Inspector!Header, Inspector!Directory, Inspector!MemoryInfo,
           Inspector!MemoryList, Inspector!Memory64List, Inspector!SystemInfo, Inspector!Exception,
           Inspector!Modules, Inspector!Close, Inspector!Done
  <2>2. ~Inspector!ReadFails
    BY <1>1 DEF Inspector!ReadFails
  <2>3. ~Inspector!Accept
    BY <1>1 DEF Inspector!Accept, WalkFits, FileTyped
  <2> QED  BY <1>2, <2>1, <2>2, <2>3, Zenon DEF Inspector!InspectNext
<1>4. Inspector!First(<<Inspector!NameCheck(m), Inspector!RecordCheck(m)>>) # "ok"
  BY <1>3 DEF Inspector!Module, Inspector!Decide
<1>5. Inspector!NameCheck(m) # "ok" \/ Inspector!RecordCheck(m) # "ok"
  BY <1>4, FirstOfTwo, Zenon
<1>6. PICK n \in Nat : FileTyped(dump, n) /\ at \in 1..n
  BY <1>1 DEF WalkFits, FileTyped
<1>7. Inspector!NameCharge(m) \in Nat /\ Inspector!RecordCharge(m) \in Nat
  BY <1>6, ChargesAreNumbers DEF FileTyped
<1>8. QED
  BY <1>1, <1>5, <1>7 DEF Inspector!RecordCheck, Inspector!Require

-----------------------------------------------------------------------------
(* The inspector: a sound dump.                                            *)

LEMMA ListOf ==
  ASSUME NEW k \in Nat, NEW S, NEW seq \in [1..k -> S]
  PROVE  seq \in Seq(S) /\ Len(seq) = k
OBVIOUS

\* The sizes that a list of ranges declares.
SizesOf(list) == [i \in DOMAIN list.ranges |-> list.ranges[i].size]

\* What the writer's arithmetic comes to, whatever the shape.
LaidOutHeader(f) ==
  /\ f.size \in Nat /\ 8 <= f.size /\ f.size <= UInt64Max
  /\ f.signature = "MDMP" /\ f.version = "supported" /\ f.directory = 2 /\ f.streams = 6
  /\ f.info = [header |-> 1, entry |-> 1, count |-> 1] /\ f.parameters = 1 /\ 6 <= MaxCount

LaidOutEntries(f) ==
  /\ \A i \in 1..6 : /\ f.entries[i].rva \in Nat /\ f.entries[i].size \in Nat
                     /\ f.entries[i].rva + f.entries[i].size <= f.size
  /\ f.entries[1].type = "memoryInfo" /\ f.entries[1].size = 2
  /\ f.entries[2].type = "memoryList" /\ f.entries[2].size = 1 + f.list.count
  /\ f.entries[3].type = "memory64" /\ f.entries[3].size = 1 + f.list64.count
  /\ f.entries[4].type = "systemInfo" /\ f.entries[4].size = 1
  /\ f.entries[5].type = "exception" /\ f.entries[5].size = 1
  /\ f.entries[6].type = "modules" /\ f.entries[6].size = 1 + f.modules.count

LaidOutLists(f) ==
  /\ DOMAIN f.list = {"count", "ranges"} /\ DOMAIN f.list64 = {"count", "base", "ranges"}
  /\ f.list.ranges \in Seq([va : {0}, size : Nat, rva : Nat])
  /\ f.list.count = Len(f.list.ranges) /\ f.list.count <= MaxCount
  /\ f.list64.ranges \in Seq([va : {0}, size : Nat])
  /\ f.list64.count = Len(f.list64.ranges) /\ f.list64.count <= MaxCount /\ f.list64.base \in Nat
  /\ \A i \in 1..f.list.count : f.list.ranges[i].rva + f.list.ranges[i].size <= f.size
  /\ f.list64.base + Inspector!Total(SizesOf(f.list64)) <= f.size
  /\ Inspector!Total(SizesOf(f.list)) + Inspector!Total(SizesOf(f.list64)) <= f.size

LaidOutModules(f) ==
  /\ f.modules.count \in Nat /\ f.modules.count <= MaxCount /\ DOMAIN f.modules.list = 1..f.modules.count
  /\ \A i \in 1..f.modules.count :
       LET m == f.modules.list[i]
       IN  /\ m.name \in Nat \ {0} /\ m.length \in Nat /\ m.name + 1 + m.length <= f.size
           /\ ~m.odd

LaidOut(f) == LaidOutHeader(f) /\ LaidOutEntries(f) /\ LaidOutLists(f) /\ LaidOutModules(f)

\* The writer lays every stream, range and name inside the file.
LEMMA LayoutIsSound ==
  ASSUME NEW s \in Shapes
  PROVE  LaidOut(Inspector!Layout(s))
<1> DEFINE f == Inspector!Layout(s)
           n == Len(s.names)
           a == Len(s.ranges)
           b == Len(s.ranges64)
           tn == Inspector!Total(s.names)
           ta == Inspector!Total(s.ranges)
           tb == Inspector!Total(s.ranges64)
           tr == Inspector!Total(s.records)
           info == Inspector!HeaderSize + 6
           list == info + 2
           list64 == list + 1 + a
           sys == list64 + 1 + b
           exc == sys + 1
           mods == exc + 1
           names == mods + 1 + n
           memory == names + tn + n
           memory64 == memory + ta
           records == memory64 + tb
<1>1. /\ s.ranges \in Seq(Nat) /\ s.ranges64 \in Seq(Nat) /\ s.names \in Seq(Nat) /\ s.records \in Seq(Nat)
      /\ Len(s.records) = n
      /\ 6 \in 0..MaxCount /\ a \in 0..MaxCount /\ b \in 0..MaxCount /\ n \in 0..MaxCount /\ f.size <= UInt64Max
  BY InspectorAssumption, Zenon DEF Inspector!InspectorBounds
<1>2. MaxCount \in Nat /\ UInt64Max \in Nat
  BY InspectorAssumption, Zenon DEF Inspector!InspectorBounds
<1>3. /\ n \in Nat /\ a \in Nat /\ b \in Nat /\ tn \in Nat /\ ta \in Nat /\ tb \in Nat /\ tr \in Nat
      /\ a <= MaxCount /\ b <= MaxCount /\ n <= MaxCount /\ 6 <= MaxCount
  <2>1. n \in Nat /\ tn \in Nat
    BY <1>1, SumsWithin, Zenon
  <2>2. a \in Nat /\ ta \in Nat
    BY <1>1, SumsWithin, Zenon
  <2>3. b \in Nat /\ tb \in Nat
    BY <1>1, SumsWithin, Zenon
  <2>4. tr \in Nat
    BY <1>1, SumsWithin, Zenon
  <2>5. a <= MaxCount /\ b <= MaxCount /\ n <= MaxCount /\ 6 <= MaxCount
    BY <1>1, <1>2
  <2> QED  BY <2>1, <2>2, <2>3, <2>4, <2>5, Zenon
<1>4. /\ f.size = records + tr
      /\ f.signature = "MDMP" /\ f.version = "supported" /\ f.directory = Inspector!HeaderSize /\ f.streams = 6
      /\ f.info = [header |-> 1, entry |-> 1, count |-> 1] /\ f.parameters = 1
  BY DEF Inspector!Layout
<1>5. f.entries = << [type |-> "memoryInfo", size |-> 2, rva |-> info],
                     [type |-> "memoryList", size |-> 1 + a, rva |-> list],
                     [type |-> "memory64", size |-> 1 + b, rva |-> list64],
                     [type |-> "systemInfo", size |-> 1, rva |-> sys],
                     [type |-> "exception", size |-> 1, rva |-> exc],
                     [type |-> "modules", size |-> 1 + n, rva |-> mods] >>
  BY DEF Inspector!Layout
<1>6. /\ f.list = [count |-> a, ranges |-> [i \in 1..a |->
                     [va |-> 0, size |-> s.ranges[i], rva |-> memory + Inspector!Before(s.ranges, i)]]]
      /\ f.list64 = [count |-> b, base |-> memory64,
                     ranges |-> [i \in 1..b |-> [va |-> 0, size |-> s.ranges64[i]]]]
  BY DEF Inspector!Layout
<1> DEFINE Described(i) ==
      [name |-> names + (IF s.alias THEN 0 ELSE Inspector!Before(s.names, i) + i - 1),
       length |-> IF s.alias THEN s.names[1] ELSE s.names[i], odd |-> FALSE,
       record |-> records + Inspector!Before(s.records, i), bytes |-> s.records[i], rsds |-> TRUE]
<1>7. f.modules = [count |-> n, list |-> [i \in 1..n |-> Described(i)]]
  BY DEF Inspector!Layout
<1>8. Inspector!HeaderSize = 2
  BY DEF Inspector!HeaderSize
<1> HIDE DEF f, n, a, b, tn, ta, tb, tr
<1>9. LaidOutHeader(f)
  BY <1>1, <1>3, <1>4, <1>8 DEF LaidOutHeader
<1>10. LaidOutEntries(f)
  <2>1. /\ f.entries[1] = [type |-> "memoryInfo", size |-> 2, rva |-> info]
        /\ f.entries[2] = [type |-> "memoryList", size |-> 1 + a, rva |-> list]
        /\ f.entries[3] = [type |-> "memory64", size |-> 1 + b, rva |-> list64]
        /\ f.entries[4] = [type |-> "systemInfo", size |-> 1, rva |-> sys]
        /\ f.entries[5] = [type |-> "exception", size |-> 1, rva |-> exc]
        /\ f.entries[6] = [type |-> "modules", size |-> 1 + n, rva |-> mods]
    BY <1>5
  <2>2. f.list.count = a /\ f.list64.count = b /\ f.modules.count = n
    BY <1>6, <1>7
  <2> DEFINE Fits(i) == /\ f.entries[i].rva \in Nat /\ f.entries[i].size \in Nat
                        /\ f.entries[i].rva + f.entries[i].size <= f.size
  <2>3. Fits(1) /\ Fits(2) /\ Fits(3) /\ Fits(4) /\ Fits(5) /\ Fits(6)
    BY <1>3, <1>4, <1>8, <2>1
  <2>4. \A i \in 1..6 : i = 1 \/ i = 2 \/ i = 3 \/ i = 4 \/ i = 5 \/ i = 6
    OBVIOUS
  <2>5. \A i \in 1..6 : Fits(i)
    <3> HIDE DEF Fits
    <3> QED  BY <2>3, <2>4, Zenon
  <2> QED  BY <2>1, <2>2, <2>5 DEF LaidOutEntries
<1>11. LaidOutLists(f)
  <2> DEFINE ra == f.list.ranges
             rb == f.list64.ranges
  <2>1. /\ \A i \in 1..a : /\ s.ranges[i] \in Nat /\ Inspector!Before(s.ranges, i) \in Nat
                           /\ Inspector!Before(s.ranges, i) + s.ranges[i] <= ta
        /\ DOMAIN s.ranges = 1..a
    BY <1>1, SumsWithin DEF a, ta
  <2>2. /\ \A i \in 1..b : s.ranges64[i] \in Nat
        /\ DOMAIN s.ranges64 = 1..b
    BY <1>1, SumsWithin DEF b, tb
  <2>3. /\ f.list.count = a /\ DOMAIN ra = 1..a
        /\ \A i \in 1..a : ra[i] = [va |-> 0, size |-> s.ranges[i], rva |-> memory + Inspector!Before(s.ranges, i)]
    BY <1>6
  <2>4. /\ f.list64.count = b /\ f.list64.base = memory64 /\ DOMAIN rb = 1..b
        /\ \A i \in 1..b : rb[i] = [va |-> 0, size |-> s.ranges64[i]]
    BY <1>6
  <2>5. memory \in Nat /\ memory64 \in Nat
    BY <1>3, <1>8
  <2>6. SizesOf(f.list) = s.ranges
    <3>1. s.ranges = [i \in 1..a |-> s.ranges[i]]
      BY <1>1, <2>1
    <3>2. ASSUME NEW i \in 1..a PROVE ra[i].size = s.ranges[i]
      <4>1. ra[i] = [va |-> 0, size |-> s.ranges[i], rva |-> memory + Inspector!Before(s.ranges, i)]
        BY <2>3
      <4> HIDE DEF ra, memory
      <4> QED  BY <4>1
    <3>3. SizesOf(f.list) = [i \in 1..a |-> ra[i].size]
      BY <2>3 DEF SizesOf
    <3> HIDE DEF ra
    <3> QED  BY <3>1, <3>2, <3>3
  <2>7. SizesOf(f.list64) = s.ranges64
    <3>1. s.ranges64 = [i \in 1..b |-> s.ranges64[i]]
      BY <1>1, <2>2
    <3>2. ASSUME NEW i \in 1..b PROVE rb[i].size = s.ranges64[i]
      <4>1. rb[i] = [va |-> 0, size |-> s.ranges64[i]]
        BY <2>4
      <4> HIDE DEF rb
      <4> QED  BY <4>1
    <3>3. SizesOf(f.list64) = [i \in 1..b |-> rb[i].size]
      BY <2>4 DEF SizesOf
    <3> HIDE DEF rb
    <3> QED  BY <3>1, <3>2, <3>3
  <2>20. ra = [i \in 1..a |-> ra[i]]
    BY <1>6
  <2>21. rb = [i \in 1..b |-> rb[i]]
    BY <1>6
  <2> HIDE DEF ra, rb
  <2>8. ra \in Seq([va : {0}, size : Nat, rva : Nat]) /\ Len(ra) = a
    <3>1. \A i \in 1..a : ra[i] \in [va : {0}, size : Nat, rva : Nat]
      BY <2>1, <2>3, <2>5
    <3> DEFINE R == [va : {0}, size : Nat, rva : Nat]
    <3> HIDE DEF R
    <3>2. ra \in [1..a -> R]
      BY <2>20, <3>1 DEF R
    <3>3. ra \in Seq(R) /\ Len(ra) = a
      BY <1>3, <3>2, ListOf
    <3> QED  BY <3>3 DEF R
  <2>9. rb \in Seq([va : {0}, size : Nat]) /\ Len(rb) = b
    <3>1. \A i \in 1..b : rb[i] \in [va : {0}, size : Nat]
      BY <2>2, <2>4
    <3> DEFINE R == [va : {0}, size : Nat]
    <3> HIDE DEF R
    <3>2. rb \in [1..b -> R]
      BY <2>21, <3>1 DEF R
    <3>3. rb \in Seq(R) /\ Len(rb) = b
      BY <1>3, <3>2, ListOf
    <3> QED  BY <3>3 DEF R
  <2>22. DOMAIN f.list = {"count", "ranges"} /\ DOMAIN f.list64 = {"count", "base", "ranges"}
    BY <1>6
  <2>10. \A i \in 1..a : ra[i].rva + ra[i].size <= f.size
    <3> TAKE i \in 1..a
    <3>1. ra[i].rva = memory + Inspector!Before(s.ranges, i) /\ ra[i].size = s.ranges[i]
      BY <2>3
    <3>2. Inspector!Before(s.ranges, i) \in Nat /\ s.ranges[i] \in Nat
          /\ Inspector!Before(s.ranges, i) + s.ranges[i] <= ta
      BY <2>1
    <3>3. f.size = memory + ta + tb + tr
      BY <1>4
    <3> HIDE DEF memory
    <3> QED  BY <1>3, <2>5, <3>1, <3>2, <3>3
  <2>11. memory64 + tb <= f.size /\ ta + tb <= f.size
    BY <1>3, <1>4, <1>8
  <2> QED  BY <1>3, <2>3, <2>4, <2>5, <2>6, <2>7, <2>8, <2>9, <2>10, <2>11, <2>22 DEF LaidOutLists, ta, tb, ra, rb
<1>12. LaidOutModules(f)
  <2>1. /\ DOMAIN s.names = 1..n
        /\ \A i \in 1..n : /\ s.names[i] \in Nat /\ Inspector!Before(s.names, i) \in Nat
                           /\ Inspector!Before(s.names, i) + s.names[i] <= tn
    BY <1>1, SumsWithin DEF n, tn
  <2>2. names \in Nat \ {0} /\ f.size = names + tn + n + ta + tb + tr
    BY <1>3, <1>4, <1>8
  <2>3. /\ f.modules.count = n /\ DOMAIN f.modules.list = 1..n
        /\ \A i \in 1..n : f.modules.list[i] = Described(i)
    BY <1>7
  <2>4. ASSUME NEW i \in 1..n
        PROVE  LET m == f.modules.list[i]
               IN  /\ m.name \in Nat \ {0} /\ m.length \in Nat /\ m.name + 1 + m.length <= f.size
                   /\ ~m.odd
    <3> DEFINE m == f.modules.list[i]
    <3>1. /\ m.odd = FALSE
          /\ s.alias => m.name = names + 0 /\ m.length = s.names[1]
          /\ ~s.alias => m.name = names + (Inspector!Before(s.names, i) + i - 1) /\ m.length = s.names[i]
      <4>1. m = Described(i)
        BY <2>3
      <4> HIDE DEF names, records, m
      <4> QED  BY <4>1
    <3>2. 1 \in 1..n /\ i >= 1 /\ i <= n
      BY <1>3
    <3>3. /\ s.names[i] \in Nat /\ Inspector!Before(s.names, i) \in Nat
          /\ Inspector!Before(s.names, i) + s.names[i] <= tn
          /\ s.names[1] \in Nat /\ Inspector!Before(s.names, 1) \in Nat
          /\ Inspector!Before(s.names, 1) + s.names[1] <= tn
      BY <2>1, <3>2
    <3> HIDE DEF m, names
    <3>4. CASE s.alias
      BY <1>3, <2>2, <3>1, <3>2, <3>3, <3>4 DEF m
    <3>5. CASE ~s.alias
      BY <1>3, <2>2, <3>1, <3>2, <3>3, <3>5 DEF m
    <3> QED  BY <3>4, <3>5
  <2> QED  BY <1>3, <2>3, <2>4 DEF LaidOutModules
<1>13. QED
  BY <1>9, <1>10, <1>11, <1>12 DEF LaidOut, f

-----------------------------------------------------------------------------
(* The inspector: the lists of a damaged dump.                             *)

\* The descriptors of the two lists (MINIDUMP_MEMORY_DESCRIPTOR, and of the 64-bit list).
Range32 == [va : Nat, size : Nat, rva : Nat]

Range64 == [va : Nat, size : Nat]

\* The two lists in the file; its one damaged field is not both the count of a
\* list and the size of its stream.
StreamsTyped(f) ==
  /\ f.size \in Nat
  /\ f.list.ranges \in Seq(Range32) /\ f.list.count \in Nat
  /\ f.list64.ranges \in Seq(Range64) /\ f.list64.count \in Nat /\ f.list64.base \in Nat
  /\ CountKept(f, "memoryList", f.list.count, Len(f.list.ranges))
  /\ CountKept(f, "memory64", f.list64.count, Len(f.list64.ranges))

SameStreams(f, g) ==
  g.size = f.size /\ g.list = f.list /\ g.list64 = f.list64 /\ g.entries = f.entries

LaidOutFields(f) == {"entries", "streams", "modules", "size"} \cup Rest \subseteq DOMAIN f

LEMMA SoundStreams ==
  ASSUME NEW f, LaidOut(f)
  PROVE  /\ StreamsTyped(f)
         /\ \A i \in 1..6 : f.entries[i].type = "memoryList" => f.entries[i].size = 1 + Len(f.list.ranges)
         /\ \A i \in 1..6 : f.entries[i].type = "memory64" => f.entries[i].size = 1 + Len(f.list64.ranges)
<1>1. [va : {0}, size : Nat, rva : Nat] \subseteq Range32 /\ [va : {0}, size : Nat] \subseteq Range64
  BY DEF Range32, Range64
<1>2. /\ f.list.ranges \in Seq([va : {0}, size : Nat, rva : Nat])
      /\ f.list64.ranges \in Seq([va : {0}, size : Nat])
      /\ f.list.count = Len(f.list.ranges) /\ f.list64.count = Len(f.list64.ranges) /\ f.list64.base \in Nat
      /\ f.size \in Nat
  BY DEF LaidOut, LaidOutLists, LaidOutHeader
<1>3. f.list.ranges \in Seq(Range32) /\ Len(f.list.ranges) \in Nat
  <2> DEFINE R == [va : {0}, size : Nat, rva : Nat]
  <2> HIDE DEF R
  <2>1. R \subseteq Range32 /\ f.list.ranges \in Seq(R)
    BY <1>1, <1>2 DEF R
  <2> QED  BY <2>1
<1>4. f.list64.ranges \in Seq(Range64) /\ Len(f.list64.ranges) \in Nat
  <2> DEFINE R == [va : {0}, size : Nat]
  <2> HIDE DEF R
  <2>1. R \subseteq Range64 /\ f.list64.ranges \in Seq(R)
    BY <1>1, <1>2 DEF R
  <2> QED  BY <2>1
<1>5. \A i \in 1..6 : i = 1 \/ i = 2 \/ i = 3 \/ i = 4 \/ i = 5 \/ i = 6
  OBVIOUS
<1>6. \A i \in 1..6 : f.entries[i].type = "memoryList" => i = 2
  BY <1>5 DEF LaidOut, LaidOutEntries
<1>7. \A i \in 1..6 : f.entries[i].type = "memory64" => i = 3
  BY <1>5 DEF LaidOut, LaidOutEntries
<1>8. f.entries[2].size = 1 + f.list.count /\ f.entries[3].size = 1 + f.list64.count
  BY DEF LaidOut, LaidOutEntries
<1>9. QED
  BY <1>2, <1>3, <1>4, <1>6, <1>7, <1>8, Zenon DEF StreamsTyped, CountKept

LEMMA SameStreamsTyped ==
  ASSUME NEW f, StreamsTyped(f), NEW g, SameStreams(f, g)
  PROVE  StreamsTyped(g)
BY DEF StreamsTyped, CountKept, SameStreams

\* Damage to the header, the streams declared or the modules leaves the lists alone.
LEMMA DamageOffStreams ==
  ASSUME NEW f, LaidOutFields(f),
         NEW g \in Inspector!DamagedHeader(f) \cup Inspector!DamagedStreams(f) \cup Inspector!DamagedModules(f)
  PROVE  SameStreams(f, g)
<1>1. {"entries", "size", "list", "list64", "modules"} \subseteq DOMAIN f
  BY DEF LaidOutFields, Rest
<1>2. CASE g \in Inspector!DamagedHeader(f)
  BY <1>1, <1>2 DEF Inspector!DamagedHeader, SameStreams
<1>3. CASE g \in Inspector!DamagedStreams(f)
  BY <1>1, <1>3 DEF Inspector!DamagedStreams, SameStreams
<1>4. CASE g \in Inspector!DamagedModules(f)
  <2> DEFINE list == f.modules.list
             Away == {0} \cup Inspector!Outside(f, 1)
             Counts == {[f EXCEPT !.modules.count = x] : x \in Sizes}
             Names == UNION {{[f EXCEPT !.modules.list[i].name = x] : x \in Away} : i \in DOMAIN list}
             Lengths == {Inspector!Renamed(f, i, x) : i \in DOMAIN list, x \in Sizes}
             Odds == {[f EXCEPT !.modules.list[i].odd = TRUE] : i \in DOMAIN list}
             Records == UNION {{[f EXCEPT !.modules.list[i].record = x] : x \in Away} : i \in DOMAIN list}
             Bytes == {[f EXCEPT !.modules.list[i].bytes = x] : i \in DOMAIN list, x \in {0} \cup Sizes}
             Marks == {[f EXCEPT !.modules.list[i].rsds = FALSE] : i \in DOMAIN list}
  <2>1. Inspector!DamagedModules(f) = Counts \cup (Names \cup Lengths \cup Odds) \cup (Records \cup Bytes \cup Marks)
    BY DEF Inspector!DamagedModules, Inspector!DamagedName, Inspector!DamagedRecord
  <2>2. CASE g \in Counts  BY <1>1, <2>2 DEF SameStreams
  <2>3. CASE g \in Names  BY <1>1, <2>3 DEF SameStreams
  <2>4. CASE g \in Lengths  BY <1>1, <2>4 DEF SameStreams, Inspector!Renamed
  <2>5. CASE g \in Odds  BY <1>1, <2>5 DEF SameStreams
  <2>6. CASE g \in Records  BY <1>1, <2>6 DEF SameStreams
  <2>7. CASE g \in Bytes  BY <1>1, <2>7 DEF SameStreams
  <2>8. CASE g \in Marks  BY <1>1, <2>8 DEF SameStreams
  <2> HIDE DEF Counts, Names, Lengths, Odds, Records, Bytes, Marks
  <2> QED  BY <1>4, <2>1, <2>2, <2>3, <2>4, <2>5, <2>6, <2>7, <2>8
<1>5. QED
  BY <1>2, <1>3, <1>4

\* Damage to the directory leaves the lists alone.
LEMMA DirectoryOffStreams ==
  ASSUME NEW f, LaidOutFields(f), NEW g \in Inspector!DamagedDirectory(f)
  PROVE  g.size = f.size /\ g.list = f.list /\ g.list64 = f.list64
<1>1. {"entries", "size", "list", "list64", "modules"} \subseteq DOMAIN f
  BY DEF LaidOutFields, Rest
<1>2. PICK entries : g = [f EXCEPT !.entries = entries]
  <2> DEFINE Kinds == {[f EXCEPT !.entries[i].type = t] :
                         i \in DOMAIN f.entries, t \in {"memoryList", "modules", "ignored"}}
             Lengths == {[f EXCEPT !.entries[i].size = x] : i \in DOMAIN f.entries, x \in {0} \cup Sizes}
             Moves == UNION {{[f EXCEPT !.entries[i].rva = x] : x \in Inspector!Outside(f, f.entries[i].size)} :
                               i \in DOMAIN f.entries}
  <2>1. Inspector!DamagedDirectory(f) = Kinds \cup Lengths \cup Moves
    BY DEF Inspector!DamagedDirectory
  <2>2. CASE g \in Kinds  BY <2>2
  <2>3. CASE g \in Lengths  BY <2>3
  <2>4. CASE g \in Moves  BY <2>4
  <2> HIDE DEF Kinds, Lengths, Moves
  <2> QED  BY <2>1, <2>2, <2>3, <2>4
<1>3. QED
  BY <1>1, <1>2

\* What the lists of a damaged file come from.
Lists(f, g, list, list64) == g.size = f.size /\ g.entries = f.entries /\ g.list = list /\ g.list64 = list64

Uncounted(f, list, list64) ==
  /\ list.ranges \in Seq(Range32) /\ list.count \in Nat /\ Len(list.ranges) = Len(f.list.ranges)
  /\ list64.ranges \in Seq(Range64) /\ list64.count \in Nat /\ list64.base \in Nat
  /\ Len(list64.ranges) = Len(f.list64.ranges)

LEMMA UncountedTyped ==
  ASSUME NEW f, LaidOut(f), NEW g, NEW list, NEW list64, Lists(f, g, list, list64), Uncounted(f, list, list64)
  PROVE  StreamsTyped(g)
<1>1. /\ f.size \in Nat
      /\ \A i \in 1..6 : f.entries[i].type = "memoryList" => f.entries[i].size = 1 + Len(f.list.ranges)
      /\ \A i \in 1..6 : f.entries[i].type = "memory64" => f.entries[i].size = 1 + Len(f.list64.ranges)
  BY SoundStreams DEF StreamsTyped
<1>2. QED
  BY <1>1 DEF StreamsTyped, CountKept, Lists, Uncounted

LEMMA OtherRange ==
  ASSUME NEW ranges, NEW S \in {Range32, Range64}, ranges \in Seq(S), NEW i \in DOMAIN ranges,
         NEW field \in {"va", "size", "rva"}, S = Range64 => field # "rva", NEW x \in Nat
  PROVE  /\ [ranges EXCEPT ![i][field] = x] \in Seq(S)
         /\ Len([ranges EXCEPT ![i][field] = x]) = Len(ranges)
<1>1. /\ Len(ranges) \in Nat /\ ranges \in [1..Len(ranges) -> S] /\ DOMAIN ranges = 1..Len(ranges)
  OBVIOUS
<1>2. [ranges[i] EXCEPT ![field] = x] \in S
  <2>1. CASE S = Range32
    BY <1>1, <2>1 DEF Range32
  <2>2. CASE S = Range64
    BY <1>1, <2>2 DEF Range64
  <2> QED  BY <2>1, <2>2
<1>3. [ranges EXCEPT ![i][field] = x] \in [1..Len(ranges) -> S]
  BY <1>1, <1>2
<1>4. QED
  BY <1>1, <1>3, ListOf

LEMMA DamageToStreams ==
  ASSUME NEW f, LaidOut(f), LaidOutFields(f), NEW g \in Inspector!DamagedStream(f),
         Sizes \subseteq Nat, MaxCount \in Nat
  PROVE  StreamsTyped(g)
<1>1. /\ {"entries", "size", "list", "list64", "info", "parameters"} \subseteq DOMAIN f
      /\ DOMAIN f.list = {"count", "ranges"} /\ DOMAIN f.list64 = {"count", "base", "ranges"}
  BY DEF LaidOutFields, Rest, LaidOut, LaidOutLists
<1>2. Uncounted(f, f.list, f.list64)
  BY SoundStreams DEF StreamsTyped, Uncounted
<1> DEFINE Infos == {[f EXCEPT !.info.header = 0], [f EXCEPT !.info.entry = 0], [f EXCEPT !.parameters = MaxCount + 1]}
                    \cup {[f EXCEPT !.info.count = n] : n \in Sizes}
           Counts == {[f EXCEPT !.list.count = n] : n \in Sizes}
           Counts64 == {[f EXCEPT !.list64.count = n] : n \in Sizes}
           Bases == {[f EXCEPT !.list64.base = n] : n \in Sizes}
<1>3. Inspector!DamagedStream(f) = Infos \cup Counts \cup Counts64 \cup Bases
  BY DEF Inspector!DamagedStream
<1>4. CASE g \in Infos
  <2>1. Lists(f, g, f.list, f.list64)
    BY <1>1, <1>4 DEF Lists
  <2> QED  BY <1>2, <2>1, UncountedTyped, Zenon
<1>5. CASE g \in Counts
  <2>1. PICK n \in Nat : g = [f EXCEPT !.list.count = n]
    BY <1>5
  <2>2. /\ Lists(f, g, g.list, f.list64) /\ g.list.count = n /\ g.list.ranges = f.list.ranges
    BY <1>1, <2>1 DEF Lists
  <2>3. Uncounted(f, g.list, f.list64)
    BY <1>2, <2>2 DEF Uncounted
  <2> QED  BY <2>2, <2>3, UncountedTyped, Zenon
<1>6. CASE g \in Counts64
  <2>1. PICK n \in Nat : g = [f EXCEPT !.list64.count = n]
    BY <1>6
  <2>2. /\ Lists(f, g, f.list, g.list64) /\ g.list64.count = n /\ g.list64.ranges = f.list64.ranges
        /\ g.list64.base = f.list64.base
    BY <1>1, <2>1 DEF Lists
  <2>3. Uncounted(f, f.list, g.list64)
    BY <1>2, <2>2 DEF Uncounted
  <2> QED  BY <2>2, <2>3, UncountedTyped, Zenon
<1>7. CASE g \in Bases
  <2>1. PICK n \in Nat : g = [f EXCEPT !.list64.base = n]
    BY <1>7
  <2>2. /\ Lists(f, g, f.list, g.list64) /\ g.list64.count = f.list64.count /\ g.list64.ranges = f.list64.ranges
        /\ g.list64.base = n
    BY <1>1, <2>1 DEF Lists
  <2>3. Uncounted(f, f.list, g.list64)
    BY <1>2, <2>2 DEF Uncounted
  <2> QED  BY <2>2, <2>3, UncountedTyped, Zenon
<1> HIDE DEF Infos, Counts, Counts64, Bases
<1>8. QED
  BY <1>3, <1>4, <1>5, <1>6, <1>7

LEMMA DamageToRanges ==
  ASSUME NEW f, LaidOut(f), LaidOutFields(f), NEW g \in Inspector!DamagedRange(f), Sizes \subseteq Nat
  PROVE  StreamsTyped(g)
<1>1. /\ {"entries", "size", "list", "list64"} \subseteq DOMAIN f
      /\ DOMAIN f.list = {"count", "ranges"} /\ DOMAIN f.list64 = {"count", "base", "ranges"}
      /\ \A x \in Sizes : x \in Nat
  BY DEF LaidOutFields, Rest, LaidOut, LaidOutLists
<1>2. Uncounted(f, f.list, f.list64)
  BY SoundStreams DEF StreamsTyped, Uncounted
<1>3. ASSUME NEW i \in DOMAIN f.list.ranges, NEW field \in {"va", "size", "rva"}, NEW x \in Nat,
             g = [f EXCEPT !.list.ranges[i][field] = x]
      PROVE  StreamsTyped(g)
  <2> DEFINE ranges == [f.list.ranges EXCEPT ![i][field] = x]
  <2>1. ranges \in Seq(Range32) /\ Len(ranges) = Len(f.list.ranges)
    <3>1. Range32 # Range64
      <4>1. [va |-> 0, size |-> 0] \in Range64 /\ [va |-> 0, size |-> 0] \notin Range32
        BY DEF Range32, Range64
      <4> QED  BY <4>1
    <3> QED  BY <1>2, <3>1, OtherRange DEF Uncounted
  <2>2. /\ Lists(f, g, g.list, f.list64) /\ g.list.count = f.list.count /\ g.list.ranges = ranges
    BY <1>1, <1>3 DEF Lists
  <2> HIDE DEF ranges
  <2>3. Uncounted(f, g.list, f.list64)
    BY <1>2, <2>1, <2>2 DEF Uncounted
  <2> QED  BY <2>2, <2>3, UncountedTyped, Zenon
<1>4. ASSUME NEW i \in DOMAIN f.list64.ranges, NEW field \in {"va", "size"}, NEW x \in Nat,
             g = [f EXCEPT !.list64.ranges[i][field] = x]
      PROVE  StreamsTyped(g)
  <2> DEFINE ranges == [f.list64.ranges EXCEPT ![i][field] = x]
  <2>1. ranges \in Seq(Range64) /\ Len(ranges) = Len(f.list64.ranges)
    BY <1>2, OtherRange DEF Uncounted
  <2>2. /\ Lists(f, g, f.list, g.list64) /\ g.list64.count = f.list64.count /\ g.list64.base = f.list64.base
        /\ g.list64.ranges = ranges
    BY <1>1, <1>4 DEF Lists
  <2> HIDE DEF ranges
  <2>3. Uncounted(f, f.list, g.list64)
    BY <1>2, <2>1, <2>2 DEF Uncounted
  <2> QED  BY <2>2, <2>3, UncountedTyped, Zenon
<1> DEFINE One == {[f EXCEPT !.list.ranges[i].va = x] : i \in DOMAIN f.list.ranges, x \in Sizes}
           Two == {[f EXCEPT !.list.ranges[i].size = x] : i \in DOMAIN f.list.ranges, x \in Sizes}
           Three == {[f EXCEPT !.list.ranges[i].rva = x] : i \in DOMAIN f.list.ranges, x \in Sizes}
           Four == {[f EXCEPT !.list64.ranges[i].va = x] : i \in DOMAIN f.list64.ranges, x \in Sizes}
           Five == {[f EXCEPT !.list64.ranges[i].size = x] : i \in DOMAIN f.list64.ranges, x \in Sizes}
<1>5. Inspector!DamagedRange(f) = One \cup Two \cup Three \cup Four \cup Five
  BY DEF Inspector!DamagedRange
<1>6. CASE g \in One
  <2>1. PICK i \in DOMAIN f.list.ranges, x \in Sizes : g = [f EXCEPT !.list.ranges[i].va = x]
    BY <1>6
  <2> QED  BY <1>1, <1>3, <2>1
<1>7. CASE g \in Two
  <2>1. PICK i \in DOMAIN f.list.ranges, x \in Sizes : g = [f EXCEPT !.list.ranges[i].size = x]
    BY <1>7
  <2> QED  BY <1>1, <1>3, <2>1
<1>8. CASE g \in Three
  <2>1. PICK i \in DOMAIN f.list.ranges, x \in Sizes : g = [f EXCEPT !.list.ranges[i].rva = x]
    BY <1>8
  <2> QED  BY <1>1, <1>3, <2>1
<1>9. CASE g \in Four
  <2>1. PICK i \in DOMAIN f.list64.ranges, x \in Sizes : g = [f EXCEPT !.list64.ranges[i].va = x]
    BY <1>9
  <2> QED  BY <1>1, <1>4, <2>1
<1>10. CASE g \in Five
  <2>1. PICK i \in DOMAIN f.list64.ranges, x \in Sizes : g = [f EXCEPT !.list64.ranges[i].size = x]
    BY <1>10
  <2> QED  BY <1>1, <1>4, <2>1
<1> HIDE DEF One, Two, Three, Four, Five
<1>11. QED
  BY <1>5, <1>6, <1>7, <1>8, <1>9, <1>10

\* Every damaged file still has two lists of numbers.
LEMMA DamagedStreamsTyped ==
  ASSUME NEW f, LaidOut(f), LaidOutFields(f), NEW g \in Inspector!Damaged(f)
  PROVE  StreamsTyped(g)
<1>1. Sizes \subseteq Nat /\ MaxCount \in Nat
  BY InspectorAssumption, Zenon DEF Inspector!InspectorBounds
<1>2. StreamsTyped(f)
  BY SoundStreams, Zenon
<1>3. CASE g \in Inspector!DamagedHeader(f) \cup Inspector!DamagedStreams(f) \cup Inspector!DamagedModules(f)
  BY <1>2, <1>3, DamageOffStreams, SameStreamsTyped, Zenon
<1>4. CASE g \in Inspector!DamagedDirectory(f)
  <2>1. g.size = f.size /\ g.list = f.list /\ g.list64 = f.list64
    BY <1>4, DirectoryOffStreams, Zenon
  <2>2. f.list.count = Len(f.list.ranges) /\ f.list64.count = Len(f.list64.ranges)
    BY DEF LaidOut, LaidOutLists
  <2> QED  BY <1>2, <2>1, <2>2 DEF StreamsTyped, CountKept
<1>5. CASE g \in Inspector!DamagedStream(f)
  BY <1>1, <1>5, DamageToStreams, Zenon
<1>6. CASE g \in Inspector!DamagedRange(f)
  BY <1>1, <1>6, DamageToRanges, Zenon
<1>7. QED
  BY <1>3, <1>4, <1>5, <1>6 DEF Inspector!Damaged

-----------------------------------------------------------------------------
(* The inspector: what an accepted list says of the file.                  *)

\* A list of checks with one before it, and one after it, passes when all do.
LEMMA FirstOfList ==
  ASSUME NEW head, NEW k \in Nat, NEW checks, checks = [i \in 1..k |-> checks[i]], NEW last
  PROVE  /\ Inspector!First(<<head>> \o checks) = "ok" <=>
              head = "ok" /\ \A i \in 1..k : checks[i] = "ok"
         /\ Inspector!First(<<head>> \o checks \o <<last>>) = "ok" <=>
              head = "ok" /\ last = "ok" /\ \A i \in 1..k : checks[i] = "ok"
<1> DEFINE S == {head, last} \cup {checks[i] : i \in 1..k}
<1>1. checks \in [1..k -> S]
  OBVIOUS
<1> HIDE DEF S
<1>2. checks \in Seq(S) /\ Len(checks) = k
  BY <1>1, ListOf
<1>3. <<head>> \in Seq(S) /\ <<last>> \in Seq(S)
  BY DEF S
<1>4. PICK short : short = <<head>> \o checks
  OBVIOUS
<1>5. /\ short \in Seq(S) /\ DOMAIN short = 1..(k + 1) /\ short[1] = head
      /\ \A i \in 1..k : short[i + 1] = checks[i]
  BY <1>2, <1>3, <1>4
<1>6. PICK long : long = short \o <<last>>
  OBVIOUS
<1>7. /\ DOMAIN long = 1..(k + 2) /\ long[k + 2] = last /\ \A i \in 1..(k + 1) : long[i] = short[i]
  BY <1>3, <1>5, <1>6
<1>8. /\ Inspector!First(short) = "ok" <=> \A i \in 1..(k + 1) : short[i] = "ok"
      /\ Inspector!First(long) = "ok" <=> \A i \in 1..(k + 2) : long[i] = "ok"
  <2>1. DOMAIN short \subseteq Nat /\ DOMAIN long \subseteq Nat
    BY <1>5, <1>7
  <2> QED  BY <1>5, <1>7, <2>1, FirstSaysAll
<1>9. (\A i \in 1..(k + 1) : short[i] = "ok") <=> head = "ok" /\ \A i \in 1..k : checks[i] = "ok"
  <2>1. \A i \in 1..(k + 1) : i = 1 \/ (i - 1 \in 1..k /\ i = (i - 1) + 1)
    OBVIOUS
  <2>2. \A i \in 1..k : i + 1 \in 1..(k + 1)
    OBVIOUS
  <2>3. 1 \in 1..(k + 1)
    OBVIOUS
  <2> QED  BY <1>5, <2>1, <2>2, <2>3
<1>10. (\A i \in 1..(k + 2) : long[i] = "ok") <=> last = "ok" /\ \A i \in 1..(k + 1) : short[i] = "ok"
  <2>1. \A i \in 1..(k + 2) : i = k + 2 \/ i \in 1..(k + 1)
    OBVIOUS
  <2>2. \A i \in 1..(k + 1) : i \in 1..(k + 2)
    OBVIOUS
  <2>3. k + 2 \in 1..(k + 2)
    OBVIOUS
  <2> QED  BY <1>7, <2>1, <2>2, <2>3
<1>11. QED
  BY <1>4, <1>6, <1>8, <1>9, <1>10

\* As many descriptors are read as are declared, or as are there.
LEMMA DescriptorsAre ==
  ASSUME NEW list, list.count \in Nat, NEW S, list.ranges \in Seq(S)
  PROVE  /\ Inspector!Descriptors(list) \in 0..Len(list.ranges)
         /\ list.count <= Len(list.ranges) => Inspector!Descriptors(list) = list.count
<1> DEFINE k == Len(list.ranges)
<1>1. k \in Nat
  OBVIOUS
<1> HIDE DEF k
<1>2. PICK least : least = Inspector!Min({list.count, k})
  OBVIOUS
<1>3. least \in {list.count, k} /\ least <= list.count /\ least <= k
  <2>1. \E j \in {list.count, k} : \A m \in {list.count, k} : j <= m
    BY <1>1
  <2> QED  BY <1>2, <2>1 DEF Inspector!Min
<1>4. QED
  BY <1>1, <1>2, <1>3 DEF Inspector!Descriptors, k

LEMMA SizesTyped ==
  ASSUME NEW list, NEW S \in {Range32, Range64}, list.ranges \in Seq(S)
  PROVE  SizesOf(list) \in Seq(Nat) /\ Len(SizesOf(list)) = Len(list.ranges)
<1>1. /\ Len(list.ranges) \in Nat /\ DOMAIN list.ranges = 1..Len(list.ranges)
      /\ \A i \in 1..Len(list.ranges) : list.ranges[i] \in S
  OBVIOUS
<1>2. \A r \in S : r.size \in Nat
  <2>1. CASE S = Range32
    BY <2>1 DEF Range32
  <2>2. CASE S = Range64
    BY <2>2 DEF Range64
  <2> QED  BY <2>1, <2>2
<1>3. SizesOf(list) \in [1..Len(list.ranges) -> Nat]
  BY <1>1, <1>2 DEF SizesOf
<1>4. QED
  BY <1>1, <1>3, ListOf

\* What an accepted list says of the file (inspectMemoryList).
LEMMA ListAccepted ==
  ASSUME NEW f, NEW n, FileTyped(f, n), f.streams <= 6, StreamsTyped(f),
         Inspector!Has(f, "memoryList"), Inspector!MemoryListCheck(f) = "ok"
  PROVE  \A i \in 1..f.list.count : f.list.ranges[i].rva + f.list.ranges[i].size <= f.size
<1> DEFINE head == Inspector!ListCheck(Inspector!FindEntry(f, "memoryList"), f.list.count)
           k == Inspector!Descriptors(f.list)
           checks == [i \in 1..k |-> Inspector!RangeCheck(f, i)]
<1>1. /\ f.list.ranges \in Seq(Range32) /\ f.list.count \in Nat /\ Len(f.list.ranges) \in Nat
      /\ CountKept(f, "memoryList", f.list.count, Len(f.list.ranges))
  BY DEF StreamsTyped
<1>2. k \in Nat
  BY <1>1, DescriptorsAre
<1>3. Inspector!First(<<head>> \o checks) = "ok"
  BY DEF Inspector!MemoryListCheck
<1>4. checks = [i \in 1..k |-> checks[i]]
  OBVIOUS
<1>5. \A i \in 1..k : checks[i] = Inspector!RangeCheck(f, i)
  OBVIOUS
<1> HIDE DEF head, checks, k
<1>6. head = "ok" /\ \A i \in 1..k : checks[i] = "ok"
  BY <1>2, <1>3, <1>4, FirstOfList
<1>7. f.list.count <= Len(f.list.ranges)
  BY <1>1, <1>6, CountFits DEF head
<1>8. k = f.list.count
  BY <1>1, <1>7, DescriptorsAre DEF k
<1>9. ASSUME NEW i \in 1..f.list.count PROVE f.list.ranges[i].rva + f.list.ranges[i].size <= f.size
  <2> DEFINE r == f.list.ranges[i]
  <2>1. Inspector!RangeCheck(f, i) = "ok"
    BY <1>5, <1>6, <1>8
  <2>2. Inspector!EnsureRange(f, r.rva, r.size) = "ok"
    BY <2>1, FirstOfThree DEF Inspector!RangeCheck
  <2>3. Inspector!Require(r.rva + r.size <= f.size, "truncated") = "ok"
    BY <2>2, FirstOfTwo DEF Inspector!EnsureRange
  <2> QED  BY <2>3 DEF Inspector!Require
<1>10. QED
  BY <1>9

\* What the one check of the sum says of every range (inspectMemory64List).
LEMMA List64Accepted ==
  ASSUME NEW f, NEW n, FileTyped(f, n), f.streams <= 6, StreamsTyped(f),
         Inspector!Has(f, "memory64"), Inspector!Memory64Check(f) = "ok"
  PROVE  /\ f.list64.base + Inspector!Declared(f.list64) <= f.size
         /\ \A i \in 1..f.list64.count : f.list64.base + Inspector!Extent(f.list64, i) <= f.size
<1> DEFINE head == Inspector!ListCheck(Inspector!FindEntry(f, "memory64"), f.list64.count)
           k == Inspector!Descriptors(f.list64)
           checks == [i \in 1..k |-> Inspector!Range64Check(f, i)]
           last == Inspector!EnsureRange(f, f.list64.base, Inspector!Declared(f.list64))
           sums == Inspector!Sums(SizesOf(f.list64))
<1>1. /\ f.list64.ranges \in Seq(Range64) /\ f.list64.count \in Nat /\ Len(f.list64.ranges) \in Nat
      /\ CountKept(f, "memory64", f.list64.count, Len(f.list64.ranges))
      /\ f.list64.base \in Nat /\ f.size \in Nat
  BY DEF StreamsTyped
<1>2. k \in Nat
  BY <1>1, DescriptorsAre
<1>3. Inspector!First(<<head>> \o checks \o <<last>>) = "ok"
  BY DEF Inspector!Memory64Check
<1>4. checks = [i \in 1..k |-> checks[i]]
  OBVIOUS
<1>5. Inspector!Declared(f.list64) = sums[k] /\ \A i : Inspector!Extent(f.list64, i) = sums[i]
  BY Zenon DEF Inspector!Declared, Inspector!Extent, SizesOf
<1> HIDE DEF head, checks, k, last
<1>6. head = "ok" /\ last = "ok"
  BY <1>2, <1>3, <1>4, FirstOfList
<1>7. f.list64.count <= Len(f.list64.ranges)
  BY <1>1, <1>6, CountFits DEF head
<1>8. k = f.list64.count
  BY <1>1, <1>7, DescriptorsAre DEF k
<1>9. f.list64.base + sums[k] <= f.size
  <2>1. Inspector!Require(f.list64.base + Inspector!Declared(f.list64) <= f.size, "truncated") = "ok"
    BY <1>6, FirstOfTwo DEF Inspector!EnsureRange, last
  <2> QED  BY <1>5, <2>1 DEF Inspector!Require
<1>10. ASSUME NEW i \in 1..f.list64.count PROVE f.list64.base + sums[i] <= f.size
  <2>1. SizesOf(f.list64) \in Seq(Nat) /\ Len(SizesOf(f.list64)) = Len(f.list64.ranges)
    BY <1>1, SizesTyped
  <2>2. /\ i \in 0..Len(SizesOf(f.list64)) /\ k \in 0..Len(SizesOf(f.list64))
        /\ k \in i..Len(SizesOf(f.list64))
    BY <1>1, <1>7, <1>8, <2>1
  <2>3. sums[i] <= sums[k] /\ sums[i] \in Nat /\ sums[k] \in Nat
    <3>1. sums[i] <= sums[k]
      BY <2>1, <2>2, SumsGrow
    <3>2. sums \in [0..Len(SizesOf(f.list64)) -> Nat]
      BY <2>1, SumsAre
    <3> QED  BY <2>2, <3>1, <3>2
  <2> HIDE DEF sums
  <2> QED  BY <1>1, <1>9, <2>3
<1>11. QED
  BY <1>5, <1>9, <1>10

-----------------------------------------------------------------------------
(* The inspector: the checks of a sound dump.                              *)

\* What lies in the file passes the checks of its range and of its sum.
LEMMA InRange ==
  ASSUME NEW f, f.size \in Nat, f.size <= UInt64Max, NEW offset \in Nat, NEW size \in Nat, offset + size <= f.size
  PROVE  Inspector!EnsureRange(f, offset, size) = "ok" /\ Inspector!CheckedAdd(offset, size) = "ok"
<1>1. UInt64Max \in Nat
  BY InspectorAssumption, Zenon DEF Inspector!InspectorBounds
<1>2. offset + size <= UInt64Max
  BY <1>1
<1>3. QED
  BY <1>2, FirstOfTwo DEF Inspector!EnsureRange, Inspector!CheckedAdd, Inspector!Require

\* The writer declares each stream, once.
LEMMA StreamsFound ==
  ASSUME NEW f, NEW n, FileTyped(f, n), f.streams = 6, LaidOutEntries(f), NEW i \in 1..6
  PROVE  /\ Inspector!Has(f, f.entries[i].type) /\ Inspector!FindEntry(f, f.entries[i].type) = f.entries[i]
         /\ \A j \in 1..6 : f.entries[j].type = f.entries[i].type => j = i
<1>1. /\ DOMAIN Inspector!Entries(f) = 1..6
      /\ \A j \in 1..6 : Inspector!Entries(f)[j] = f.entries[j]
  <2>1. f.streams <= 6
    OBVIOUS
  <2>2. /\ DOMAIN Inspector!Entries(f) = 1..f.streams
        /\ \A j \in 1..f.streams : Inspector!Entries(f)[j] = f.entries[j]
    BY <2>1, EntriesDeclared, Zenon
  <2> QED  BY <2>2
<1>2. \A j \in 1..6 : f.entries[j].type = f.entries[i].type => j = i
  <2>1. \A j \in 1..6 : j = 1 \/ j = 2 \/ j = 3 \/ j = 4 \/ j = 5 \/ j = 6
    OBVIOUS
  <2>2. /\ f.entries[1].type = "memoryInfo" /\ f.entries[2].type = "memoryList"
        /\ f.entries[3].type = "memory64" /\ f.entries[4].type = "systemInfo"
        /\ f.entries[5].type = "exception" /\ f.entries[6].type = "modules"
    BY DEF LaidOutEntries
  <2> QED  BY <2>1, <2>2
<1>3. Inspector!Has(f, f.entries[i].type)
  BY <1>1 DEF Inspector!Has
<1>4. \E j \in 1..6 : /\ Inspector!FindEntry(f, f.entries[i].type) = f.entries[j]
                      /\ f.entries[j].type = f.entries[i].type
  BY <1>3, EntryFound
<1>5. QED
  BY <1>2, <1>3, <1>4

Found(f, i, type) ==
  Inspector!Has(f, type) /\ Inspector!FindEntry(f, type) = f.entries[i]

LEMMA EachFound ==
  ASSUME NEW f, NEW n, FileTyped(f, n), f.streams = 6, LaidOutEntries(f)
  PROVE  /\ Found(f, 1, "memoryInfo") /\ Found(f, 2, "memoryList") /\ Found(f, 3, "memory64")
         /\ Found(f, 4, "systemInfo") /\ Found(f, 5, "exception") /\ Found(f, 6, "modules")
<1>1. \A i \in 1..6 : Found(f, i, f.entries[i].type)
  BY StreamsFound DEF Found
<1>2. 1 \in 1..6 /\ 2 \in 1..6 /\ 3 \in 1..6 /\ 4 \in 1..6 /\ 5 \in 1..6 /\ 6 \in 1..6
  OBVIOUS
<1>3. /\ f.entries[1].type = "memoryInfo" /\ f.entries[2].type = "memoryList"
      /\ f.entries[3].type = "memory64" /\ f.entries[4].type = "systemInfo"
      /\ f.entries[5].type = "exception" /\ f.entries[6].type = "modules"
  BY DEF LaidOutEntries
<1>4. QED
  BY <1>1, <1>2, <1>3

LEMMA ListHeadPasses ==
  ASSUME NEW e, NEW count \in Nat, count <= MaxCount, e.size = 1 + count
  PROVE  Inspector!ListCheck(e, count) = "ok"
<1>1. 1 <= e.size /\ 1 + count <= e.size
  OBVIOUS
<1>2. QED
  BY <1>1, FirstOfThree DEF Inspector!ListCheck, Inspector!RequireStreamBytes, Inspector!Require

\* The checks of the header and of each stream pass on a sound dump.
LEMMA SoundHeader ==
  ASSUME NEW f, LaidOutHeader(f)
  PROVE  Inspector!HeaderCheck(f) = "ok"
<1> DEFINE c1 == Inspector!EnsureRange(f, 0, Inspector!HeaderSize)
           c2 == Inspector!Require(f.signature = "MDMP", "invalid-signature")
           c3 == Inspector!Require(f.version = "supported", "unsupported-version")
           c4 == Inspector!Require(f.streams <= MaxCount, "impossible-count")
           c5 == Inspector!Require(f.streams = 0 \/ f.directory >= Inspector!HeaderSize, "malformed-stream")
           c6 == Inspector!EnsureRange(f, f.directory, f.streams)
           codes == <<c1, c2, c3, c4, c5, c6>>
<1>1. 6 <= MaxCount /\ Inspector!HeaderSize = 2
  BY DEF LaidOutHeader, Inspector!HeaderSize
<1>2. c1 = "ok" /\ c6 = "ok"
  BY <1>1, InRange DEF LaidOutHeader
<1>3. c2 = "ok" /\ c3 = "ok" /\ c4 = "ok" /\ c5 = "ok"
  BY <1>1 DEF LaidOutHeader, Inspector!Require
<1> HIDE DEF c1, c2, c3, c4, c5, c6
<1>4. DOMAIN codes = 1..6 /\ \A i \in 1..6 : codes[i] = "ok"
  BY <1>2, <1>3
<1>5. Inspector!First(codes) = "ok"
  <2> HIDE DEF codes
  <2> QED  BY <1>4, FirstSaysAll
<1>6. QED
  BY <1>5 DEF Inspector!HeaderCheck, c1, c2, c3, c4, c5, c6

LEMMA SoundDirectory ==
  ASSUME NEW f, NEW n, FileTyped(f, n), LaidOutHeader(f), LaidOutEntries(f), NEW i \in 1..6
  PROVE  Inspector!EntryCheck(f, i) = "ok"
<1> DEFINE e == f.entries[i]
<1>1. e.rva \in Nat /\ e.size \in Nat /\ e.rva + e.size <= f.size
  BY DEF LaidOutEntries
<1>2. Inspector!EnsureRange(f, e.rva, e.size) = "ok"
  BY <1>1, InRange DEF LaidOutHeader
<1>3. \A j \in 1..(i - 1) : f.entries[j].type # e.type
  <2>1. \A j \in 1..(i - 1) : j \in 1..6 /\ j # i
    OBVIOUS
  <2>2. \A j \in 1..6 : f.entries[j].type = e.type => j = i
    BY StreamsFound DEF LaidOutHeader
  <2> QED  BY <2>1, <2>2
<1> HIDE DEF e
<1>4. QED
  BY <1>2, <1>3, FirstOfTwo DEF Inspector!EntryCheck, Inspector!Require, e

LEMMA SoundMemoryInfo ==
  ASSUME NEW f, NEW n, FileTyped(f, n), LaidOutHeader(f), LaidOutEntries(f)
  PROVE  Inspector!MemoryInfoCheck(f) = "ok"
<1> DEFINE e == Inspector!FindEntry(f, "memoryInfo")
           c1 == Inspector!RequireStreamBytes(e, 1)
           c2 == Inspector!Require(f.info.header >= 1 /\ f.info.entry >= 1, "malformed-stream")
           c3 == Inspector!Require(f.info.count <= MaxCount, "impossible-count")
           c4 == Inspector!CheckedAdd(f.info.header, f.info.count * f.info.entry)
           c5 == Inspector!RequireStreamBytes(e, f.info.header + f.info.count * f.info.entry)
           codes == <<c1, c2, c3, c4, c5>>
<1>1. /\ MaxCount \in Nat /\ 1 <= MaxCount /\ UInt64Max \in Nat /\ 2 <= UInt64Max
      /\ f.info.header = 1 /\ f.info.entry = 1 /\ f.info.count = 1
  <2>1. MaxCount \in Nat /\ UInt64Max \in Nat
    BY InspectorAssumption, Zenon DEF Inspector!InspectorBounds
  <2>2. 6 <= MaxCount
    BY DEF LaidOutHeader
  <2> QED  BY <2>1, <2>2 DEF LaidOutHeader
<1>2. e.size = 2
  BY EachFound DEF Found, LaidOutEntries, LaidOutHeader
<1> HIDE DEF e
<1>3. c1 = "ok" /\ c2 = "ok" /\ c3 = "ok" /\ c4 = "ok" /\ c5 = "ok"
  BY <1>1, <1>2 DEF Inspector!Require, Inspector!RequireStreamBytes, Inspector!CheckedAdd
<1> HIDE DEF c1, c2, c3, c4, c5
<1>4. DOMAIN codes = 1..5 /\ \A i \in 1..5 : codes[i] = "ok"
  BY <1>3
<1>5. Inspector!First(codes) = "ok"
  <2> HIDE DEF codes
  <2> QED  BY <1>4, FirstSaysAll
<1>6. QED
  BY <1>5 DEF Inspector!MemoryInfoCheck, c1, c2, c3, c4, c5, e

LEMMA SoundList ==
  ASSUME NEW f, NEW n, FileTyped(f, n), StreamsTyped(f), LaidOut(f)
  PROVE  Inspector!MemoryListCheck(f) = "ok" /\ Inspector!Declared(f.list) = Inspector!Total(SizesOf(f.list))
<1> DEFINE head == Inspector!ListCheck(Inspector!FindEntry(f, "memoryList"), f.list.count)
           k == Inspector!Descriptors(f.list)
           checks == [i \in 1..k |-> Inspector!RangeCheck(f, i)]
           sizes == SizesOf(f.list)
<1>1. /\ f.list.ranges \in Seq([va : {0}, size : Nat, rva : Nat]) /\ f.list.ranges \in Seq(Range32)
      /\ f.list.count \in Nat /\ f.list.count = Len(f.list.ranges) /\ f.list.count <= MaxCount
      /\ f.size \in Nat /\ f.size <= UInt64Max
      /\ \A i \in 1..f.list.count : f.list.ranges[i].rva + f.list.ranges[i].size <= f.size
      /\ Inspector!Total(SizesOf(f.list)) + Inspector!Total(SizesOf(f.list64)) <= f.size
      /\ f.list64.ranges \in Seq(Range64)
  BY DEF StreamsTyped, LaidOut, LaidOutLists, LaidOutHeader
<1>2. k = f.list.count
  BY <1>1, DescriptorsAre
<1>3. head = "ok"
  <2>1. Inspector!FindEntry(f, "memoryList").size = 1 + f.list.count
    BY EachFound DEF Found, LaidOut, LaidOutEntries, LaidOutHeader
  <2> QED  BY <1>1, <2>1, ListHeadPasses
<1>4. /\ sizes \in Seq(Nat) /\ Len(sizes) = f.list.count
      /\ SizesOf(f.list64) \in Seq(Nat)
      /\ \A i \in 1..f.list.count : sizes[i] = f.list.ranges[i].size
  <2>1. DOMAIN f.list.ranges = 1..f.list.count
    BY <1>1
  <2>2. \A i \in 1..f.list.count : sizes[i] = f.list.ranges[i].size
    BY <2>1 DEF SizesOf
  <2> QED  BY <1>1, <2>2, SizesTyped
<1>5. Inspector!Declared(f.list) = Inspector!Total(sizes)
  BY <1>2, <1>4 DEF Inspector!Declared, Inspector!Extent, Inspector!Total, SizesOf
<1>6. Inspector!Total(sizes) \in Nat /\ Inspector!Total(SizesOf(f.list64)) \in Nat
  BY <1>4, SumsWithin
<1>7. ASSUME NEW i \in 1..k PROVE Inspector!RangeCheck(f, i) = "ok"
  <2> DEFINE r == f.list.ranges[i]
  <2>1. r.va = 0 /\ r.size \in Nat /\ r.rva \in Nat /\ r.rva + r.size <= f.size
    <3> DEFINE R == [va : {0}, size : Nat, rva : Nat]
    <3>1. \A x \in R : x.va = 0 /\ x.size \in Nat /\ x.rva \in Nat
      OBVIOUS
    <3>2. f.list.ranges \in Seq(R) /\ i \in 1..Len(f.list.ranges)
      BY <1>1, <1>2
    <3> HIDE DEF R, k
    <3>3. f.list.ranges[i] \in R
      BY <3>2
    <3> QED  BY <1>1, <1>2, <3>1, <3>3
  <2>2. Inspector!EnsureRange(f, r.rva, r.size) = "ok"
    BY <1>1, <2>1, InRange
  <2>3. Inspector!CheckedAdd(r.va, r.size) = "ok"
    <3> HIDE DEF r
    <3>1. 0 + r.size <= f.size
      BY <1>1, <2>1
    <3> QED  BY <1>1, <2>1, <3>1, InRange
  <2>4. Inspector!CheckedAdd(Inspector!Extent(f.list, i - 1), r.size) = "ok"
    <3>1. Inspector!Extent(f.list, i - 1) = Inspector!Before(sizes, i)
      BY DEF Inspector!Extent, Inspector!Before, SizesOf
    <3>2. /\ Inspector!Before(sizes, i) \in Nat /\ sizes[i] = r.size
          /\ Inspector!Before(sizes, i) + sizes[i] <= Inspector!Total(sizes)
      BY <1>2, <1>4, SumsWithin
    <3> HIDE DEF r, sizes
    <3>3. Inspector!Before(sizes, i) + r.size <= f.size
      BY <1>1, <1>6, <2>1, <3>2 DEF sizes
    <3> QED  BY <1>1, <2>1, <3>1, <3>2, <3>3, InRange
  <2> HIDE DEF r
  <2> QED  BY <2>2, <2>3, <2>4, FirstOfThree DEF Inspector!RangeCheck, r
<1>8. checks = [i \in 1..k |-> checks[i]] /\ (\A i \in 1..k : checks[i] = "ok") /\ k \in Nat
  BY <1>1, <1>2, <1>7
<1> HIDE DEF head, checks, k, sizes
<1>9. Inspector!First(<<head>> \o checks) = "ok"
  BY <1>3, <1>8, FirstOfList, Zenon
<1>10. QED
  BY <1>5, <1>9 DEF Inspector!MemoryListCheck, head, checks, k, sizes

LEMMA SoundList64 ==
  ASSUME NEW f, NEW n, FileTyped(f, n), StreamsTyped(f), LaidOut(f)
  PROVE  Inspector!Memory64Check(f) = "ok" /\ Inspector!Declared(f.list64) = Inspector!Total(SizesOf(f.list64))
<1> DEFINE head == Inspector!ListCheck(Inspector!FindEntry(f, "memory64"), f.list64.count)
           k == Inspector!Descriptors(f.list64)
           checks == [i \in 1..k |-> Inspector!Range64Check(f, i)]
           last == Inspector!EnsureRange(f, f.list64.base, Inspector!Declared(f.list64))
           sizes == SizesOf(f.list64)
<1>1. /\ f.list64.ranges \in Seq([va : {0}, size : Nat]) /\ f.list64.ranges \in Seq(Range64)
      /\ f.list64.count \in Nat /\ f.list64.count = Len(f.list64.ranges) /\ f.list64.count <= MaxCount
      /\ f.size \in Nat /\ f.size <= UInt64Max /\ f.list64.base \in Nat
      /\ f.list64.base + Inspector!Total(SizesOf(f.list64)) <= f.size
  BY DEF StreamsTyped, LaidOut, LaidOutLists, LaidOutHeader
<1>2. k = f.list64.count
  BY <1>1, DescriptorsAre
<1>3. head = "ok"
  <2>1. Inspector!FindEntry(f, "memory64").size = 1 + f.list64.count
    BY EachFound DEF Found, LaidOut, LaidOutEntries, LaidOutHeader
  <2> QED  BY <1>1, <2>1, ListHeadPasses
<1>4. /\ sizes \in Seq(Nat) /\ Len(sizes) = f.list64.count
      /\ \A i \in 1..f.list64.count : sizes[i] = f.list64.ranges[i].size
  <2>1. DOMAIN f.list64.ranges = 1..f.list64.count
    BY <1>1
  <2>2. \A i \in 1..f.list64.count : sizes[i] = f.list64.ranges[i].size
    BY <2>1 DEF SizesOf
  <2> QED  BY <1>1, <2>2, SizesTyped
<1>5. Inspector!Declared(f.list64) = Inspector!Total(sizes)
  BY <1>2, <1>4 DEF Inspector!Declared, Inspector!Extent, Inspector!Total, SizesOf
<1>6. Inspector!Total(sizes) \in Nat
  BY <1>4, SumsWithin
<1>7. ASSUME NEW i \in 1..k PROVE Inspector!Range64Check(f, i) = "ok"
  <2> DEFINE r == f.list64.ranges[i]
  <2>1. r.va = 0 /\ r.size \in Nat
    <3> DEFINE R == [va : {0}, size : Nat]
    <3>1. \A x \in R : x.va = 0 /\ x.size \in Nat
      OBVIOUS
    <3>2. f.list64.ranges \in Seq(R) /\ i \in 1..Len(f.list64.ranges)
      BY <1>1, <1>2
    <3> HIDE DEF R, k
    <3>3. f.list64.ranges[i] \in R
      BY <3>2
    <3> QED  BY <3>1, <3>3
  <2>2. Inspector!Extent(f.list64, i - 1) = Inspector!Before(sizes, i)
    BY DEF Inspector!Extent, Inspector!Before, SizesOf
  <2>3. /\ Inspector!Before(sizes, i) \in Nat /\ sizes[i] = r.size
        /\ Inspector!Before(sizes, i) + sizes[i] <= Inspector!Total(sizes)
    BY <1>2, <1>4, SumsWithin
  <2> HIDE DEF r, sizes
  <2>4. Inspector!Before(sizes, i) + r.size <= f.size /\ 0 + r.size <= f.size
    BY <1>1, <1>6, <2>1, <2>3 DEF sizes
  <2>5. /\ Inspector!CheckedAdd(r.va, r.size) = "ok"
        /\ Inspector!CheckedAdd(Inspector!Extent(f.list64, i - 1), r.size) = "ok"
    BY <1>1, <2>1, <2>2, <2>3, <2>4, InRange
  <2> QED  BY <2>5, FirstOfTwo DEF Inspector!Range64Check, r
<1>8. checks = [i \in 1..k |-> checks[i]] /\ (\A i \in 1..k : checks[i] = "ok") /\ k \in Nat
  BY <1>1, <1>2, <1>7
<1>9. last = "ok"
  <2> HIDE DEF sizes
  <2> QED  BY <1>1, <1>5, <1>6, InRange DEF sizes
<1> HIDE DEF head, checks, k, last, sizes
<1>10. Inspector!First(<<head>> \o checks \o <<last>>) = "ok"
  BY <1>3, <1>8, <1>9, FirstOfList
<1>11. QED
  BY <1>5, <1>10 DEF Inspector!Memory64Check, head, checks, k, last, sizes

\* The verdicts on a sound dump whose reads all work.
Spent == {"ok", "resource-limit"}

\* Every check of a sound dump passes, but for the budget of its modules.
ChecksPass(f) ==
  /\ Inspector!HeaderCheck(f) = "ok" /\ \A i \in 1..6 : Inspector!EntryCheck(f, i) = "ok"
  /\ Inspector!MemoryInfoCheck(f) = "ok" /\ Inspector!MemoryListCheck(f) = "ok"
  /\ Inspector!Memory64Check(f) = "ok"
  /\ Inspector!CheckedAdd(Inspector!Declared(f.list), Inspector!Declared(f.list64)) = "ok"
  /\ Inspector!ArchitectureCheck(f) = "ok" /\ Inspector!ExceptionCheck(f) = "ok"
  /\ Inspector!ModuleListCheck(f) \in Spent

LEMMA SoundRest ==
  ASSUME NEW f, NEW n, FileTyped(f, n), LaidOut(f)
  PROVE  /\ Inspector!ArchitectureCheck(f) = "ok" /\ Inspector!ExceptionCheck(f) = "ok"
         /\ Inspector!ModuleListCheck(f) \in Spent
<1>1. /\ Inspector!FindEntry(f, "systemInfo").size = 1 /\ Inspector!FindEntry(f, "exception").size = 1
      /\ Inspector!FindEntry(f, "modules").size = 1 + f.modules.count
  BY EachFound DEF Found, LaidOut, LaidOutEntries, LaidOutHeader
<1>2. f.parameters = 1 /\ 1 <= MaxCount /\ f.modules.count \in Nat /\ f.modules.count <= MaxCount
  <2>1. MaxCount \in Nat
    BY InspectorAssumption, Zenon DEF Inspector!InspectorBounds
  <2> QED  BY <2>1 DEF LaidOut, LaidOutHeader, LaidOutModules
<1>3. Inspector!ArchitectureCheck(f) = "ok"
  BY <1>1 DEF Inspector!ArchitectureCheck, Inspector!RequireStreamBytes, Inspector!Require
<1>4. Inspector!ExceptionCheck(f) = "ok"
  BY <1>1, <1>2, FirstOfTwo DEF Inspector!ExceptionCheck, Inspector!RequireStreamBytes, Inspector!Require
<1>5. Inspector!ModuleListCheck(f) \in Spent
  <2> DEFINE c1 == Inspector!ListCheck(Inspector!FindEntry(f, "modules"), f.modules.count)
             c2 == Inspector!Require(f.modules.count * Inspector!ModuleCharge <= MaxMetadata, "resource-limit")
             codes == <<c1, c2>>
  <2>1. c1 = "ok"
    BY <1>1, <1>2, ListHeadPasses
  <2>2. c2 \in Spent
    BY DEF Spent, Inspector!Require
  <2> HIDE DEF c1, c2
  <2>3. DOMAIN codes = 1..2 /\ \A i \in 1..2 : codes[i] \in Spent
    BY <2>1, <2>2 DEF Spent
  <2>4. Inspector!First(codes) \in Spent
    <3> HIDE DEF codes
    <3> QED  BY <2>3, FirstIsOne DEF Spent
  <2> QED  BY <2>4 DEF Inspector!ModuleListCheck, c1, c2
<1>6. QED
  BY <1>3, <1>4, <1>5

\* So every check of a sound dump passes, but for the budget.
LEMMA SoundChecks ==
  ASSUME NEW f, NEW n, FileTyped(f, n), StreamsTyped(f), LaidOut(f)
  PROVE  ChecksPass(f)
<1>1. LaidOutHeader(f) /\ LaidOutEntries(f)
  BY DEF LaidOut
<1>2. /\ Inspector!HeaderCheck(f) = "ok" /\ \A i \in 1..6 : Inspector!EntryCheck(f, i) = "ok"
      /\ Inspector!MemoryInfoCheck(f) = "ok"
  BY <1>1, SoundHeader, SoundDirectory, SoundMemoryInfo
<1>3. /\ Inspector!MemoryListCheck(f) = "ok" /\ Inspector!Memory64Check(f) = "ok"
      /\ Inspector!Declared(f.list) = Inspector!Total(SizesOf(f.list))
      /\ Inspector!Declared(f.list64) = Inspector!Total(SizesOf(f.list64))
  BY SoundList, SoundList64
<1>4. Inspector!CheckedAdd(Inspector!Declared(f.list), Inspector!Declared(f.list64)) = "ok"
  <2>1. /\ f.list.ranges \in Seq(Range32) /\ f.list64.ranges \in Seq(Range64)
        /\ f.size \in Nat /\ f.size <= UInt64Max
        /\ Inspector!Total(SizesOf(f.list)) + Inspector!Total(SizesOf(f.list64)) <= f.size
    BY DEF StreamsTyped, LaidOut, LaidOutLists, LaidOutHeader
  <2>2. SizesOf(f.list) \in Seq(Nat) /\ SizesOf(f.list64) \in Seq(Nat)
    BY <2>1, SizesTyped
  <2>3. Inspector!Total(SizesOf(f.list)) \in Nat /\ Inspector!Total(SizesOf(f.list64)) \in Nat
    BY <2>2, SumsWithin
  <2> QED  BY <1>3, <2>1, <2>3, InRange
<1>5. QED
  BY <1>2, <1>3, <1>4, SoundRest DEF ChecksPass

\* Each name of a sound dump is refused for want of budget only.
LEMMA SoundName ==
  ASSUME LaidOut(dump), NEW i \in 1..dump.modules.count
  PROVE  Inspector!First(<<Inspector!NameCheck(dump.modules.list[i]),
                           Inspector!RecordCheck(dump.modules.list[i])>>) \in Spent
<1> DEFINE m == dump.modules.list[i]
           c1 == Inspector!EnsureRange(dump, m.name, 1)
           c2 == Inspector!Require(m.length <= MaxString, "resource-limit")
           c3 == Inspector!Require(~m.odd, "malformed-stream")
           c4 == Inspector!Require(Inspector!NameCharge(m) <= budget, "resource-limit")
           c5 == Inspector!EnsureRange(dump, m.name + 1, m.length)
           codes == <<c1, c2, c3, c4, c5>>
<1>1. /\ m.name \in Nat /\ m.length \in Nat /\ m.name + 1 + m.length <= dump.size /\ ~m.odd
      /\ dump.size \in Nat /\ dump.size <= UInt64Max
  BY DEF LaidOut, LaidOutModules, LaidOutHeader
<1> HIDE DEF m
<1>2. c1 = "ok" /\ c5 = "ok" /\ c3 = "ok"
  <2>1. m.name + 1 <= dump.size /\ m.name + 1 \in Nat /\ 1 \in Nat
    BY <1>1
  <2>2. c1 = "ok"
    BY <1>1, <2>1, InRange
  <2>3. c5 = "ok"
    BY <1>1, <2>1, InRange
  <2> QED  BY <1>1, <2>2, <2>3 DEF Inspector!Require
<1>3. c2 \in Spent /\ c4 \in Spent /\ Inspector!RecordCheck(m) \in Spent
  BY DEF Spent, Inspector!Require, Inspector!RecordCheck
<1> HIDE DEF c1, c2, c3, c4, c5
<1>4. Inspector!NameCheck(m) \in Spent
  <2>1. DOMAIN codes = 1..5 /\ \A j \in 1..5 : codes[j] \in Spent
    BY <1>2, <1>3 DEF Spent
  <2>2. Inspector!First(codes) \in Spent
    <3> HIDE DEF codes
    <3> QED  BY <2>1, FirstIsOne DEF Spent
  <2>3. Inspector!NameCheck(m) = "ok" \/ Inspector!NameCheck(m) = Inspector!First(codes)
    BY DEF Inspector!NameCheck, c1, c2, c3, c4, c5
  <2> QED  BY <2>2, <2>3 DEF Spent
<1>5. QED
  <2> DEFINE both == <<Inspector!NameCheck(m), Inspector!RecordCheck(m)>>
  <2>1. DOMAIN both = 1..2 /\ \A j \in 1..2 : both[j] \in Spent
    BY <1>3, <1>4
  <2>2. Inspector!First(both) \in Spent
    <3> HIDE DEF both
    <3> QED  BY <2>1, FirstIsOne DEF Spent
  <2> QED  BY <2>2 DEF m

-----------------------------------------------------------------------------
(* The inspector: the invariants its verdict rests on.                     *)

\* The file is a sound, a cut or a damaged one (the test files of the inspector).
Given ==
  \E s \in Shapes :
    \/ dumpDamage = "none" /\ dump = Inspector!Layout(s)
    \/ dumpDamage = "cut" /\ dump \in Inspector!Cut(Inspector!Layout(s))
    \/ dumpDamage = "changed" /\ dump \in Inspector!Damaged(Inspector!Layout(s))

\* The file without its end.
Trimmed(f, g) == \E size \in Nat : g = [f EXCEPT !.size = size]

LEMMA GivenFacts ==
  ASSUME Given
  PROVE  /\ StreamsTyped(dump) /\ \E n \in Nat : FileTyped(dump, n)
         /\ dumpDamage = "none" => LaidOut(dump)
         /\ dumpDamage = "cut" => \E f : LaidOut(f) /\ LaidOutFields(f) /\ Trimmed(f, dump)
<1>1. PICK s \in Shapes :
        \/ dumpDamage = "none" /\ dump = Inspector!Layout(s)
        \/ dumpDamage = "cut" /\ dump \in Inspector!Cut(Inspector!Layout(s))
        \/ dumpDamage = "changed" /\ dump \in Inspector!Damaged(Inspector!Layout(s))
  BY Zenon DEF Given
<1> DEFINE f == Inspector!Layout(s)
<1>2. PICK n \in Nat : FileWhole(f, n)
  BY LayoutIsWhole, Zenon
<1>3. LaidOut(f)
  BY LayoutIsSound, Zenon
<1> HIDE DEF f
<1>4. LaidOutFields(f) /\ FileTyped(f, n) /\ StreamsTyped(f)
  BY <1>2, <1>3, SoundStreams DEF FileWhole, LaidOutFields
<1>5. CASE dumpDamage = "none" /\ dump = f
  BY <1>3, <1>4, <1>5
<1>6. CASE dumpDamage = "cut" /\ dump \in Inspector!Cut(f)
  <2>1. PICK size \in Nat : dump = [f EXCEPT !.size = size]
    <3>1. f.size \in Nat
      BY <1>4 DEF StreamsTyped
    <3> QED  BY <1>6, <3>1 DEF Inspector!Cut
  <2>2. /\ dump.size = size /\ dump.list = f.list /\ dump.list64 = f.list64 /\ dump.entries = f.entries
        /\ SameWalk(f, dump)
    BY <1>4, <2>1 DEF LaidOutFields, Rest, SameWalk
  <2>3. StreamsTyped(dump)
    BY <1>4, <2>2 DEF StreamsTyped, CountKept
  <2>4. FileTyped(dump, n)
    BY <1>2, <2>2, SameWalkTyped
  <2> QED  BY <1>3, <1>4, <1>6, <2>1, <2>3, <2>4 DEF Trimmed
<1>7. CASE dumpDamage = "changed" /\ dump \in Inspector!Damaged(f)
  <2>1. StreamsTyped(dump)
    BY <1>3, <1>4, <1>7, DamagedStreamsTyped, Zenon
  <2>2. FileTyped(dump, n)
    BY <1>2, <1>7, DamagedTyped, Zenon
  <2> QED  BY <1>7, <2>1, <2>2
<1>8. QED
  BY <1>1, <1>5, <1>6, <1>7, Zenon DEF f

LEMMA DumpFixed ==
  ASSUME Inspector!InspectNext
  PROVE  dump' = dump /\ dumpDamage' = dumpDamage
BY DEF Inspector!InspectNext, Inspector!Open, Inspector!ReadFails, Inspector!Header,
       Inspector!Directory, Inspector!MemoryInfo, Inspector!MemoryList, Inspector!Memory64List,
       Inspector!SystemInfo, Inspector!Exception, Inspector!Modules, Inspector!Module,
       Inspector!Accept, Inspector!Close, Inspector!Done, Inspector!inspectVars

LEMMA GivenKept ==
  ASSUME Given, dump' = dump, dumpDamage' = dumpDamage
  PROVE  Given'
BY DEF Given

\* What the two steps on the lists leave behind.
ListOK(f) == Inspector!Has(f, "memoryList") => Inspector!MemoryListCheck(f) = "ok"

List64OK(f) == Inspector!Has(f, "memory64") => Inspector!Memory64Check(f) = "ok"

InList(f) == IF Inspector!Has(f, "memoryList") THEN Inspector!Declared(f.list) ELSE 0

InList64(f) == IF Inspector!Has(f, "memory64") THEN Inspector!Declared(f.list64) ELSE 0

PastLists == {"systemInfo", "exception", "modules", "module"}

\* Past the step of a list its checks have passed, and the captured bytes are the
\* declared ones (inspectMemoryList, inspectMemory64List).
ListsInv ==
  /\ phase \in {"memory64"} \cup PastLists \/ outcome = "ok" => ListOK(dump)
  /\ phase = "memory64" => captured = InList(dump)
  /\ phase \in PastLists \/ outcome = "ok" =>
       List64OK(dump) /\ captured = InList(dump) + InList64(dump)

LEMMA ListsStep ==
  ASSUME WalkInv, ListsInv, Inspector!InspectNext
  PROVE  ListsInv'
<1> USE DEF Inspector!Decide
<1>1. dump' = dump
  BY DumpFixed
<1>2. phase \in Walking \cup {"open", "header"} => outcome = "none"
  BY DEF WalkInv
<1>3. CASE phase' \notin {"memory64"} \cup PastLists /\ outcome' # "ok"
  BY <1>3 DEF ListsInv
<1>4. ASSUME phase' \in PastLists \/ outcome' = "ok", phase' \notin {"memory64"},
             phase \in PastLists \/ outcome = "ok", captured' = captured
      PROVE  ListsInv'
  BY <1>1, <1>4 DEF ListsInv
<1>5. CASE \/ Inspector!Open \/ Inspector!ReadFails \/ Inspector!Header \/ Inspector!Directory
           \/ Inspector!MemoryInfo
  <2>1. phase' \notin {"memory64"} \cup PastLists /\ outcome' # "ok"
    BY <1>2, <1>5 DEF Inspector!Open, Inspector!ReadFails, Inspector!Header, Inspector!Directory,
                      Inspector!MemoryInfo, PastLists, Walking
  <2> QED  BY <1>3, <2>1
<1>6. CASE Inspector!MemoryList
  <2>1. /\ phase = "memoryList" /\ outcome = "none"
        /\ \/ ListOK(dump) /\ phase' = "memory64" /\ outcome' = outcome
           \/ phase' = "close" /\ outcome' # "ok"
        /\ ListOK(dump) => captured' = InList(dump)
    BY <1>2, <1>6 DEF Inspector!MemoryList, ListOK, InList, Walking
  <2> QED  BY <1>1, <2>1 DEF ListsInv, PastLists
<1>7. CASE Inspector!Memory64List
  <2> DEFINE has == Inspector!Has(dump, "memory64")
             check == IF has THEN Inspector!Memory64Check(dump) ELSE "ok"
             sum == IF has THEN Inspector!Declared(dump.list64) ELSE 0
             code == Inspector!First(<<check, Inspector!CheckedAdd(captured, sum)>>)
  <2>1. /\ phase = "memory64" /\ outcome = "none"
        /\ \/ code = "ok" /\ phase' = "systemInfo" /\ outcome' = outcome
           \/ phase' = "close" /\ outcome' # "ok"
        /\ captured' = captured + sum
    BY <1>2, <1>7 DEF Inspector!Memory64List, Walking
  <2>2. code = "ok" => List64OK(dump)
    BY FirstOfTwo DEF List64OK
  <2>3. sum = InList64(dump) /\ captured = InList(dump) /\ ListOK(dump)
    BY <2>1 DEF ListsInv, InList64
  <2> HIDE DEF sum, code
  <2> QED  BY <1>1, <2>1, <2>2, <2>3 DEF ListsInv, PastLists
<1>8. CASE Inspector!SystemInfo \/ Inspector!Exception \/ Inspector!Modules \/ Inspector!Module
  <2>1. /\ phase \in PastLists /\ captured' = captured /\ outcome = "none"
        /\ phase' \in PastLists \/ (phase' = "close" /\ outcome' # "ok")
    BY <1>2, <1>8 DEF Inspector!SystemInfo, Inspector!Exception, Inspector!Modules, Inspector!Module,
                      PastLists, Walking
  <2>2. "close" \notin {"memory64"} \cup PastLists /\ "memory64" \notin PastLists
    BY DEF PastLists
  <2> QED  BY <1>3, <1>4, <2>1, <2>2
<1>9. CASE Inspector!Accept
  BY <1>1, <1>9 DEF Inspector!Accept, ListsInv, PastLists
<1>10. CASE Inspector!Close \/ Inspector!Done
  <2>1. /\ phase' = "done" /\ captured' = captured
        /\ outcome' = outcome \/ outcome' # "ok"
    BY <1>10 DEF Inspector!Close, Inspector!Done, Inspector!inspectVars
  <2> QED  BY <1>1, <2>1 DEF ListsInv, PastLists
<1>11. QED
  BY <1>5, <1>6, <1>7, <1>8, <1>9, <1>10 DEF Inspector!InspectNext

\* What one fact costs of the output budget.
Charge(fact) ==
  Inspector!ModuleCharge + Inspector!NameFactor * fact.name + Inspector!RecordFactor * fact.debugFile

Charges(facts) == [i \in DOMAIN facts |-> Charge(facts[i])]

FactTyped(fact) == fact.name \in Nat /\ fact.debugFile \in Nat

LEMMA ChargeIsNumber == \A fact : FactTyped(fact) => Charge(fact) \in Nat
BY DEF FactTyped, Charge, Inspector!ModuleCharge, Inspector!NameFactor, Inspector!RecordFactor

LEMMA OneMoreNumber ==
  ASSUME NEW seq \in Seq(Nat), NEW x \in Nat
  PROVE  /\ Append(seq, x) \in [1..(Len(seq) + 1) -> Nat]
         /\ Append(seq, x)[Len(seq) + 1] = x /\ \A i \in 1..Len(seq) : Append(seq, x)[i] = seq[i]
<1>1. Append(seq, x) \in Seq(Nat) /\ Len(Append(seq, x)) = Len(seq) + 1
  OBVIOUS
<1>2. Append(seq, x)[Len(seq) + 1] = x /\ \A i \in 1..Len(seq) : Append(seq, x)[i] = seq[i]
  OBVIOUS
<1>3. Append(seq, x) \in [1..Len(Append(seq, x)) -> Nat]
  <2> DEFINE more == Append(seq, x)
  <2> HIDE DEF more
  <2>1. more \in Seq(Nat)
    BY <1>1 DEF more
  <2>2. more \in [1..Len(more) -> Nat]
    BY <2>1
  <2> QED  BY <2>2 DEF more
<1>4. QED
  BY <1>1, <1>2, <1>3

\* One fact more costs its charge.
LEMMA ChargesOfMore ==
  ASSUME NEW S, NEW facts \in Seq(S), \A i \in DOMAIN facts : FactTyped(facts[i]), NEW fact, FactTyped(fact)
  PROVE  /\ Inspector!Total(Charges(facts)) \in Nat
         /\ Inspector!Total(Charges(Append(facts, fact))) = Inspector!Total(Charges(facts)) + Charge(fact)
<1> DEFINE k == Len(facts)
           T == S \cup {fact}
<1>1. k \in Nat /\ DOMAIN facts = 1..k /\ facts \in Seq(T) /\ fact \in T
  OBVIOUS
<1> HIDE DEF T
<1>2. /\ Append(facts, fact) \in Seq(T) /\ DOMAIN Append(facts, fact) = 1..(k + 1)
      /\ Append(facts, fact)[k + 1] = fact
      /\ \A i \in 1..k : Append(facts, fact)[i] = facts[i]
  BY <1>1
<1>3. Charge(fact) \in Nat /\ \A i \in 1..k : Charge(facts[i]) \in Nat
  BY <1>1, ChargeIsNumber
<1>4. Charges(facts) \in Seq(Nat) /\ Len(Charges(facts)) = k
  <2>1. Charges(facts) \in [1..k -> Nat]
    BY <1>1, <1>3 DEF Charges
  <2> QED  BY <1>1, <2>1, ListOf
<1>5. \A i \in 1..k : Charges(facts)[i] = Charge(facts[i])
  BY <1>1 DEF Charges
<1> DEFINE more == Charges(Append(facts, fact))
           less == Append(Charges(facts), Charge(fact))
<1>6. /\ more[k + 1] = Charge(fact) /\ \A i \in 1..k : more[i] = Charge(facts[i])
      /\ more \in [1..(k + 1) -> Nat]
  <2>1. /\ more[k + 1] = Charge(fact) /\ \A i \in 1..k : more[i] = Charge(facts[i])
    BY <1>1, <1>2 DEF Charges
  <2>2. \A i \in 1..(k + 1) : i \in 1..k \/ i = k + 1
    BY <1>1
  <2>3. more = [i \in 1..(k + 1) |-> Charge(Append(facts, fact)[i])]
    BY <1>2 DEF Charges
  <2>4. \A i \in 1..(k + 1) : Charge(Append(facts, fact)[i]) \in Nat
    BY <1>2, <1>3, <2>2
  <2> QED  BY <2>1, <2>3, <2>4
<1>7. /\ less[k + 1] = Charge(fact) /\ \A i \in 1..k : less[i] = Charges(facts)[i]
      /\ less \in [1..(k + 1) -> Nat]
  BY <1>3, <1>4, OneMoreNumber
<1>8. more = less
  <2> HIDE DEF more, less
  <2>1. \A i \in 1..(k + 1) : i \in 1..k \/ i = k + 1
    BY <1>1
  <2>2. \A i \in 1..(k + 1) : more[i] = less[i]
    BY <1>5, <1>6, <1>7, <2>1
  <2> QED  BY <1>6, <1>7, <2>2
<1>9. QED
  BY <1>3, <1>4, <1>8, SumOfAppend

BeforeModules == {"open", "header", "directory", "memoryInfo", "memoryList", "memory64", "systemInfo",
                  "exception", "modules"}

\* What a fact says is in the file: the identity it gives, and the name before it.
FactHolds(f, fact, i) ==
  LET m == f.modules.list[i]
  IN  /\ FactTyped(fact)
      /\ fact.debugFile > 0 => m.record + fact.debugFile <= f.size
      /\ m.name # 0 => m.name + 1 + m.length <= f.size

\* The facts so far cost no more than was taken from the budget, one charge for
\* each module still to come is set aside, and there is one fact for each module
\* passed (inspectModules).
ModulesInv ==
  /\ \E S : modules \in Seq(S)
  /\ \A i \in DOMAIN modules : FactHolds(dump, modules[i], i)
  /\ Inspector!Total(Charges(modules)) \in Nat /\ Inspector!Total(Charges(modules)) <= MaxMetadata
  /\ phase \in BeforeModules => modules = <<>> /\ budget = MaxMetadata
  /\ phase \in BeforeModules \ {"open", "header", "directory"} => at = 1
  /\ phase = "module" /\ Inspector!Has(dump, "modules") =>
       /\ Len(modules) = at - 1 /\ at <= dump.modules.count + 1 /\ 0 <= budget
       /\ Inspector!Total(Charges(modules)) + (dump.modules.count - (at - 1)) + budget <= MaxMetadata
  /\ outcome = "ok" /\ Inspector!Has(dump, "modules") => Len(modules) = dump.modules.count

LEMMA NothingCharged == Inspector!Total(Charges(<<>>)) = 0
<1>1. Charges(<<>>) \in [1..0 -> Nat]
  BY DEF Charges
<1>2. Charges(<<>>) \in Seq(Nat) /\ Len(Charges(<<>>)) = 0
  BY <1>1, ListOf
<1>3. QED
  BY <1>2, SumsAre DEF Inspector!Total

\* A module that passes its checks is charged for all that its fact holds.
LEMMA ModuleCharged ==
  ASSUME NEW m, ModuleTyped(m), budget \in Int, 0 <= budget, NEW identified \in BOOLEAN,
         Inspector!NameCheck(m) = "ok", Inspector!RecordCheck(m) = "ok",
         identified => Inspector!RecordReadable(m),
         NEW fact, fact = Inspector!Fact(m, identified)
  PROVE  /\ FactTyped(fact)
         /\ fact.debugFile > 0 => m.record + fact.debugFile <= dump.size
         /\ m.name # 0 => m.name + 1 + m.length <= dump.size
         /\ Charge(fact) <= 1 + Inspector!NameCharge(m) + Inspector!RecordCharge(m)
         /\ Inspector!NameCharge(m) + Inspector!RecordCharge(m) <= budget
         /\ Inspector!NameCharge(m) \in Nat /\ Inspector!RecordCharge(m) \in Nat
<1> DEFINE read == Inspector!RecordBytes(m)
           nc == Inspector!NameCharge(m)
           rc == Inspector!RecordCharge(m)
<1>1. nc \in Nat /\ rc \in Nat /\ read \in Nat /\ rc = 6 * read
      /\ m.length \in Nat /\ nc = (IF m.name = 0 THEN 0 ELSE 3 * m.length)
  <2>1. nc \in Nat /\ rc \in Nat
    BY ChargesAreNumbers
  <2>2. read \in Nat
    <3>1. m.bytes \in Nat /\ MaxRecord \in Nat
      BY InspectorAssumption DEF ModuleTyped, Inspector!InspectorBounds
    <3>2. {m.bytes, MaxRecord} \in SUBSET Nat /\ {m.bytes, MaxRecord} # {}
      BY <3>1
    <3>3. Inspector!Min({m.bytes, MaxRecord}) \in {m.bytes, MaxRecord}
      BY <3>2, SomeLeast, Zenon
    <3> QED  BY <3>1, <3>3 DEF Inspector!RecordBytes
  <2>3. rc = 6 * read /\ nc = (IF m.name = 0 THEN 0 ELSE 3 * m.length)
    BY DEF Inspector!RecordCharge, Inspector!NameCharge, Inspector!RecordFactor, Inspector!NameFactor
  <2> QED  BY <2>1, <2>2, <2>3 DEF ModuleTyped
<1>2. rc <= budget - nc
  BY DEF Inspector!RecordCheck, Inspector!Require
<1>3. m.name # 0 => m.name + 1 + m.length <= dump.size
  <2> SUFFICES ASSUME m.name # 0 PROVE m.name + 1 + m.length <= dump.size
    OBVIOUS
  <2> DEFINE c1 == Inspector!EnsureRange(dump, m.name, 1)
             c2 == Inspector!Require(m.length <= MaxString, "resource-limit")
             c3 == Inspector!Require(~m.odd, "malformed-stream")
             c4 == Inspector!Require(Inspector!NameCharge(m) <= budget, "resource-limit")
             c5 == Inspector!EnsureRange(dump, m.name + 1, m.length)
             codes == <<c1, c2, c3, c4, c5>>
  <2>1. Inspector!First(codes) = "ok"
    BY DEF Inspector!NameCheck
  <2> HIDE DEF c1, c2, c3, c4, c5
  <2>2. c5 = "ok"
    <3>1. DOMAIN codes = 1..5 /\ codes[5] = c5 /\ 5 \in 1..5
      OBVIOUS
    <3> HIDE DEF codes
    <3> QED  BY <2>1, <3>1, FirstSaysAll
  <2>3. Inspector!Require((m.name + 1) + m.length <= dump.size, "truncated") = "ok"
    BY <2>2, FirstOfTwo DEF Inspector!EnsureRange, c5
  <2> QED  BY <2>3 DEF Inspector!Require
<1>4. /\ fact.name = (IF m.name = 0 THEN 0 ELSE m.length)
      /\ fact.debugFile = (IF identified THEN read ELSE 0)
  BY DEF Inspector!Fact
<1>5. identified => m.record + read <= dump.size
  <2> SUFFICES ASSUME identified PROVE m.record + read <= dump.size
    OBVIOUS
  <2>1. Inspector!EnsureRange(dump, m.record, read) = "ok"
    BY DEF Inspector!RecordReadable
  <2> HIDE DEF read
  <2>2. Inspector!Require(m.record + read <= dump.size, "truncated") = "ok"
    BY <2>1, FirstOfTwo DEF Inspector!EnsureRange
  <2> QED  BY <2>2 DEF Inspector!Require
<1> HIDE DEF read, nc, rc
<1>6. FactTyped(fact)
  BY <1>1, <1>4 DEF FactTyped
<1>7. Charge(fact) = 1 + 3 * fact.name + 6 * fact.debugFile
  BY DEF Charge, Inspector!ModuleCharge, Inspector!NameFactor, Inspector!RecordFactor
<1>8. 3 * fact.name = nc /\ 6 * fact.debugFile <= rc /\ 6 * fact.debugFile \in Nat
  BY <1>1, <1>4
<1>9. Charge(fact) <= 1 + nc + rc
  BY <1>1, <1>7, <1>8
<1>10. nc + rc <= budget
  BY <1>1, <1>2
<1>11. fact.debugFile > 0 => m.record + fact.debugFile <= dump.size
  BY <1>4, <1>5
<1>12. QED
  BY <1>1, <1>3, <1>6, <1>9, <1>10, <1>11 DEF nc, rc

LEMMA ModulesStep ==
  ASSUME WalkInv, ModulesInv, Inspector!InspectNext
  PROVE  ModulesInv'
<1> USE DEF Inspector!Decide
<1> DEFINE sum == Inspector!Total(Charges(modules))
<1>1. dump' = dump
  BY DumpFixed
<1>2. /\ phase \in Walking \cup {"open", "header"} => outcome = "none"
      /\ at \in Nat \ {0} /\ budget \in Int /\ dump.modules.count \in Nat
      /\ sum \in Nat /\ sum <= MaxMetadata /\ MaxMetadata \in Nat
  BY InspectorAssumption DEF WalkInv, WalkFits, FileTyped, ModulesInv, Inspector!InspectorBounds
<1>3. ASSUME modules' = modules, phase' # "module",
             phase' \in BeforeModules => phase \in BeforeModules /\ budget' = budget,
             phase' \in BeforeModules \ {"open", "header", "directory"} => at' = 1,
             outcome' = "ok" => outcome = "ok"
      PROVE  ModulesInv'
  BY <1>1, <1>3 DEF ModulesInv
<1>4. CASE \/ Inspector!Open \/ Inspector!ReadFails \/ Inspector!Header \/ Inspector!Close \/ Inspector!Done
  <2>1. /\ modules' = modules /\ phase' # "module"
        /\ outcome' = "ok" => outcome = "ok"
        /\ phase' \in BeforeModules => phase \in BeforeModules /\ budget' = budget
        /\ phase' \notin BeforeModules \ {"open", "header", "directory"}
    BY <1>4 DEF Inspector!Open, Inspector!ReadFails, Inspector!Header, Inspector!Close, Inspector!Done,
                Inspector!inspectVars, BeforeModules
  <2> QED  BY <1>3, <2>1
<1>5. CASE Inspector!Directory
  <2>1. /\ modules' = modules /\ phase' # "module" /\ phase \in BeforeModules /\ budget' = budget
        /\ outcome' # "ok"
        /\ phase' \in BeforeModules \ {"open", "header", "directory"} => at' = 1
    BY <1>2, <1>5 DEF Inspector!Directory, BeforeModules, Walking
  <2> QED  BY <1>3, <2>1
<1>6. CASE \/ Inspector!MemoryInfo \/ Inspector!MemoryList \/ Inspector!Memory64List
           \/ Inspector!SystemInfo \/ Inspector!Exception
  <2>1. /\ modules' = modules /\ phase' # "module" /\ budget' = budget /\ at' = at /\ outcome' # "ok"
        /\ phase \in BeforeModules \ {"open", "header", "directory"}
    BY <1>2, <1>6 DEF Inspector!MemoryInfo, Inspector!MemoryList, Inspector!Memory64List,
                      Inspector!SystemInfo, Inspector!Exception, BeforeModules, Walking
  <2>2. at = 1 /\ phase \in BeforeModules
    BY <2>1 DEF ModulesInv
  <2> QED  BY <1>3, <2>1, <2>2
<1>7. CASE Inspector!Modules
  <2>1. /\ phase = "modules" /\ UNCHANGED <<at, modules>> /\ outcome = "none"
        /\ \/ /\ phase' = "module" /\ outcome' = outcome
              /\ Inspector!Has(dump, "modules") =>
                   /\ Inspector!ModuleListCheck(dump) = "ok"
                   /\ budget' = budget - dump.modules.count * Inspector!ModuleCharge
           \/ phase' = "close" /\ outcome' # "ok"
    BY <1>2, <1>7 DEF Inspector!Modules, Walking
  <2>2. modules = <<>> /\ budget = MaxMetadata /\ at = 1
    BY <2>1 DEF ModulesInv, BeforeModules
  <2>3. CASE phase' = "close" /\ outcome' # "ok"
    <3>1. "close" \notin BeforeModules
      BY DEF BeforeModules
    <3> QED  BY <1>3, <2>1, <2>3, <3>1
  <2>4. CASE phase' = "module" /\ outcome' = outcome
    <3>1. Inspector!Has(dump, "modules") => dump.modules.count <= MaxMetadata
      <4> SUFFICES ASSUME Inspector!Has(dump, "modules") PROVE dump.modules.count <= MaxMetadata
        OBVIOUS
      <4>1. Inspector!ModuleListCheck(dump) = "ok"
        BY <2>1, <2>4
      <4>2. Inspector!Require(dump.modules.count * Inspector!ModuleCharge <= MaxMetadata, "resource-limit") = "ok"
        BY <4>1, FirstOfTwo DEF Inspector!ModuleListCheck
      <4> QED  BY <1>2, <4>2 DEF Inspector!Require, Inspector!ModuleCharge
    <3>2. Inspector!Has(dump, "modules") => budget' = MaxMetadata - dump.modules.count
      BY <1>2, <2>1, <2>2, <2>4 DEF Inspector!ModuleCharge
    <3>3. sum = 0 /\ Len(modules) = 0
      BY <2>2, NothingCharged
    <3>4. at' = 1 /\ modules' = modules /\ outcome' = "none" /\ phase' = "module"
      BY <2>1, <2>2, <2>4
    <3>5. /\ \E S : modules' \in Seq(S)
          /\ \A i \in DOMAIN modules' : FactHolds(dump, modules'[i], i)
      BY <3>4 DEF ModulesInv
    <3> QED  BY <1>1, <1>2, <3>1, <3>2, <3>3, <3>4, <3>5 DEF ModulesInv, BeforeModules
  <2> QED  BY <2>1, <2>3, <2>4
<1>8. CASE Inspector!Module
  <2> DEFINE m == dump.modules.list[at]
             nc == Inspector!NameCharge(m)
             rc == Inspector!RecordCharge(m)
             code == Inspector!First(<<Inspector!NameCheck(m), Inspector!RecordCheck(m)>>)
  <2>1. /\ phase = "module" /\ Inspector!Has(dump, "modules") /\ at <= dump.modules.count
        /\ at' = at + 1 /\ outcome = "none"
    BY <1>2, <1>8 DEF Inspector!Module, Walking
  <2>2. /\ Len(modules) = at - 1 /\ 0 <= budget
        /\ sum + (dump.modules.count - (at - 1)) + budget <= MaxMetadata
    BY <2>1 DEF ModulesInv
  <2>3. PICK n : FileTyped(dump, n) /\ dump.modules.count <= n /\ n \in Nat
    BY <2>1 DEF WalkInv, WalkFits
  <2>4. ModuleTyped(m)
    BY <1>2, <2>1, <2>3 DEF FileTyped
  <2>5. CASE code # "ok"
    <3>1. phase' = "close" /\ outcome' # "ok" /\ modules' = modules
      BY <1>8, <2>5 DEF Inspector!Module
    <3>2. "close" \notin BeforeModules /\ "close" # "module"
      BY DEF BeforeModules
    <3> QED  BY <1>3, <3>1, <3>2
  <2>6. CASE code = "ok"
    <3>1. Inspector!NameCheck(m) = "ok" /\ Inspector!RecordCheck(m) = "ok"
      BY <2>6, FirstOfTwo, Zenon
    <3>2. phase' = "module" /\ outcome' = outcome /\ budget' = budget - nc - rc
      BY <1>8, <2>6 DEF Inspector!Module
    <3>3. PICK fact : /\ modules' = Append(modules, fact)
                      /\ \/ fact = Inspector!Fact(m, FALSE)
                         \/ fact = Inspector!Fact(m, TRUE) /\ Inspector!RecordReadable(m)
      <4>1. \/ modules' = Append(modules, Inspector!Fact(m, m.rsds /\ Inspector!RecordReadable(m)))
            \/ modules' = Append(modules, Inspector!Fact(m, FALSE))
        BY <1>8, <2>6 DEF Inspector!Module
      <4>2. CASE m.rsds /\ Inspector!RecordReadable(m)
        <5>1. Inspector!Fact(m, m.rsds /\ Inspector!RecordReadable(m)) = Inspector!Fact(m, TRUE)
          BY <4>2 DEF Inspector!Fact
        <5> QED  BY <4>1, <4>2, <5>1
      <4>3. CASE ~(m.rsds /\ Inspector!RecordReadable(m))
        <5>1. Inspector!Fact(m, m.rsds /\ Inspector!RecordReadable(m)) = Inspector!Fact(m, FALSE)
          BY <4>3 DEF Inspector!Fact
        <5> QED  BY <4>1, <5>1
      <4> QED  BY <4>2, <4>3
    <3>4. /\ FactTyped(fact)
          /\ fact.debugFile > 0 => m.record + fact.debugFile <= dump.size
          /\ m.name # 0 => m.name + 1 + m.length <= dump.size
          /\ Charge(fact) <= 1 + nc + rc /\ nc + rc <= budget /\ nc \in Nat /\ rc \in Nat
      <4>1. CASE fact = Inspector!Fact(m, FALSE)
        BY <1>2, <2>2, <2>4, <3>1, <4>1, ModuleCharged
      <4>2. CASE fact = Inspector!Fact(m, TRUE) /\ Inspector!RecordReadable(m)
        BY <1>2, <2>2, <2>4, <3>1, <4>2, ModuleCharged
      <4> QED  BY <3>3, <4>1, <4>2
    <3>5. PICK S : modules \in Seq(S)
      BY DEF ModulesInv
    <3>6. FactHolds(dump, fact, at)
      BY <3>4 DEF FactHolds
    <3>7. \A i \in DOMAIN modules : FactHolds(dump, modules[i], i) /\ FactTyped(modules[i])
      BY DEF ModulesInv, FactHolds
    <3>8. /\ \E T : modules' \in Seq(T)
          /\ Len(modules') = at /\ DOMAIN modules' = 1..at /\ modules'[at] = fact
          /\ DOMAIN modules = 1..(at - 1) /\ \A i \in 1..(at - 1) : modules'[i] = modules[i]
      <4> DEFINE T == S \cup {fact}
      <4>1. modules \in Seq(T) /\ fact \in T /\ Len(modules) = at - 1
        BY <2>2, <3>5
      <4> HIDE DEF T
      <4>2. modules' \in Seq(T) /\ Len(modules') = at /\ modules'[at] = fact
        BY <1>2, <3>3, <4>1
      <4>3. \A i \in 1..(at - 1) : modules'[i] = modules[i]
        BY <1>2, <3>3, <4>1
      <4> QED  BY <4>1, <4>2, <4>3
    <3>9. \A i \in DOMAIN modules' : FactHolds(dump, modules'[i], i)
      <4>1. \A i \in 1..at : i \in 1..(at - 1) \/ i = at
        BY <1>2
      <4> QED  BY <3>6, <3>7, <3>8, <4>1
    <3>10. /\ Inspector!Total(Charges(modules')) = sum + Charge(fact)
           /\ Charge(fact) \in Nat
      <4>1. Inspector!Total(Charges(Append(modules, fact))) = sum + Charge(fact)
        BY <3>4, <3>5, <3>7, ChargesOfMore
      <4> QED  BY <3>3, <3>4, <4>1, ChargeIsNumber
    <3>11. /\ 0 <= budget' /\ at' \in Nat /\ at' <= dump.modules.count + 1
           /\ Inspector!Total(Charges(modules')) \in Nat /\ Inspector!Total(Charges(modules')) <= MaxMetadata
           /\ Inspector!Total(Charges(modules')) + (dump.modules.count - (at' - 1)) + budget' <= MaxMetadata
      <4> DEFINE c == Charge(fact)
                 more == Inspector!Total(Charges(modules'))
                 count == dump.modules.count
      <4>1. /\ c \in Nat /\ c <= 1 + nc + rc /\ nc \in Nat /\ rc \in Nat /\ nc + rc <= budget
            /\ more = sum + c /\ sum \in Nat /\ sum <= MaxMetadata /\ MaxMetadata \in Nat
            /\ at \in Nat \ {0} /\ at' = at + 1 /\ at <= count /\ count \in Nat
            /\ budget \in Int /\ 0 <= budget /\ budget' = budget - nc - rc
            /\ sum + (count - (at - 1)) + budget <= MaxMetadata
        BY <1>2, <2>1, <2>2, <3>2, <3>4, <3>10
      <4> HIDE DEF sum, m, nc, rc, c, more, count
      <4>2. budget' \in Int /\ 0 <= budget' /\ at' \in Nat /\ at' <= count + 1 /\ more \in Nat
        BY <4>1
      <4>3. more + (count - at) + (budget - nc - rc) <= MaxMetadata
        BY <4>1
      <4>4. more + (count - (at' - 1)) + budget' <= MaxMetadata
        BY <4>1, <4>3
      <4>5. more <= MaxMetadata
        BY <4>1, <4>2, <4>3
      <4> QED  BY <4>2, <4>4, <4>5 DEF more, count
    <3>12. Len(modules') = at' - 1
      BY <1>2, <2>1, <3>8
    <3>13. phase' = "module" /\ outcome' = "none"
      BY <2>1, <3>2
    <3> HIDE DEF sum, m, nc, rc, code
    <3> QED  BY <1>1, <3>8, <3>9, <3>11, <3>12, <3>13 DEF ModulesInv, BeforeModules
  <2> QED  BY <2>5, <2>6
<1>9. CASE Inspector!Accept
  <2>1. /\ phase = "module" /\ phase' = "close" /\ UNCHANGED <<modules, at, budget>>
        /\ Inspector!Has(dump, "modules") => at > dump.modules.count
    BY <1>9 DEF Inspector!Accept
  <2>2. Inspector!Has(dump, "modules") => Len(modules) = dump.modules.count
    BY <1>2, <2>1 DEF ModulesInv
  <2> QED  BY <1>1, <2>1, <2>2 DEF ModulesInv, BeforeModules
<1>10. QED
  BY <1>4, <1>5, <1>6, <1>7, <1>8, <1>9 DEF Inspector!InspectNext

\* The verdicts on any sound dump.
Readable == {"ok", "resource-limit", "io-error", "truncated"}

\* A sound dump is refused for want of budget, or after a failed read.
SoundInv ==
  dumpDamage = "none" /\ phase \in {"close", "done"} =>
    outcome \in Readable /\ (readFaults = 0 => outcome \in Spent)

LEMMA SoundStep ==
  ASSUME Given, WalkInv, ListsInv, SoundInv, Inspector!InspectNext
  PROVE  SoundInv'
<1> USE DEF Inspector!Decide
<1> SUFFICES ASSUME dumpDamage' = "none", phase' \in {"close", "done"}
             PROVE  outcome' \in Readable /\ (readFaults' = 0 => outcome' \in Spent)
  BY DEF SoundInv, Readable, Spent
<1>1. dumpDamage = "none"
  BY DumpFixed
<1>2. PICK n : FileTyped(dump, n)
  BY GivenFacts
<1>3. LaidOut(dump) /\ StreamsTyped(dump)
  BY <1>1, GivenFacts
<1>4. ChecksPass(dump)
  BY <1>2, <1>3, SoundChecks, Zenon
<1>5. Spent \subseteq Readable
  BY DEF Spent, Readable
<1>6. readFaults \in Nat /\ at \in Nat \ {0} /\ dump.streams = 6
  BY <1>3 DEF WalkInv, LaidOut, LaidOutHeader
<1>7. CASE Inspector!Open
  BY <1>6, <1>7 DEF Inspector!Open, Readable
<1>8. CASE Inspector!ReadFails
  BY <1>6, <1>8 DEF Inspector!ReadFails, Readable
<1>9. CASE Inspector!Header
  BY <1>4, <1>9 DEF Inspector!Header, ChecksPass
<1>10. CASE Inspector!Directory
  <2>1. at <= 6 => Inspector!EntryCheck(dump, at) = "ok"
    <3>1. at <= 6 => at \in 1..6
      BY <1>6
    <3> QED  BY <1>4, <3>1 DEF ChecksPass
  <2> QED  BY <1>6, <1>10, <2>1 DEF Inspector!Directory
<1>11. CASE Inspector!MemoryInfo \/ Inspector!MemoryList \/ Inspector!SystemInfo \/ Inspector!Exception
  BY <1>4, <1>11 DEF Inspector!MemoryInfo, Inspector!MemoryList, Inspector!SystemInfo,
                     Inspector!Exception, ChecksPass
<1>12. CASE Inspector!Memory64List
  <2>1. Inspector!Has(dump, "memoryList") /\ Inspector!Has(dump, "memory64")
    BY <1>2, <1>3, EachFound DEF Found, LaidOut, LaidOutHeader
  <2>2. captured = Inspector!Declared(dump.list)
    BY <1>12, <2>1 DEF Inspector!Memory64List, ListsInv, InList
  <2>3. Inspector!First(<<Inspector!Memory64Check(dump),
                          Inspector!CheckedAdd(captured, Inspector!Declared(dump.list64))>>) = "ok"
    BY <1>4, <2>2, FirstOfTwo DEF ChecksPass
  <2> QED  BY <1>12, <2>1, <2>3 DEF Inspector!Memory64List
<1>13. CASE Inspector!Modules
  <2>1. Inspector!ModuleListCheck(dump) \in Spent
    BY <1>4 DEF ChecksPass
  <2> QED  BY <1>5, <1>13, <2>1 DEF Inspector!Modules
<1>14. CASE Inspector!Module
  <2>1. at \in 1..dump.modules.count
    <3>1. dump.modules.count \in Nat /\ at <= dump.modules.count
      BY <1>3, <1>14 DEF Inspector!Module, LaidOut, LaidOutModules
    <3> QED  BY <1>6, <3>1
  <2> DEFINE code == Inspector!First(<<Inspector!NameCheck(dump.modules.list[at]),
                                       Inspector!RecordCheck(dump.modules.list[at])>>)
  <2>2. code \in Spent
    BY <1>3, <2>1, SoundName
  <2>3. outcome' = code
    BY <1>14 DEF Inspector!Module
  <2> QED  BY <1>5, <2>2, <2>3
<1>15. CASE Inspector!Accept
  BY <1>15 DEF Inspector!Accept, Readable, Spent
<1>16. CASE Inspector!Close
  BY <1>1, <1>6, <1>16 DEF Inspector!Close, SoundInv, Readable
<1>17. CASE Inspector!Done
  BY <1>1, <1>17 DEF Inspector!Done, Inspector!inspectVars, SoundInv
<1>18. QED
  BY <1>7, <1>8, <1>9, <1>10, <1>11, <1>12, <1>13, <1>14, <1>15, <1>16, <1>17 DEF Inspector!InspectNext

-----------------------------------------------------------------------------
(* The inspector: its verdict.                                             *)

\* What the verdict rests on.
VerdictInv == Given /\ WalkInv /\ ListsInv /\ ModulesInv /\ SoundInv

LEMMA VerdictStarts == Inspector!InspectInit => VerdictInv
<1> SUFFICES ASSUME Inspector!InspectInit PROVE VerdictInv
  OBVIOUS
<1>1. /\ phase = "open" /\ at = 1 /\ budget = MaxMetadata /\ captured = 0 /\ modules = <<>>
      /\ outcome = "none" /\ readFaults = 0
  BY DEF Inspector!InspectInit
<1>2. Given
  BY Zenon DEF Inspector!InspectInit, Given
<1>3. ListsInv /\ SoundInv
  BY <1>1 DEF ListsInv, SoundInv, PastLists
<1>4. ModulesInv
  <2>1. MaxMetadata \in Nat
    BY InspectorAssumption, Zenon DEF Inspector!InspectorBounds
  <2>2. modules \in Seq({}) /\ DOMAIN modules = {}
    BY <1>1
  <2>3. Inspector!Total(Charges(modules)) = 0
    BY <1>1, NothingCharged
  <2> QED  BY <1>1, <2>1, <2>2, <2>3 DEF ModulesInv, BeforeModules
<1>5. QED
  BY <1>2, <1>3, <1>4, WalkStarts DEF VerdictInv

LEMMA VerdictStep ==
  ASSUME VerdictInv, [Inspector!InspectNext]_(Inspector!inspectVars)
  PROVE  VerdictInv'
<1>1. CASE Inspector!InspectNext
  BY <1>1, DumpFixed, GivenKept, WalkStep, ListsStep, ModulesStep, SoundStep DEF VerdictInv
<1>2. CASE UNCHANGED Inspector!inspectVars
  <2>1. UNCHANGED <<dump, dumpDamage, phase, at, budget, captured, modules, outcome, readFaults>>
    BY <1>2 DEF Inspector!inspectVars
  <2>2. WalkInv'
    <3>1. WalkFits' /\ \A i : FirstOfType(i) => FirstOfType(i)'
      BY <2>1, WalkFitsKept, FirstOfTypeKept DEF VerdictInv, WalkInv
    <3> QED  BY <2>1, <3>1 DEF VerdictInv, WalkInv
  <2>3. Given' /\ SoundInv'
    BY <2>1, GivenKept DEF VerdictInv, SoundInv
  <2>4. ListsInv'
    BY <2>1 DEF VerdictInv, ListsInv
  <2>5. ModulesInv'
    BY <2>1 DEF VerdictInv, ModulesInv
  <2> QED  BY <2>2, <2>3, <2>4, <2>5 DEF VerdictInv
<1>3. QED
  BY <1>1, <1>2

LEMMA OneStreamOf == WalkInv => Inspector!OneStreamPerFact
<1> SUFFICES ASSUME WalkInv, outcome = "ok",
                    NEW i \in DOMAIN Inspector!Entries(dump), NEW j \in DOMAIN Inspector!Entries(dump),
                    Inspector!Entries(dump)[i].type = Inspector!Entries(dump)[j].type,
                    Inspector!Entries(dump)[i].type \in Inspector!Critical
             PROVE  i = j
  BY DEF Inspector!OneStreamPerFact
<1>1. PICK n \in Nat : FileTyped(dump, n)
  BY DEF WalkInv, WalkFits
<1>2. dump.streams \in 0..6 /\ \A k \in 1..dump.streams : FirstOfType(k)
  BY <1>1 DEF WalkInv, FileTyped
<1>3. /\ i \in 1..dump.streams /\ j \in 1..dump.streams
      /\ dump.entries[i].type = dump.entries[j].type /\ dump.entries[i].type \in Inspector!Critical
  BY <1>1, <1>2, EntriesDeclared
<1>4. ~(i < j) /\ ~(j < i)
  BY <1>2, <1>3 DEF FirstOfType
<1>5. QED
  BY <1>2, <1>3, <1>4

\* Each part of the promise, from the invariant.
LEMMA HeldInFile == VerdictInv => Inspector!CapturedMemoryInFile
<1> SUFFICES ASSUME VerdictInv, outcome = "ok" PROVE Inspector!CapturedMemoryInFile
  BY DEF Inspector!CapturedMemoryInFile
<1>1. StreamsTyped(dump) /\ dump.streams <= 6 /\ ListOK(dump) /\ List64OK(dump)
  BY GivenFacts DEF VerdictInv, WalkInv, ListsInv
<1>2. PICK n \in Nat : FileTyped(dump, n)
  BY GivenFacts DEF VerdictInv
<1>3. QED
  BY <1>1, <1>2, ListAccepted, List64Accepted DEF ListOK, List64OK, Inspector!CapturedMemoryInFile

\* A file without its end still declares what the whole file did.
LEMMA TrimmedFields ==
  ASSUME NEW f, LaidOut(f), LaidOutFields(f), NEW g, Trimmed(f, g), NEW n, FileTyped(g, n)
  PROVE  /\ Inspector!Has(g, "memory64") /\ Inspector!Has(g, "modules")
         /\ DOMAIN g.modules.list = 1..g.modules.count
         /\ \A i \in 1..g.modules.count : g.modules.list[i].name # 0
<1>1. /\ g.entries = f.entries /\ g.streams = f.streams /\ g.modules = f.modules
  BY DEF Trimmed, LaidOutFields, Rest
<1>2. g.streams = 6 /\ g.streams <= 6
  BY <1>1 DEF LaidOut, LaidOutHeader
<1>3. /\ DOMAIN Inspector!Entries(g) = 1..g.streams
      /\ \A j \in 1..g.streams : Inspector!Entries(g)[j] = g.entries[j]
  BY <1>2, EntriesDeclared, Zenon
<1>4. g.entries[3].type = "memory64" /\ g.entries[6].type = "modules"
  BY <1>1 DEF LaidOut, LaidOutEntries
<1>5. Inspector!Has(g, "memory64") /\ Inspector!Has(g, "modules")
  <2>1. 3 \in 1..g.streams /\ 6 \in 1..g.streams
    BY <1>2
  <2> QED  BY <1>3, <1>4, <2>1 DEF Inspector!Has
<1>6. QED
  BY <1>1, <1>5 DEF LaidOut, LaidOutModules

LEMMA IdentitiesOnly == VerdictInv => Inspector!CutLosesIdentitiesOnly
<1> SUFFICES ASSUME VerdictInv, outcome = "ok", dumpDamage = "cut"
             PROVE  Inspector!CutLosesIdentitiesOnly
  BY DEF Inspector!CutLosesIdentitiesOnly
<1>1. StreamsTyped(dump) /\ dump.streams <= 6 /\ List64OK(dump)
  BY GivenFacts DEF VerdictInv, WalkInv, ListsInv
<1>2. PICK n \in Nat : FileTyped(dump, n)
  BY GivenFacts DEF VerdictInv
<1>3. PICK f : LaidOut(f) /\ LaidOutFields(f) /\ Trimmed(f, dump)
  BY GivenFacts DEF VerdictInv
<1>4. /\ Inspector!Has(dump, "memory64") /\ Inspector!Has(dump, "modules")
      /\ DOMAIN dump.modules.list = 1..dump.modules.count
      /\ \A i \in 1..dump.modules.count : dump.modules.list[i].name # 0
  BY <1>2, <1>3, TrimmedFields
<1>5. dump.list64.base + Inspector!Declared(dump.list64) <= dump.size
  BY <1>1, <1>2, <1>4, List64Accepted DEF List64OK
<1>6. PICK S : modules \in Seq(S)
  BY DEF VerdictInv, ModulesInv
<1>7. DOMAIN modules = 1..dump.modules.count
  <2>1. Len(modules) = dump.modules.count
    BY <1>4 DEF VerdictInv, ModulesInv
  <2> QED  BY <1>6, <2>1
<1>8. \A i \in DOMAIN modules : FactHolds(dump, modules[i], i)
  BY DEF VerdictInv, ModulesInv
<1>9. \A i \in DOMAIN dump.modules.list :
        dump.size >= dump.modules.list[i].name + 1 + dump.modules.list[i].length
  BY <1>4, <1>7, <1>8 DEF FactHolds
<1>10. \A i \in DOMAIN modules :
         modules[i].debugFile > 0 => dump.modules.list[i].record + modules[i].debugFile <= dump.size
  BY <1>8 DEF FactHolds
<1>11. QED
  BY <1>5, <1>9, <1>10 DEF Inspector!CutLosesIdentitiesOnly

LEMMA SoundAccepted == VerdictInv => Inspector!SoundDumpAccepted
<1> SUFFICES ASSUME VerdictInv, phase = "done", dumpDamage = "none"
             PROVE  Inspector!SoundDumpAccepted
  BY DEF Inspector!SoundDumpAccepted
<1>1. outcome \in Readable /\ (readFaults = 0 => outcome \in Spent)
  BY DEF VerdictInv, SoundInv
<1>2. outcome = "ok" => captured = Inspector!Declared(dump.list) + Inspector!Declared(dump.list64)
  <2>1. PICK n : FileTyped(dump, n)
    BY GivenFacts DEF VerdictInv
  <2>2. Inspector!Has(dump, "memoryList") /\ Inspector!Has(dump, "memory64")
    BY <2>1, GivenFacts, EachFound DEF VerdictInv, Found, LaidOut, LaidOutHeader
  <2> QED  BY <2>2 DEF VerdictInv, ListsInv, InList, InList64
<1>3. QED
  BY <1>1, <1>2 DEF Inspector!SoundDumpAccepted, Readable, Spent

LEMMA WithinBudget == VerdictInv => Inspector!OutputWithinBudget
BY DEF VerdictInv, ModulesInv, Charges, Charge, Inspector!OutputWithinBudget

-----------------------------------------------------------------------------
(* The theorems on the files that clients bring.                           *)

\* Every walk of the inspector, over a sound, cut or damaged dump, keeps the
\* walk's invariant: no step looks past the entries and modules in the file.
THEOREM InspectionInvariant == Inspector!InspectSpec => []WalkInv
<1>1. WalkInv /\ [Inspector!InspectNext]_(Inspector!inspectVars) => WalkInv'
  <2> SUFFICES ASSUME WalkInv, UNCHANGED Inspector!inspectVars PROVE WalkInv'
    BY WalkStep
  <2>1. UNCHANGED <<dump, phase, at, budget, outcome, readFaults>>
    BY DEF Inspector!inspectVars
  <2>2. WalkFits' /\ \A i : FirstOfType(i) => FirstOfType(i)'
    BY <2>1, WalkFitsKept, FirstOfTypeKept DEF WalkInv
  <2> QED  BY <2>1, <2>2 DEF WalkInv
<1>2. QED
  BY WalkStarts, <1>1, PTL DEF Inspector!InspectSpec

\* One stream of a type decides a fact: no accepted dump declares two of a
\* critical type (inspectDirectory).
THEOREM OneStream == Inspector!InspectSpec => []Inspector!OneStreamPerFact
BY OneStreamOf, InspectionInvariant, PTL

\* Whatever the file, an accepted dump holds its captured memory, keeps its output
\* within the budget, loses to a cut nothing but identities, and has one stream for
\* each fact; a sound dump is refused only for the budget or a failed read
\* (inspectMinidump).
THEOREM VerdictSound == Inspector!InspectSpec => []VerdictIsSound
<1>1. VerdictInv => VerdictIsSound
  BY HeldInFile, WithinBudget, IdentitiesOnly, SoundAccepted, OneStreamOf
  DEF VerdictInv, VerdictIsSound, Inspector!VerdictIsSound
<1>2. VerdictInv /\ [Inspector!InspectNext]_(Inspector!inspectVars) => VerdictInv'
  BY VerdictStep
<1>3. QED
  BY VerdictStarts, <1>1, <1>2, PTL DEF Inspector!InspectSpec

\* No step of either replaces bytes that are served under an identity, or lets
\* an unreadable CodeView record cost more than its module's identity
\* (sealSymbolArtifact, inspectModules).
THEOREM StepsContained == SymbolSpec /\ Inspector!InspectSpec => StepsAreContained
<1>1. StoreInv /\ WalkInv /\ [SymbolNext]_symbolVars /\ [Inspector!InspectNext]_(Inspector!inspectVars)
      => [ServedKept /\ Inspector!NotTheRecord]_<<symbolVars, dumpVars>>
  BY ServedStep, RecordContained
<1>2. QED
  BY <1>1, StoreInvariant, InspectionInvariant, PTL DEF SymbolSpec, Inspector!InspectSpec, StepsAreContained
=============================================================================
