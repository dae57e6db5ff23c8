--------------------------- MODULE UploadPageProofs ---------------------------
(***************************************************************************)
(* Proofs about UploadPage, for any number of slots and any number of      *)
(* files.                                                                  *)
(***************************************************************************)
EXTENDS UploadPage, WellFoundedInduction, TLAPS

Outcomes == {"none", "received", "grant_unavailable", "grant_slots_exhausted", "upload_too_large", "uncertain"}
Entry == [status : {"queued", "uploading", "done", "failed"}, outcome : Outcomes]
Answers == {"none", "success", "retryable", "grant_unavailable", "grant_slots_exhausted",
            "upload_too_large", "internal_error", "aborted", "connection"}
Chosen == 1..Len(entries)

PageTypeOK ==
  /\ link \in [used : 0..MaxUploads, open : BOOLEAN]
  /\ server \in [Files -> [begun : Nat, sealed : Nat]]
  /\ quota \in [kind : {"loading", "ready", "unavailable"}, room : 0..MaxUploads]
  /\ asking \in BOOLEAN
  /\ entries \in Seq(Entry) /\ Len(entries) <= MaxFiles
  /\ queue \subseteq Chosen
  /\ xhr \in [at : {"none", "sent", "receiving", "over"}, answer : Answers]

\* A file that may still be sent.
Open(f) == entries[f].status \in {"queued", "uploading"}

\* The quota is asked for before anything is sent, and a file is under way
\* exactly while a batch runs.
PageShape ==
  /\ quota.kind = "ready" => ~asking /\ Len(entries) <= quota.room
  /\ phase = "uploading" <=> queue # {}
  /\ xhr.at # "none" <=> queue # {}
  /\ queue # {} => quota.kind = "ready"
  /\ \A f \in Files :
       quota.kind # "ready" \/ f \notin Chosen => server[f].begun = 0 /\ server[f].sealed = 0

\* What the page has noted of a file, against what the server did with it.
FileSound(f) ==
  /\ server[f].sealed <= 1 /\ server[f].sealed <= server[f].begun
  /\ f \in queue => Open(f)
  /\ entries[f].status = "uploading" <=> queue # {} /\ f = First(queue)
  /\ Open(f) => entries[f].outcome = "none"
  /\ entries[f].status = "queued" => server[f].sealed = 0 /\ (queue # {} => f \in queue)
  /\ entries[f].status = "done" => server[f].sealed = 1
  /\ entries[f].status = "failed" =>
       /\ entries[f].outcome # "received"
       /\ entries[f].outcome = "none" => server[f].begun = 0
       /\ entries[f].outcome # "uncertain" => server[f].sealed = 0

\* The answer on its way, against what the server did.
RequestSound ==
  queue # {} =>
    /\ xhr.at \in {"sent", "receiving"} => server[First(queue)].sealed = 0
    /\ xhr.at = "receiving" => server[First(queue)].begun > 0
    /\ xhr.at = "over" =>
         /\ xhr.answer = "success" => server[First(queue)].sealed = 1
         /\ xhr.answer \in {"retryable", "grant_unavailable", "grant_slots_exhausted", "upload_too_large"}
              => server[First(queue)].sealed = 0

\* A file put back after a retryable answer may have begun; it is the first of
\* those that may still be sent, so that it is never marked as not attempted.
OnlyFirstBegun ==
  \A f, g \in Chosen : f < g /\ Open(f) /\ Open(g) => server[g].begun = 0

UploadInv ==
  PageTypeOK /\ PageShape /\ (\A f \in Chosen : FileSound(f)) /\ RequestSound /\ OnlyFirstBegun

-----------------------------------------------------------------------------
(* The order of the queue, and lists of entries.                           *)

\* The least-number principle, in terms of a set.
LEMMA LeastNumber ==
  ASSUME NEW S \in SUBSET Nat, S # {}
  PROVE  \E n \in S : \A k \in S : n <= k
<1> DEFINE R == {ss \in Nat \X Nat : ss[1] < ss[2]}
<1>1. IsWellFoundedOn(R, Nat)
  BY NatLessThanWellFounded DEF OpToRel
<1>2. PICK n \in S : \A k \in S : ~(<<k, n>> \in R)
  <2> HIDE DEF R
  <2> QED  BY <1>1, WFMin
<1>3. \A k \in S : ~(k < n)
  BY <1>2
<1>4. QED
  BY <1>3

LEMMA FirstIsLeast ==
  ASSUME NEW S \in SUBSET Nat, S # {}
  PROVE  First(S) \in S /\ \A k \in S : First(S) <= k
<1>1. \E n \in S : \A k \in S : n <= k
  BY LeastNumber
<1>2. QED
  BY <1>1, Zenon DEF First, Min

LEMMA StatusInEntry ==
  ASSUME NEW e \in Entry, NEW x \in {"queued", "uploading", "done", "failed"}
  PROVE  [e EXCEPT !.status = x] \in Entry
BY DEF Entry

\* A list with one entry replaced.
LEMMA ReplaceEntry ==
  ASSUME NEW s \in Seq(Entry), NEW f \in 1..Len(s), NEW e \in Entry
  PROVE  /\ [s EXCEPT ![f] = e] \in Seq(Entry)
         /\ Len([s EXCEPT ![f] = e]) = Len(s)
         /\ [s EXCEPT ![f] = e][f] = e
         /\ \A g \in 1..Len(s) : g # f => [s EXCEPT ![f] = e][g] = s[g]
  OBVIOUS

LEMMA SetStatus ==
  ASSUME NEW s \in Seq(Entry), NEW f \in 1..Len(s),
         NEW x \in {"queued", "uploading", "done", "failed"}
  PROVE  /\ [s EXCEPT ![f].status = x] \in Seq(Entry)
         /\ Len([s EXCEPT ![f].status = x]) = Len(s)
         /\ [s EXCEPT ![f].status = x][f] = [s[f] EXCEPT !.status = x]
         /\ \A g \in 1..Len(s) : g # f => [s EXCEPT ![f].status = x][g] = s[g]
<1>1. [s[f] EXCEPT !.status = x] \in Entry
  <2>1. s[f] \in Entry
    OBVIOUS
  <2> QED  BY <2>1, StatusInEntry
<1>2. [s EXCEPT ![f].status = x] = [s EXCEPT ![f] = [s[f] EXCEPT !.status = x]]
  OBVIOUS
<1>3. QED
  BY <1>1, <1>2, ReplaceEntry

\* The list that markRemainingNotAttempted leaves.
LEMMA RemainingMarked ==
  ASSUME NEW s \in Seq(Entry), NEW f
  PROVE  /\ NotAttempted(s, f) \in Seq(Entry) /\ Len(NotAttempted(s, f)) = Len(s)
         /\ \A g \in 1..Len(s) :
              NotAttempted(s, f)[g] =
                IF s[g].status = "queued" THEN [s[g] EXCEPT !.status = "failed"] ELSE s[g]
<1>1. DOMAIN s = 1..Len(s) /\ Len(s) \in Nat
  OBVIOUS
<1>2. \A g \in 1..Len(s) : s[g] \in Entry /\ [s[g] EXCEPT !.status = "failed"] \in Entry
  <2>1. \A g \in 1..Len(s) : s[g] \in Entry
    OBVIOUS
  <2> QED  BY <2>1, StatusInEntry
<1> DEFINE r == NotAttempted(s, f)
<1>3. /\ DOMAIN r = 1..Len(s)
      /\ \A g \in 1..Len(s) :
           r[g] = IF s[g].status = "queued" THEN [s[g] EXCEPT !.status = "failed"] ELSE s[g]
  BY <1>1 DEF NotAttempted
<1>4. r \in [1..Len(s) -> Entry]
  <2>1. r = [g \in 1..Len(s) |-> r[g]]
    BY <1>1 DEF NotAttempted
  <2> QED  BY <1>2, <1>3, <2>1
<1>5. r \in Seq(Entry) /\ Len(r) = Len(s)
  <2> HIDE DEF r
  <2> QED  BY <1>1, <1>4
<1>6. QED
  BY <1>3, <1>5

\* What a file of the queue is.
LEMMA Current ==
  ASSUME UploadInv, queue # {}
  PROVE  /\ First(queue) \in queue /\ First(queue) \in Chosen /\ First(queue) \in Files
         /\ \A g \in queue : First(queue) <= g
         /\ Len(entries) \in Nat /\ MaxFiles \in Nat /\ Chosen \subseteq Files
<1>1. Len(entries) \in Nat /\ MaxFiles \in Nat /\ Chosen \subseteq Files
  BY PageBounds DEF UploadInv, PageTypeOK, Chosen, Files
<1>2. queue \in SUBSET Nat
  BY <1>1 DEF UploadInv, PageTypeOK, Chosen
<1>3. QED
  BY <1>1, <1>2, FirstIsLeast DEF UploadInv, PageTypeOK

-----------------------------------------------------------------------------
(* The server's turn.                                                      *)

\* A turn of the server changes at most the file under way, which the page shows
\* as uploading whatever happens to it.
LEMMA ServerStep ==
  ASSUME UploadInv, queue # {}, ServerTurn,
         link' \in [used : 0..MaxUploads, open : BOOLEAN],
         server' \in [Files -> [begun : Nat, sealed : Nat]],
         xhr' \in [at : {"sent", "receiving", "over"}, answer : Answers],
         \A g \in Files : g # First(queue) => server'[g] = server[g],
         server'[First(queue)].sealed <= 1,
         server'[First(queue)].sealed <= server'[First(queue)].begun,
         RequestSound'
  PROVE  UploadInv'
<1> DEFINE c == First(queue)
<1>1. /\ c \in queue /\ c \in Chosen /\ c \in Files /\ \A g \in queue : c <= g
      /\ Len(entries) \in Nat /\ MaxFiles \in Nat /\ Chosen \subseteq Files
  BY Current
<1>2. entries' = entries /\ queue' = queue /\ Chosen' = Chosen /\ First(queue)' = c
      /\ quota' = quota /\ asking' = asking /\ phase' = phase
  BY DEF ServerTurn, Chosen
<1>3. \A f \in Chosen : Open(f)' <=> Open(f)
  BY <1>2 DEF Open
<1> HIDE DEF c
<1>4. PageTypeOK'
  BY <1>2 DEF UploadInv, PageTypeOK
<1>5. PageShape'
  BY <1>1, <1>2 DEF UploadInv, PageShape, c
<1>6. ASSUME NEW f \in Chosen PROVE FileSound(f)'
  <2>1. FileSound(f) /\ f \in Files
    BY <1>1 DEF UploadInv
  <2>2. CASE f = c
    <3>1. entries[c].status = "uploading"
      BY <2>1, <2>2 DEF FileSound, c
    <3>2. QED
      BY <1>1, <1>2, <1>3, <2>1, <2>2, <3>1 DEF FileSound, c
  <2>3. CASE f # c
    <3>1. server'[f] = server[f]
      BY <2>1, <2>3 DEF c
    <3>2. QED
      BY <1>2, <1>3, <2>1, <2>3, <3>1 DEF FileSound
  <2>4. QED
    BY <2>2, <2>3
<1>7. OnlyFirstBegun'
  <2>1. ASSUME NEW f \in Chosen, NEW g \in Chosen, f < g, Open(f), Open(g)
        PROVE  server'[g].begun = 0
    <3>1. FileSound(f) /\ server[g].begun = 0 /\ g \in Files
      BY <1>1, <2>1 DEF UploadInv, OnlyFirstBegun
    <3>2. c <= f
      BY <1>1, <2>1, <3>1 DEF FileSound, Open, c, Chosen
    <3>3. g # c
      BY <1>1, <2>1, <3>2 DEF Chosen
    <3>4. QED
      BY <3>1, <3>3 DEF c
  <2>2. QED
    BY <1>2, <1>3, <2>1 DEF OnlyFirstBegun
<1>8. QED
  BY <1>2, <1>4, <1>5, <1>6, <1>7 DEF UploadInv

LEMMA ReplyTyped ==
  ASSUME NEW code \in Answers, Reply(code)
  PROVE  xhr' \in [at : {"sent", "receiving", "over"}, answer : Answers]
         /\ xhr'.at = "over" /\ xhr'.answer = code
BY DEF Reply

\* The link with one more slot used.
LEMMA SlotUsed ==
  ASSUME PageTypeOK, link.used < MaxUploads
  PROVE  [link EXCEPT !.used = @ + 1] \in [used : 0..MaxUploads, open : BOOLEAN]
<1>1. link.used \in 0..MaxUploads
  BY DEF PageTypeOK
<1>2. link.used + 1 \in 0..MaxUploads
  BY <1>1, PageBounds
<1>3. link \in [used : 0..MaxUploads, open : BOOLEAN]
  BY DEF PageTypeOK
<1>4. QED
  BY <1>2, <1>3, Zenon

\* What the invariant says of the file under way.
LEMMA UnderWay ==
  ASSUME UploadInv, xhr.at # "none"
  PROVE  /\ queue # {} /\ First(queue) \in Files
         /\ server[First(queue)].sealed \in Nat /\ server[First(queue)].begun \in Nat
         /\ server[First(queue)].sealed <= 1
         /\ server[First(queue)].sealed <= server[First(queue)].begun
<1>1. queue # {}
  BY DEF UploadInv, PageShape
<1>2. First(queue) \in Chosen /\ First(queue) \in Files
  BY <1>1, Current
<1>3. FileSound(First(queue))
  BY <1>2 DEF UploadInv
<1>4. server[First(queue)] \in [begun : Nat, sealed : Nat]
  BY <1>2 DEF UploadInv, PageTypeOK
<1>5. QED
  BY <1>1, <1>2, <1>3, <1>4 DEF FileSound

\* A reply that leaves the tables alone is sound when it does not contradict them.
LEMMA ReplyStep ==
  ASSUME UploadInv, xhr.at # "none", NEW code \in Answers, Reply(code),
         UNCHANGED <<link, server>>, ServerTurn,
         code = "success" => server[First(queue)].sealed = 1,
         code \in {"retryable", "grant_unavailable", "grant_slots_exhausted", "upload_too_large"}
           => server[First(queue)].sealed = 0
  PROVE  UploadInv'
<1>1. /\ queue # {} /\ First(queue) \in Files
      /\ server[First(queue)].sealed <= 1
      /\ server[First(queue)].sealed <= server[First(queue)].begun
  BY UnderWay
<1>2. /\ xhr' \in [at : {"sent", "receiving", "over"}, answer : Answers]
      /\ xhr'.at = "over" /\ xhr'.answer = code
  BY ReplyTyped
<1>3. queue' = queue /\ First(queue)' = First(queue)
  BY DEF ServerTurn
<1>4. RequestSound'
  BY <1>2, <1>3 DEF RequestSound
<1>5. link' \in [used : 0..MaxUploads, open : BOOLEAN] /\ server' \in [Files -> [begun : Nat, sealed : Nat]]
  BY DEF UploadInv, PageTypeOK
<1>6. QED
  BY <1>1, <1>2, <1>4, <1>5, ServerStep

LEMMA BusyStep ==
  ASSUME UploadInv, Busy
  PROVE  UploadInv'
<1>1. server[First(queue)].sealed = 0
  BY UnderWay DEF Busy, UploadInv, RequestSound
<1>2. QED
  BY <1>1, ReplyStep DEF Busy, Answers

LEMMA LoseStep ==
  ASSUME UploadInv, NEW code \in {"aborted", "connection"}, Lose(code)
  PROVE  UploadInv'
BY ReplyStep DEF Lose, Answers

LEMMA BeginStep ==
  ASSUME UploadInv, Begin
  PROVE  UploadInv'
<1> DEFINE c == First(queue)
<1>1. /\ queue # {} /\ c \in Files /\ server[c].sealed \in Nat /\ server[c].begun \in Nat
      /\ server[c].sealed <= 1 /\ server[c].sealed <= server[c].begun
  BY UnderWay DEF Begin
<1>2. server[c].sealed = 0
  BY <1>1 DEF Begin, UploadInv, RequestSound
<1>3. CASE /\ link.used < MaxUploads
           /\ link' = [link EXCEPT !.used = @ + 1]
           /\ server' = [server EXCEPT ![c].begun = @ + 1]
           /\ xhr' = [xhr EXCEPT !.at = "receiving"]
  <2>1. server[c] \in [begun : Nat, sealed : Nat]
    BY <1>1 DEF UploadInv, PageTypeOK
  <2>2. /\ server'[c].begun = server[c].begun + 1 /\ server'[c].sealed = 0
        /\ \A g \in Files : g # c => server'[g] = server[g]
    BY <1>1, <1>2, <1>3, <2>1 DEF UploadInv, PageTypeOK
  <2>3. server' \in [Files -> [begun : Nat, sealed : Nat]]
    <3>1. [server[c] EXCEPT !.begun = @ + 1] \in [begun : Nat, sealed : Nat]
      BY <2>1
    <3>2. server' = [server EXCEPT ![c] = [server[c] EXCEPT !.begun = @ + 1]]
      BY <1>1, <1>3, <2>1 DEF UploadInv, PageTypeOK
    <3>3. QED
      BY <3>1, <3>2, <1>1 DEF UploadInv, PageTypeOK
  <2>4. link' \in [used : 0..MaxUploads, open : BOOLEAN]
    BY <1>3, SlotUsed DEF UploadInv
  <2>5. xhr' \in [at : {"sent", "receiving", "over"}, answer : Answers] /\ xhr'.at = "receiving"
    BY <1>3 DEF UploadInv, PageTypeOK
  <2>6. ServerTurn /\ queue' = queue /\ First(queue)' = c
    BY DEF Begin, ServerTurn
  <2>7. RequestSound'
    BY <1>1, <2>2, <2>5, <2>6 DEF RequestSound
  <2>8. QED
    BY <1>1, <2>2, <2>3, <2>4, <2>5, <2>6, <2>7, ServerStep
<1>4. CASE \/ Reply("grant_slots_exhausted") /\ UNCHANGED <<link, server>>
           \/ Reply("grant_unavailable") /\ UNCHANGED <<link, server>>
  BY <1>2, <1>4, ReplyStep DEF Begin, Answers
<1>5. QED
  BY <1>3, <1>4 DEF Begin

LEMMA ReceiveStep ==
  ASSUME UploadInv, Receive
  PROVE  UploadInv'
<1> DEFINE c == First(queue)
<1>1. /\ queue # {} /\ c \in Files /\ server[c].sealed \in Nat /\ server[c].begun \in Nat
  BY UnderWay DEF Receive
<1>2. server[c].sealed = 0 /\ server[c].begun > 0
  BY <1>1 DEF Receive, UploadInv, RequestSound
<1>3. CASE server' = [server EXCEPT ![c].sealed = @ + 1] /\ Reply("success")
  <2>1. server[c] \in [begun : Nat, sealed : Nat]
    BY <1>1 DEF UploadInv, PageTypeOK
  <2>2. /\ server'[c].sealed = 1 /\ server'[c].begun = server[c].begun
        /\ \A g \in Files : g # c => server'[g] = server[g]
    BY <1>1, <1>2, <1>3, <2>1 DEF UploadInv, PageTypeOK
  <2>3. server' \in [Files -> [begun : Nat, sealed : Nat]]
    <3>1. [server[c] EXCEPT !.sealed = @ + 1] \in [begun : Nat, sealed : Nat]
      BY <2>1
    <3>2. server' = [server EXCEPT ![c] = [server[c] EXCEPT !.sealed = @ + 1]]
      BY <1>1, <1>3, <2>1 DEF UploadInv, PageTypeOK
    <3>3. QED
      BY <3>1, <3>2, <1>1 DEF UploadInv, PageTypeOK
  <2>4. /\ xhr' \in [at : {"sent", "receiving", "over"}, answer : Answers]
        /\ xhr'.at = "over" /\ xhr'.answer = "success"
    BY <1>3, ReplyTyped DEF Answers
  <2>5. ServerTurn /\ queue' = queue /\ First(queue)' = c /\ link' = link
    BY DEF Receive, ServerTurn
  <2>6. RequestSound'
    BY <2>2, <2>4, <2>5 DEF RequestSound
  <2>7. link' \in [used : 0..MaxUploads, open : BOOLEAN]
    BY <2>5 DEF UploadInv, PageTypeOK
  <2>8. QED
    BY <1>1, <1>2, <2>2, <2>3, <2>4, <2>5, <2>6, <2>7, ServerStep
<1>4. CASE \/ Reply("upload_too_large") /\ UNCHANGED server
           \/ Reply("retryable") /\ UNCHANGED server
           \/ Reply("internal_error") /\ UNCHANGED server
  BY <1>2, <1>4, ReplyStep DEF Receive, Answers
<1>5. QED
  BY <1>3, <1>4 DEF Receive

-----------------------------------------------------------------------------
(* The page before a batch.                                                *)

\* Neither the files nor what became of them change.
LEMMA QuietStep ==
  ASSUME UploadInv, UNCHANGED <<server, quota, phase, entries, queue, xhr>>,
         link' \in [used : 0..MaxUploads, open : BOOLEAN], asking' \in BOOLEAN,
         quota.kind = "ready" => ~asking'
  PROVE  UploadInv'
<1>1. PageTypeOK'
  BY DEF UploadInv, PageTypeOK, Chosen
<1>2. PageShape'
  BY DEF UploadInv, PageShape, Chosen
<1>3. (\A f \in Chosen : FileSound(f))'
  BY DEF UploadInv, FileSound, Chosen, Open
<1>4. RequestSound' /\ OnlyFirstBegun'
  BY DEF UploadInv, RequestSound, OnlyFirstBegun, Chosen, Open
<1>5. QED
  BY <1>1, <1>2, <1>3, <1>4 DEF UploadInv

LEMMA ElsewhereStep ==
  ASSUME UploadInv, Elsewhere
  PROVE  UploadInv'
<1>1. link' \in [used : 0..MaxUploads, open : BOOLEAN]
  <2>1. CASE link' = [link EXCEPT !.open = FALSE]
    BY <2>1, Zenon DEF UploadInv, PageTypeOK
  <2>2. CASE link.used < MaxUploads /\ link' = [link EXCEPT !.used = @ + 1]
    BY <2>2, SlotUsed DEF UploadInv
  <2>3. QED
    BY <2>1, <2>2 DEF Elsewhere
<1>2. asking' \in BOOLEAN /\ (quota.kind = "ready" => ~asking')
  BY DEF Elsewhere, UploadInv, PageTypeOK, PageShape
<1>3. QED
  BY <1>1, <1>2, QuietStep DEF Elsewhere

\* Between batches the list may lose files from its end and gain fresh ones, as
\* long as the files that leave or come were never sent.
LEMMA SelectionStep ==
  ASSUME UploadInv, queue = {}, UNCHANGED <<link, server, phase, queue, xhr>>,
         quota' \in [kind : {"loading", "ready", "unavailable"}, room : 0..MaxUploads],
         asking' \in BOOLEAN, quota'.kind = "ready" => ~asking',
         entries' \in Seq(Entry), Len(entries') <= MaxFiles,
         quota'.kind = "ready" => Len(entries') <= quota'.room,
         quota'.kind # "ready" => quota.kind # "ready",
         \A f \in 1..Len(entries') :
           entries'[f] = IF f \in Chosen THEN entries[f] ELSE [status |-> "queued", outcome |-> "none"],
         quota.kind # "ready" \/ Len(entries) <= Len(entries')
  PROVE  UploadInv'
<1>1. Len(entries) \in Nat /\ Len(entries') \in Nat /\ MaxFiles \in Nat
  BY PageBounds DEF UploadInv, PageTypeOK
<1>2. Chosen' = 1..Len(entries') /\ Chosen' \subseteq Files /\ Chosen \subseteq Files
  BY <1>1 DEF Chosen, Files, UploadInv, PageTypeOK
<1>3. \A f \in Files : f \notin Chosen \/ quota.kind # "ready" => server[f].begun = 0 /\ server[f].sealed = 0
  BY DEF UploadInv, PageShape
<1>4. PageTypeOK'
  BY <1>2 DEF UploadInv, PageTypeOK
<1>5. PageShape'
  <2>1. \A f \in Files : quota'.kind # "ready" \/ f \notin Chosen' => server[f].begun = 0 /\ server[f].sealed = 0
    BY <1>1, <1>2, <1>3 DEF Chosen
  <2>2. QED
    BY <2>1 DEF UploadInv, PageShape
<1>6. ASSUME NEW f \in Chosen' PROVE FileSound(f)'
  <2>1. CASE f \in Chosen
    <3>1. entries'[f] = entries[f] /\ FileSound(f)
      BY <1>2, <2>1 DEF UploadInv
    <3>2. QED
      BY <3>1 DEF FileSound, Open
  <2>2. CASE f \notin Chosen
    <3>1. /\ entries'[f] = [status |-> "queued", outcome |-> "none"]
          /\ server[f].begun = 0 /\ server[f].sealed = 0
      BY <1>2, <1>3, <2>2
    <3>2. QED
      BY <3>1 DEF FileSound, Open
  <2>3. QED
    BY <2>1, <2>2
<1>7. RequestSound'
  BY DEF RequestSound
<1>8. OnlyFirstBegun'
  <2>1. ASSUME NEW f \in Chosen', NEW g \in Chosen', f < g, Open(f)', Open(g)'
        PROVE  server[g].begun = 0
    <3>1. CASE g \in Chosen
      <4>1. f \in Chosen
        BY <1>1, <1>2, <2>1, <3>1 DEF Chosen
      <4>2. entries'[f] = entries[f] /\ entries'[g] = entries[g]
        BY <1>2, <3>1, <4>1
      <4>3. QED
        BY <2>1, <3>1, <4>1, <4>2 DEF Open, OnlyFirstBegun, UploadInv
    <3>2. CASE g \notin Chosen
      BY <1>2, <1>3, <3>2
    <3>3. QED
      BY <3>1, <3>2
  <2>2. QED
    BY <2>1 DEF OnlyFirstBegun
<1>9. QED
  BY <1>4, <1>5, <1>6, <1>7, <1>8 DEF UploadInv

LEMMA QuotaAnsweredStep ==
  ASSUME UploadInv, QuotaAnswered
  PROVE  UploadInv'
<1>1. asking /\ quota.kind # "ready" /\ queue = {}
  BY DEF QuotaAnswered, UploadInv, PageShape
<1>2. asking' = FALSE /\ UNCHANGED <<link, server, phase, queue, xhr>>
  BY DEF QuotaAnswered
<1>3. entries \in Seq(Entry) /\ Len(entries) \in Nat /\ Len(entries) <= MaxFiles /\ MaxFiles \in Nat
  BY PageBounds DEF UploadInv, PageTypeOK
<1>4. link.used \in 0..MaxUploads /\ MaxUploads \in Nat
  BY PageBounds DEF UploadInv, PageTypeOK
<1>5. CASE /\ quota' = [kind |-> "ready", room |-> MaxUploads - link.used]
           /\ entries' = Trim(entries, quota'.room)
  <2>1. MaxUploads - link.used \in 0..MaxUploads
    BY <1>4
  <2>2. quota' \in [kind : {"loading", "ready", "unavailable"}, room : 0..MaxUploads]
    BY <1>5, <2>1
  <2> DEFINE r == MaxUploads - link.used
             k == IF Len(entries) > r THEN r ELSE Len(entries)
  <2>3. k \in 0..Len(entries) /\ k <= r
    BY <1>3, <2>1
  <2>4. entries' = SubSeq(entries, 1, k) /\ quota'.room = r /\ quota'.kind = "ready"
    BY <1>5 DEF Trim
  <2> HIDE DEF k, r
  <2>5. /\ entries' \in Seq(Entry) /\ Len(entries') = k
        /\ \A f \in 1..k : f \in 1..Len(entries) /\ entries'[f] = entries[f]
    BY <1>3, <2>3, <2>4
  <2>6. Len(entries') <= MaxFiles
    BY <1>3, <2>3, <2>5
  <2>7. QED
    BY <1>1, <1>2, <2>2, <2>3, <2>4, <2>5, <2>6, SelectionStep DEF Chosen
<1>6. CASE UNCHANGED entries /\ (quota' = [kind |-> "unavailable", room |-> 0] \/ UNCHANGED quota)
  <2>1. quota' \in [kind : {"loading", "ready", "unavailable"}, room : 0..MaxUploads] /\ quota'.kind # "ready"
    BY <1>1, <1>4, <1>6 DEF UploadInv, PageTypeOK
  <2>2. QED
    BY <1>1, <1>2, <1>3, <1>6, <2>1, SelectionStep DEF Chosen
<1>7. QED
  BY <1>5, <1>6 DEF QuotaAnswered

LEMMA AddFilesStep ==
  ASSUME UploadInv, NEW n \in 1..MaxFiles, AddFiles(n)
  PROVE  UploadInv'
<1> DEFINE fresh == [status |-> "queued", outcome |-> "none"]
           room == IF Room > Len(entries) THEN Room - Len(entries) ELSE 0
           accepted == IF quota.kind = "ready" /\ n > room THEN room ELSE n
           added == [i \in 1..accepted |-> fresh]
<1>1. queue = {} /\ UNCHANGED <<link, server, quota, asking, phase, queue, xhr>>
  BY DEF AddFiles, Form, UploadInv, PageShape
<1>2. /\ entries \in Seq(Entry) /\ Len(entries) \in Nat /\ Len(entries) + n <= MaxFiles
      /\ n \in Nat /\ MaxFiles \in Nat /\ quota.room \in Nat
  BY PageBounds DEF AddFiles, UploadInv, PageTypeOK
<1>3. /\ accepted \in 0..n
      /\ quota.kind = "ready" => Len(entries) + accepted <= quota.room
  <2>1. quota.kind = "ready" => Room = quota.room /\ Len(entries) <= quota.room
    BY DEF Room, UploadInv, PageShape
  <2>2. CASE quota.kind = "ready"
    BY <1>2, <2>1, <2>2
  <2>3. CASE quota.kind # "ready"
    BY <1>2, <2>3
  <2>4. QED
    BY <2>2, <2>3
<1>4. entries' = entries \o added
  BY DEF AddFiles
<1>5. fresh \in Entry
  BY DEF Entry, Outcomes
<1> HIDE DEF accepted, fresh
<1>6. added \in Seq(Entry) /\ Len(added) = accepted
  BY <1>2, <1>3, <1>5
<1>7. /\ entries' \in Seq(Entry) /\ Len(entries') = Len(entries) + accepted
      /\ \A f \in 1..Len(entries') : entries'[f] = IF f \in 1..Len(entries) THEN entries[f] ELSE fresh
  <2>1. \A i \in 1..accepted : added[i] = fresh
    OBVIOUS
  <2> HIDE DEF added
  <2>2. entries' \in Seq(Entry) /\ Len(entries') = Len(entries) + accepted
    <3>1. (entries \o added) \in Seq(Entry)
      BY <1>2, <1>6
    <3>2. Len(entries \o added) = Len(entries) + Len(added)
      BY <1>2, <1>6
    <3>3. QED
      BY <1>4, <1>6, <3>1, <3>2
  <2>3. \A f \in 1..Len(entries') : entries'[f] = IF f \in 1..Len(entries) THEN entries[f] ELSE fresh
    BY <1>2, <1>3, <1>4, <1>6, <2>1, <2>2
  <2>4. QED
    BY <2>2, <2>3
<1>8. Len(entries') <= MaxFiles /\ Len(entries) <= Len(entries')
      /\ (quota.kind = "ready" => Len(entries') <= quota.room)
  BY <1>2, <1>3, <1>7
<1>9. /\ quota \in [kind : {"loading", "ready", "unavailable"}, room : 0..MaxUploads]
      /\ asking \in BOOLEAN /\ (quota.kind = "ready" => ~asking)
  BY DEF UploadInv, PageTypeOK, PageShape
<1>10. QED
  BY <1>1, <1>7, <1>8, <1>9, SelectionStep DEF Chosen, fresh

-----------------------------------------------------------------------------
(* The batch.                                                              *)

LEMMA RunQueueStep ==
  ASSUME UploadInv, RunQueue
  PROVE  UploadInv'
<1> DEFINE c == First(Queued)
<1>1. /\ quota.kind = "ready" /\ queue = {} /\ Queued # {} /\ queue' = Queued /\ phase' = "uploading"
      /\ entries' = [entries EXCEPT ![c].status = "uploading"]
      /\ xhr' = [at |-> "sent", answer |-> "none"]
      /\ UNCHANGED <<link, server, quota, asking>>
  BY DEF RunQueue, Send
<1>2. entries \in Seq(Entry) /\ Len(entries) \in Nat /\ DOMAIN entries = Chosen
  BY DEF UploadInv, PageTypeOK, Chosen
<1>3. Queued \in SUBSET Nat /\ Queued \subseteq Chosen
  BY <1>2 DEF Queued, Chosen
<1>4. c \in Queued /\ c \in Chosen /\ \A g \in Queued : c <= g
  BY <1>1, <1>3, FirstIsLeast
<1>5. \A g \in Chosen : g \in Queued <=> entries[g].status = "queued"
  BY <1>2 DEF Queued
<1> HIDE DEF c
<1>6. /\ entries' \in Seq(Entry) /\ Len(entries') = Len(entries)
      /\ entries'[c] = [entries[c] EXCEPT !.status = "uploading"]
      /\ \A g \in Chosen : g # c => entries'[g] = entries[g]
  BY <1>1, <1>2, <1>4, SetStatus DEF Chosen
<1>7. Chosen' = Chosen /\ First(queue)' = c
  BY <1>1, <1>6 DEF Chosen, c
<1>8. entries[c] \in Entry /\ entries'[c].status = "uploading" /\ entries'[c].outcome = entries[c].outcome
  <2>1. entries[c] \in Entry
    BY <1>2, <1>4 DEF Chosen
  <2> QED  BY <1>6, <2>1 DEF Entry
<1>9. \A g \in Chosen : FileSound(g) /\ entries[g].status # "uploading"
  BY <1>1 DEF UploadInv, FileSound
<1>10. \A g \in Chosen : Open(g)' <=> Open(g)
  BY <1>4, <1>5, <1>6, <1>8 DEF Open
<1>11. PageTypeOK'
  BY <1>1, <1>3, <1>6, <1>7 DEF UploadInv, PageTypeOK, Answers
<1>12. PageShape'
  BY <1>1, <1>6, <1>7 DEF UploadInv, PageShape
<1>13. ASSUME NEW f \in Chosen PROVE FileSound(f)'
  <2>1. CASE f = c
    <3>1. server[c].sealed = 0 /\ server[c].sealed <= server[c].begun /\ entries[c].outcome = "none"
      BY <1>4, <1>5, <1>9 DEF FileSound, Open
    <3>2. QED
      BY <1>1, <1>4, <1>7, <1>8, <2>1, <3>1 DEF FileSound, Open
  <2>2. CASE f # c
    <3>1. entries'[f] = entries[f] /\ FileSound(f) /\ entries[f].status # "uploading"
      BY <1>6, <1>9, <2>2
    <3>2. QED
      BY <1>1, <1>5, <1>7, <2>2, <3>1 DEF FileSound, Open
  <2>3. QED
    BY <2>1, <2>2
<1>14. RequestSound'
  <2>1. server[c].sealed = 0
    BY <1>4, <1>5, <1>9 DEF FileSound
  <2>2. QED
    BY <1>1, <1>7, <2>1 DEF RequestSound
<1>15. OnlyFirstBegun'
  BY <1>1, <1>7, <1>10 DEF OnlyFirstBegun, UploadInv
<1>16. QED
  BY <1>7, <1>11, <1>12, <1>13, <1>14, <1>15 DEF UploadInv

LEMMA TryAgainStep ==
  ASSUME UploadInv, TryAgain
  PROVE  UploadInv'
<1>1. CASE RunQueue
  BY <1>1, RunQueueStep
<1>2. CASE quota.kind # "ready" /\ asking' = TRUE /\ UNCHANGED <<link, server, quota, phase, entries, queue, xhr>>
  <2>1. link' \in [used : 0..MaxUploads, open : BOOLEAN] /\ asking' \in BOOLEAN
    BY <1>2, Zenon DEF UploadInv, PageTypeOK
  <2>2. QED
    BY <1>2, <2>1, QuietStep
<1>3. QED
  BY <1>1, <1>2 DEF TryAgain

\* What the answer of the file under way turns into.
LEMMA OutcomeSound ==
  ASSUME UploadInv, xhr.at = "over", queue # {}
  PROVE  LET outcome == OutcomeFrom(xhr.answer) IN
         /\ outcome \in Outcomes \cup {"retryable"} /\ outcome # "none"
         /\ outcome = "received" => server[First(queue)].sealed = 1
         /\ outcome \notin {"received", "uncertain"} => server[First(queue)].sealed = 0
<1>1. xhr.answer \in Answers
  BY DEF UploadInv, PageTypeOK
<1>2. CASE xhr.answer = "success"
  BY <1>2 DEF OutcomeFrom, Outcomes, UploadInv, RequestSound
<1>3. CASE xhr.answer \in {"retryable", "grant_unavailable", "grant_slots_exhausted", "upload_too_large"}
  <2>1. OutcomeFrom(xhr.answer) = xhr.answer
    BY <1>3 DEF OutcomeFrom
  <2>2. QED
    BY <1>3, <2>1 DEF Outcomes, UploadInv, RequestSound
<1>4. CASE xhr.answer \in {"none", "internal_error", "aborted", "connection"}
  <2>1. OutcomeFrom(xhr.answer) = "uncertain"
    BY <1>4 DEF OutcomeFrom
  <2>2. QED
    BY <2>1 DEF Outcomes
<1>5. QED
  BY <1>1, <1>2, <1>3, <1>4 DEF Answers

\* The file under way is settled and leaves the batch to `rest`: either nothing
\* is left under way, or the first of the rest is.
LEMMA SettledStep ==
  ASSUME UploadInv, queue # {}, UNCHANGED <<link, server, quota, asking>>,
         entries' \in Seq(Entry), Len(entries') = Len(entries),
         queue' \subseteq Chosen, phase' = "uploading" <=> queue' # {},
         xhr' = IF queue' = {} THEN NoRequest ELSE [at |-> "sent", answer |-> "none"],
         queue' # {} => server[First(queue')].sealed = 0,
         \A f \in Chosen : FileSound(f)',
         \A g \in Chosen : Open(g)' => Open(g)
  PROVE  UploadInv'
<1>1. Chosen' = Chosen
  BY DEF Chosen
<1>2. quota.kind = "ready"
  BY DEF UploadInv, PageShape
<1>3. PageTypeOK'
  BY <1>1 DEF UploadInv, PageTypeOK, NoRequest, Answers
<1>4. PageShape'
  BY <1>1, <1>2 DEF UploadInv, PageShape, NoRequest
<1>5. RequestSound'
  BY DEF RequestSound, NoRequest
<1>6. OnlyFirstBegun'
  BY <1>1 DEF OnlyFirstBegun, UploadInv
<1>7. QED
  BY <1>1, <1>3, <1>4, <1>5, <1>6 DEF UploadInv

LEMMA SettleStep ==
  ASSUME UploadInv, Settle
  PROVE  UploadInv'
<1> DEFINE c == First(queue)
           rest == queue \ {c}
           outcome == OutcomeFrom(xhr.answer)
           marked(status) == [entries EXCEPT ![c] = [status |-> status, outcome |-> outcome]]
           goOn == rest # {} /\ outcome \in {"received", "upload_too_large"}
<1>1. xhr.at = "over" /\ queue # {} /\ UNCHANGED <<link, server, quota, asking>>
  BY DEF Settle, UploadInv, PageShape
<1>2. /\ c \in queue /\ c \in Chosen /\ \A g \in queue : c <= g
      /\ Len(entries) \in Nat
  BY <1>1, Current
<1>3. /\ outcome \in Outcomes \cup {"retryable"} /\ outcome # "none"
      /\ outcome = "received" => server[c].sealed = 1
      /\ outcome \notin {"received", "uncertain"} => server[c].sealed = 0
  BY <1>1, OutcomeSound
<1>4. entries \in Seq(Entry) /\ queue \subseteq Chosen /\ DOMAIN entries = Chosen
  BY DEF UploadInv, PageTypeOK, Chosen
<1>5. \A g \in Chosen : FileSound(g) /\ entries[g] \in Entry
  BY <1>4 DEF UploadInv, Chosen
<1>6. /\ entries[c].status = "uploading" /\ entries[c].outcome = "none" /\ Open(c)
      /\ \A g \in Chosen : g # c => entries[g].status # "uploading"
  BY <1>1, <1>2, <1>5 DEF FileSound, Open
<1>7. /\ \A g \in rest : entries[g].status = "queued" /\ g \in Chosen /\ Open(g) /\ c < g
      /\ \A g \in Chosen : entries[g].status = "queued" => g \in rest
      /\ \A g \in rest : server[g].begun = 0 /\ server[g].sealed = 0
  <2>1. \A g \in rest : entries[g].status = "queued" /\ g \in Chosen /\ Open(g)
    BY <1>4, <1>5, <1>6 DEF FileSound, Open
  <2>2. \A g \in rest : c < g
    BY <1>2, <2>1 DEF Chosen
  <2>3. \A g \in Chosen : entries[g].status = "queued" => g \in rest
    BY <1>1, <1>5, <1>6 DEF FileSound
  <2>4. \A g \in rest : server[g].begun = 0 /\ server[g].sealed = 0
    BY <1>2, <1>5, <1>6, <2>1, <2>2 DEF UploadInv, OnlyFirstBegun, FileSound
  <2>5. QED
    BY <2>1, <2>2, <2>3, <2>4
<1>8. server[c].sealed <= 1 /\ server[c].sealed <= server[c].begun
  BY <1>2, <1>5 DEF FileSound
<1>9. \A s \in {"done", "failed"} : outcome # "retryable" =>
        /\ marked(s) \in Seq(Entry) /\ Len(marked(s)) = Len(entries)
        /\ marked(s)[c] = [status |-> s, outcome |-> outcome]
        /\ \A g \in Chosen : g # c => marked(s)[g] = entries[g]
  <2>1. ASSUME NEW s \in {"done", "failed"}, outcome # "retryable"
        PROVE  [status |-> s, outcome |-> outcome] \in Entry
    BY <1>3, <2>1 DEF Entry
  <2> HIDE DEF outcome
  <2>2. QED
    BY <1>2, <1>4, <2>1, ReplaceEntry DEF Chosen
<1>10. CASE outcome = "retryable" /\ Pause(c)
  <2>1. /\ entries' = [entries EXCEPT ![c].status = "queued"]
        /\ phase' = "selecting" /\ queue' = {} /\ xhr' = NoRequest
    BY <1>10 DEF Pause
  <2>2. /\ entries' \in Seq(Entry) /\ Len(entries') = Len(entries)
        /\ entries'[c] = [entries[c] EXCEPT !.status = "queued"]
        /\ \A g \in Chosen : g # c => entries'[g] = entries[g]
    BY <1>2, <1>4, <2>1, SetStatus DEF Chosen
  <2>3. entries'[c].status = "queued" /\ entries'[c].outcome = "none"
    BY <1>2, <1>5, <1>6, <2>2 DEF Entry
  <2>4. server[c].sealed = 0
    BY <1>3, <1>10
  <2>5. ASSUME NEW f \in Chosen PROVE FileSound(f)' /\ (Open(f)' => Open(f))
    <3>1. CASE f = c
      BY <1>1, <1>6, <1>8, <2>1, <2>3, <2>4, <3>1 DEF FileSound, Open
    <3>2. CASE f # c
      BY <1>1, <1>5, <1>6, <2>1, <2>2, <3>2 DEF FileSound, Open
    <3>3. QED
      BY <3>1, <3>2
  <2>6. QED
    BY <1>1, <2>1, <2>2, <2>5, SettledStep
<1>11. CASE /\ outcome # "retryable" /\ goOn
            /\ queue' = rest /\ xhr' = [at |-> "sent", answer |-> "none"] /\ phase' = phase
            /\ entries' = [marked(IF outcome = "received" THEN "done" ELSE "failed")
                             EXCEPT ![First(rest)].status = "uploading"]
  <2> DEFINE s == IF outcome = "received" THEN "done" ELSE "failed"
             n == First(rest)
  <2>1. n \in rest /\ n \in Chosen /\ n # c
    <3>1. rest \in SUBSET Nat
      <4>1. Chosen \subseteq Nat
        BY <1>2 DEF Chosen
      <4> QED  BY <1>4, <4>1
    <3>2. n \in rest
      BY <1>11, <3>1, FirstIsLeast
    <3>3. QED
      BY <1>7, <3>2
  <2>2. /\ marked(s) \in Seq(Entry) /\ Len(marked(s)) = Len(entries)
        /\ marked(s)[c] = [status |-> s, outcome |-> outcome]
        /\ \A g \in Chosen : g # c => marked(s)[g] = entries[g]
    BY <1>9, <1>11
  <2>3. /\ entries' \in Seq(Entry) /\ Len(entries') = Len(entries)
        /\ entries'[n] = [entries[n] EXCEPT !.status = "uploading"]
        /\ \A g \in Chosen : g # n => entries'[g] = marked(s)[g]
    <3>1. PICK m : m = marked(s)
      OBVIOUS
    <3>2. entries' = [m EXCEPT ![n].status = "uploading"]
      BY <1>11, <3>1
    <3> HIDE DEF marked, n, s
    <3>3. m \in Seq(Entry) /\ n \in 1..Len(m) /\ Len(m) = Len(entries) /\ m[n] = entries[n]
      BY <2>1, <2>2, <3>1 DEF Chosen
    <3>4. /\ entries' \in Seq(Entry) /\ Len(entries') = Len(m)
          /\ entries'[n] = [m[n] EXCEPT !.status = "uploading"]
          /\ \A g \in 1..Len(m) : g # n => entries'[g] = m[g]
      <4> DEFINE u == [m EXCEPT ![n].status = "uploading"]
      <4>1. /\ u \in Seq(Entry) /\ Len(u) = Len(m)
            /\ u[n] = [m[n] EXCEPT !.status = "uploading"]
            /\ \A g \in 1..Len(m) : g # n => u[g] = m[g]
        BY <3>3, SetStatus
      <4>2. entries' = u
        BY <3>2
      <4> HIDE DEF u
      <4> QED  BY <4>1, <4>2
    <3>5. QED
      BY <3>1, <3>3, <3>4 DEF Chosen
  <2>4. /\ entries'[c].status = s /\ entries'[c].outcome = outcome
        /\ \A g \in Chosen : g # c /\ g # n => entries'[g] = entries[g]
    <3> HIDE DEF marked, n, s, outcome, c
    <3> QED  BY <1>2, <2>1, <2>2, <2>3
  <2>5. entries'[n].status = "uploading" /\ entries'[n].outcome = "none"
    <3>1. entries[n] \in Entry /\ entries[n].outcome = "none"
      BY <1>5, <1>7, <2>1 DEF FileSound, Open
    <3>2. QED
      BY <2>3, <3>1 DEF Entry
  <2>6. queue' = rest /\ queue' # {} /\ First(queue)' = n /\ First(queue') = n
    BY <1>11
  <2> HIDE DEF n
  <2>7. ASSUME NEW f \in Chosen PROVE FileSound(f)' /\ (Open(f)' => Open(f))
    <3>1. CASE f = c
      <4>1. CASE outcome = "received"
        BY <1>1, <1>3, <1>6, <1>8, <2>1, <2>4, <2>6, <3>1, <4>1 DEF FileSound, Open
      <4>2. CASE outcome = "upload_too_large"
        BY <1>1, <1>3, <1>6, <1>8, <2>1, <2>4, <2>6, <3>1, <4>2 DEF FileSound, Open
      <4>3. QED
        BY <1>11, <4>1, <4>2
    <3>2. CASE f = n
      BY <1>1, <1>5, <1>7, <2>1, <2>5, <2>6, <3>2 DEF FileSound, Open
    <3>3. CASE f # c /\ f # n
      <4>1. entries'[f] = entries[f] /\ FileSound(f) /\ entries[f].status # "uploading"
        BY <1>5, <1>6, <2>4, <3>3
      <4>2. QED
        BY <1>1, <1>7, <2>6, <3>3, <4>1 DEF FileSound, Open
    <3>4. QED
      BY <3>1, <3>2, <3>3
  <2>8. server[n].sealed = 0 /\ rest \subseteq Chosen /\ phase = "uploading"
    BY <1>1, <1>4, <1>7, <2>1 DEF UploadInv, PageShape
  <2>9. QED
    BY <1>1, <1>11, <2>3, <2>6, <2>7, <2>8, SettledStep
<1>12. CASE /\ outcome # "retryable" /\ ~goOn
            /\ queue' = {} /\ xhr' = NoRequest /\ phase' = "done"
            /\ entries' = IF outcome = "received" THEN marked("done") ELSE NotAttempted(marked("failed"), c)
  <2>1. CASE outcome = "received"
    <3>1. /\ entries' \in Seq(Entry) /\ Len(entries') = Len(entries)
          /\ entries'[c] = [status |-> "done", outcome |-> outcome]
          /\ \A g \in Chosen : g # c => entries'[g] = entries[g]
      BY <1>9, <1>12, <2>1
    <3>2. ASSUME NEW f \in Chosen PROVE FileSound(f)' /\ (Open(f)' => Open(f))
      <4>1. CASE f = c
        BY <1>1, <1>3, <1>8, <1>12, <2>1, <3>1, <4>1 DEF FileSound, Open
      <4>2. CASE f # c
        BY <1>1, <1>5, <1>6, <1>12, <3>1, <4>2 DEF FileSound, Open
      <4>3. QED
        BY <4>1, <4>2
    <3>3. QED
      BY <1>1, <1>12, <3>1, <3>2, SettledStep
  <2>2. CASE outcome # "received"
    <3>1. /\ marked("failed") \in Seq(Entry) /\ Len(marked("failed")) = Len(entries)
          /\ marked("failed")[c] = [status |-> "failed", outcome |-> outcome]
          /\ \A g \in Chosen : g # c => marked("failed")[g] = entries[g]
      BY <1>9, <1>12
    <3>2. entries' = NotAttempted(marked("failed"), c)
      BY <1>12, <2>2
    <3> HIDE DEF marked
    <3>3. /\ entries' \in Seq(Entry) /\ Len(entries') = Len(entries)
          /\ \A g \in Chosen :
               entries'[g] = IF marked("failed")[g].status = "queued"
                             THEN [marked("failed")[g] EXCEPT !.status = "failed"] ELSE marked("failed")[g]
      BY <3>1, <3>2, RemainingMarked DEF Chosen
    <3>4. entries'[c] = [status |-> "failed", outcome |-> outcome]
      BY <1>2, <3>1, <3>3
    <3>5. ASSUME NEW f \in Chosen PROVE FileSound(f)' /\ (Open(f)' => Open(f))
      <4>1. CASE f = c
        BY <1>1, <1>3, <1>8, <1>12, <2>2, <3>4, <4>1 DEF FileSound, Open
      <4>2. CASE f # c /\ entries[f].status = "queued"
        <5>1. entries'[f].status = "failed" /\ entries'[f].outcome = "none"
          <6>1. entries[f] \in Entry /\ entries[f].outcome = "none"
            BY <1>5, <4>2 DEF FileSound, Open
          <6>2. entries'[f] = [entries[f] EXCEPT !.status = "failed"]
            BY <3>1, <3>3, <4>2
          <6>3. QED
            BY <6>1, <6>2 DEF Entry
        <5>2. server[f].begun = 0 /\ server[f].sealed = 0
          BY <1>7, <4>2
        <5>3. QED
          BY <1>1, <1>12, <5>1, <5>2 DEF FileSound, Open
      <4>3. CASE f # c /\ entries[f].status # "queued"
        <5>1. entries'[f] = entries[f]
          BY <3>1, <3>3, <4>3
        <5>2. QED
          BY <1>1, <1>5, <1>6, <1>12, <4>3, <5>1 DEF FileSound, Open
      <4>4. QED
        BY <4>1, <4>2, <4>3
    <3>6. QED
      BY <1>1, <1>12, <3>3, <3>5, SettledStep
  <2>3. QED
    BY <2>1, <2>2
<1>13. QED
  BY <1>10, <1>11, <1>12 DEF Settle

-----------------------------------------------------------------------------
LEMMA UploadInvInit ==
  ASSUME PageInit
  PROVE  UploadInv
<1>1. Len(entries) = 0 /\ Chosen = {} /\ entries \in Seq(Entry)
  BY DEF PageInit, Chosen
<1>2. PageTypeOK
  <2>1. server \in [Files -> [begun : Nat, sealed : Nat]]
    BY DEF PageInit
  <2>2. QED
    BY <1>1, <2>1, PageBounds DEF PageInit, PageTypeOK, NoRequest, Answers
<1>3. PageShape
  BY <1>1 DEF PageInit, PageShape, NoRequest, Files
<1>4. QED
  BY <1>1, <1>2, <1>3 DEF UploadInv, RequestSound, OnlyFirstBegun, PageInit

LEMMA UploadInvStep ==
  ASSUME UploadInv, [PageNext]_pageVars
  PROVE  UploadInv'
<1>1. CASE UNCHANGED pageVars
  <2>1. link' \in [used : 0..MaxUploads, open : BOOLEAN] /\ asking' \in BOOLEAN
    BY <1>1, Zenon DEF pageVars, UploadInv, PageTypeOK
  <2>2. quota.kind = "ready" => ~asking'
    BY <1>1 DEF pageVars, UploadInv, PageShape
  <2>3. QED
    BY <1>1, <2>1, <2>2, QuietStep DEF pageVars
<1>2. CASE PageNext
  BY <1>2, QuotaAnsweredStep, AddFilesStep, RunQueueStep, TryAgainStep, BusyStep, BeginStep,
     ReceiveStep, LoseStep, ElsewhereStep, SettleStep DEF PageNext
<1>3. QED
  BY <1>1, <1>2

\* The state of the page and of the server agree at every step: of what was sent,
\* of the answer on its way, and of the one file that may have begun before.
THEOREM UploadInvariant == PageSafety => []UploadInv
BY UploadInvInit, UploadInvStep, PTL DEF PageSafety

LEMMA UploadHolds == UploadInv => UploadIsTrue
<1> SUFFICES ASSUME UploadInv PROVE UploadIsTrue
  OBVIOUS
<1>1. SelectionFits
  BY DEF UploadInv, PageShape, SelectionFits
<1>2. ASSUME NEW f \in Chosen
      PROVE  /\ server[f].sealed <= 1
             /\ Told(entries[f]) = "received" => server[f].sealed = 1
             /\ Told(entries[f]) = "not attempted" => server[f].begun = 0
             /\ Told(entries[f]) = "not sent" => server[f].sealed = 0
             /\ server[f].sealed > 0 => Told(entries[f]) \in {"received", "unknown"} \/ (queue # {} /\ First(queue) = f)
  <2>1. FileSound(f) /\ entries[f] \in Entry
    BY DEF UploadInv, PageTypeOK, Chosen
  <2>2. entries[f].status \in {"queued", "uploading", "done", "failed"} /\ entries[f].outcome \in Outcomes
    BY <2>1 DEF Entry
  <2>3. f \in Files
    BY PageBounds DEF UploadInv, PageTypeOK, Chosen, Files
  <2>4. server[f].sealed \in Nat
    BY <2>3 DEF UploadInv, PageTypeOK
  <2>5. CASE entries[f].status = "done"
    BY <2>1, <2>4, <2>5 DEF Told, FileSound
  <2>6. CASE entries[f].status = "failed"
    <3>1. CASE entries[f].outcome = "none"
      BY <2>1, <2>4, <2>6, <3>1 DEF Told, FileSound
    <3>2. CASE entries[f].outcome = "uncertain"
      BY <2>1, <2>4, <2>6, <3>2 DEF Told, FileSound
    <3>3. CASE entries[f].outcome \notin {"none", "uncertain"}
      <4>1. Told(entries[f]) = "not sent"
        <5>1. ASSUME NEW e, e.status = "failed", e.outcome \notin {"none", "uncertain"}
              PROVE  Told(e) = "not sent"
          BY <5>1 DEF Told
        <5> QED  BY <2>6, <3>3, <5>1
      <4>2. server[f].sealed = 0
        BY <2>1, <2>6, <3>3 DEF FileSound
      <4>3. server[f].sealed <= 1 /\ ~(server[f].sealed > 0)
        BY <4>2
      <4>4. Told(entries[f]) # "received" /\ Told(entries[f]) # "not attempted"
        BY <4>1
      <4> QED  BY <4>2, <4>3, <4>4, Zenon
    <3>4. QED
      BY <3>1, <3>2, <3>3
  <2>7. CASE entries[f].status = "queued"
    BY <2>1, <2>4, <2>7 DEF Told, FileSound, Open
  <2>8. CASE entries[f].status = "uploading"
    BY <2>1, <2>4, <2>8 DEF Told, FileSound, Open
  <2>9. QED
    BY <2>2, <2>5, <2>6, <2>7, <2>8
<1>3. DOMAIN entries = Chosen
  BY DEF UploadInv, PageTypeOK, Chosen
<1>4. QED
  BY <1>1, <1>2, <1>3 DEF UploadIsTrue, ReportedIsTrue

\* For any number of files and slots, whatever is lost, refused, cancelled or
\* used elsewhere: what the upload page says of each file is true, no file is
\* stored twice, and no more files are kept than the link had slots.
THEOREM UploadsAreTrue == PageSafety => []UploadIsTrue
BY UploadHolds, UploadInvariant, PTL
=============================================================================
