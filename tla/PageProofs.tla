------------------------------ MODULE PageProofs ------------------------------
(***************************************************************************)
(* Proofs about the pages of the frontend together, for any routes, cases, *)
(* sessions, symbols and imports and any number of acts.                   *)
(***************************************************************************)
EXTENDS Pages, UploadPageProofs, SequenceTheorems, FiniteSetTheorems

-----------------------------------------------------------------------------
(* Lists of requests.                                                      *)

\* A list without its i-th element (RemoveAt of the community modules).
Without(s, i) == SubSeq(s, 1, i - 1) \o SubSeq(s, i + 1, Len(s))

LEMMA ListWithout ==
  ASSUME NEW T, NEW s \in Seq(T), NEW i \in 1..Len(s)
  PROVE  /\ Without(s, i) \in Seq(T) /\ Len(Without(s, i)) = Len(s) - 1
         /\ \A j \in 1..(Len(s) - 1) : Without(s, i)[j] = s[IF j < i THEN j ELSE j + 1]
<1>1. Len(s) \in Nat /\ i \in Nat
  OBVIOUS
<1>2. SubSeq(s, 1, i - 1) \in Seq(T) /\ Len(SubSeq(s, 1, i - 1)) = i - 1
      /\ \A j \in 1..(i - 1) : SubSeq(s, 1, i - 1)[j] = s[j]
  BY <1>1, SubSeqProperties
<1>3. SubSeq(s, i + 1, Len(s)) \in Seq(T) /\ Len(SubSeq(s, i + 1, Len(s))) = Len(s) - i
      /\ \A j \in 1..(Len(s) - i) : SubSeq(s, i + 1, Len(s))[j] = s[i + j]
  BY <1>1, SubSeqProperties
<1> DEFINE a == SubSeq(s, 1, i - 1)
           b == SubSeq(s, i + 1, Len(s))
<1>4. Without(s, i) = a \o b
  BY DEF Without
<1> HIDE DEF a, b
<1>5. a \in Seq(T) /\ b \in Seq(T) /\ Len(a) = i - 1 /\ Len(b) = Len(s) - i
      /\ (\A j \in 1..(i - 1) : a[j] = s[j]) /\ \A j \in 1..(Len(s) - i) : b[j] = s[i + j]
  BY <1>2, <1>3 DEF a, b
<1>6. a \o b \in Seq(T) /\ Len(a \o b) = Len(s) - 1
      /\ \A j \in 1..(Len(s) - 1) : (a \o b)[j] = IF j < i THEN a[j] ELSE b[j - i + 1]
  <2>1. a \o b \in Seq(T) /\ Len(a \o b) = Len(a) + Len(b)
        /\ \A j \in 1..(Len(a) + Len(b)) :
             (a \o b)[j] = IF j <= Len(a) THEN a[j] ELSE b[j - Len(a)]
    BY <1>5, ConcatProperties
  <2> QED  BY <1>1, <1>5, <2>1
<1>7. ASSUME NEW j \in 1..(Len(s) - 1) PROVE (a \o b)[j] = s[IF j < i THEN j ELSE j + 1]
  <2>1. CASE j < i
    BY <1>1, <1>5, <1>6, <2>1
  <2>2. CASE ~(j < i)
    BY <1>1, <1>5, <1>6, <2>2
  <2> QED  BY <2>1, <2>2
<1>8. QED
  BY <1>4, <1>6, <1>7

-----------------------------------------------------------------------------
(* The import panel.                                                       *)

ImportEnds == {"finished", "failed"}
PollRequest == [import : Nat, answer : {"none", "running", "error"} \cup ImportEnds, aborted : BOOLEAN]

\* A poll is of an import that was started, and brings an end only once it has
\* come; one that is listened to is of the import the panel follows.
PollSound(poll, list, k) ==
  /\ poll.import \in 1..Len(list)
  /\ poll.answer \in ImportEnds => list[poll.import] = poll.answer
  /\ ~poll.aborted => poll.import = k

ImportInv ==
  /\ imports \in Seq({"running"} \cup ImportEnds)
  /\ active \in 0..Len(imports)
  /\ start.at = "started" => start.import \in 1..Len(imports)
  /\ polls \in Seq(PollRequest) /\ \A i \in 1..Len(polls) : PollSound(polls[i], imports, active)
  /\ progress \in ImportEnds => active \in 1..Len(imports) /\ imports[active] = progress
  /\ (progress = "running" /\ terminal) => failed

LEMMA ImportStart == Import!ImportInit => ImportInv
BY DEF Import!ImportInit, ImportInv, ImportEnds, Import!NoStart

LEMMA AbortedList ==
  ASSUME polls \in Seq(PollRequest)
  PROVE  /\ Import!Aborted(polls) \in Seq(PollRequest) /\ Len(Import!Aborted(polls)) = Len(polls)
         /\ \A i \in 1..Len(polls) : Import!Aborted(polls)[i] = [polls[i] EXCEPT !.aborted = TRUE]
<1>1. \A i \in 1..Len(polls) : [polls[i] EXCEPT !.aborted = TRUE] \in PollRequest
  <2>1. \A i \in 1..Len(polls) : polls[i] \in PollRequest
    OBVIOUS
  <2> QED  BY <2>1 DEF PollRequest
<1>2. DOMAIN polls = 1..Len(polls) /\ Len(polls) \in Nat
  OBVIOUS
<1> DEFINE a == Import!Aborted(polls)
<1>3. a = [i \in 1..Len(polls) |-> [polls[i] EXCEPT !.aborted = TRUE]]
  BY <1>2 DEF Import!Aborted
<1>4. a \in [1..Len(polls) -> PollRequest]
  BY <1>1, <1>3
<1>5. QED
  <2> HIDE DEF a
  <2>1. a \in Seq(PollRequest) /\ Len(a) = Len(polls)
    BY <1>2, <1>4
  <2>2. QED
    BY <1>3, <2>1 DEF a

LEMMA PolledList ==
  ASSUME polls \in Seq(PollRequest), NEW k \in Nat
  PROVE  /\ Import!Polled(polls, k) \in Seq(PollRequest) /\ Len(Import!Polled(polls, k)) = Len(polls) + 1
         /\ \A i \in 1..Len(polls) : Import!Polled(polls, k)[i] = [polls[i] EXCEPT !.aborted = TRUE]
         /\ Import!Polled(polls, k)[Len(polls) + 1] = [import |-> k, answer |-> "none", aborted |-> FALSE]
<1>1. [import |-> k, answer |-> "none", aborted |-> FALSE] \in PollRequest
  BY DEF PollRequest
<1> DEFINE a == Import!Aborted(polls)
<1>2. a \in Seq(PollRequest) /\ Len(a) = Len(polls)
      /\ \A i \in 1..Len(polls) : a[i] = [polls[i] EXCEPT !.aborted = TRUE]
  BY AbortedList
<1>3. Import!Polled(polls, k) = Append(a, [import |-> k, answer |-> "none", aborted |-> FALSE])
  BY DEF Import!Polled
<1> HIDE DEF a
<1>4. QED
  BY <1>1, <1>2, <1>3

LEMMA ImportStep ==
  ASSUME ImportInv, Import!ImportNext
  PROVE  ImportInv'
<1>0. /\ Len(imports) \in Nat /\ Len(polls) \in Nat
      /\ \A i \in 1..Len(polls) : polls[i] \in PollRequest
      /\ \A k \in 1..Len(imports) : imports[k] \in {"running"} \cup ImportEnds
  BY DEF ImportInv
<1>1. ASSUME NEW k \in DOMAIN imports, Import!Progress(k) PROVE ImportInv'
  <2>1. k \in 1..Len(imports)
    BY <1>1 DEF ImportInv
  <2>2. PICK status \in ImportEnds : imports' = [imports EXCEPT ![k] = status]
    BY <1>1 DEF Import!Progress, ImportEnds
  <2>3. imports' \in Seq({"running"} \cup ImportEnds) /\ Len(imports') = Len(imports)
        /\ \A j \in 1..Len(imports) : imports[j] \in ImportEnds => imports'[j] = imports[j]
    BY <1>1, <2>1, <2>2 DEF ImportInv, Import!Progress, ImportEnds
  <2>4. UNCHANGED <<start, active, progress, failed, terminal, polls>>
    BY <1>1 DEF Import!Progress
  <2>5. ASSUME NEW i \in 1..Len(polls) PROVE PollSound(polls'[i], imports', active')
    BY <1>0, <2>3, <2>4 DEF ImportInv, PollSound, PollRequest
  <2>6. QED
    BY <1>0, <2>3, <2>4, <2>5 DEF ImportInv
<1>2. CASE Import!AnswerStart \/ Import!StartedElsewhere
  <2>1. UNCHANGED <<active, progress, failed, terminal, polls>>
    BY <1>2 DEF Import!AnswerStart, Import!StartedElsewhere
  <2>2. /\ imports' \in Seq({"running"} \cup ImportEnds) /\ Len(imports') \in Nat
        /\ Len(imports') >= Len(imports)
        /\ \A j \in 1..Len(imports) : imports'[j] = imports[j]
        /\ start'.at = "started" => start'.import \in 1..Len(imports')
    <3>1. CASE imports' = Append(imports, "running") /\ start' = [at |-> "started", import |-> Len(imports) + 1]
      BY <1>0, <3>1 DEF ImportInv
    <3>2. CASE /\ imports' = imports \/ imports' = Append(imports, "running")
               /\ start' = [at |-> "refused", import |-> 0] \/ start' = start
      <4>1. /\ imports' \in Seq({"running"} \cup ImportEnds) /\ Len(imports') \in Nat
            /\ Len(imports') >= Len(imports)
            /\ \A j \in 1..Len(imports) : imports'[j] = imports[j]
        <5>1. CASE imports' = imports
          BY <1>0, <5>1 DEF ImportInv
        <5>2. CASE imports' = Append(imports, "running")
          BY <1>0, <5>2 DEF ImportInv
        <5> QED  BY <3>2, <5>1, <5>2
      <4>2. start'.at = "started" => start.at = "started" /\ start' = start
        BY <3>2
      <4>3. start.at = "started" => start.import \in 1..Len(imports)
        BY DEF ImportInv
      <4> QED  BY <1>0, <4>1, <4>2, <4>3
    <3>3. CASE Import!AnswerStart
      <4>1. \/ imports' = Append(imports, "running") /\ start' = [at |-> "started", import |-> Len(imports) + 1]
            \/ /\ imports' = imports \/ imports' = Append(imports, "running")
               /\ start' = [at |-> "refused", import |-> 0]
        BY <3>3, Zenon DEF Import!AnswerStart, Import!Begun
      <4> QED  BY <3>1, <3>2, <4>1
    <3>4. CASE Import!StartedElsewhere
      BY <3>2, <3>4 DEF Import!StartedElsewhere, Import!Begun
    <3> QED  BY <1>2, <3>3, <3>4
  <2>3. ASSUME NEW i \in 1..Len(polls) PROVE PollSound(polls'[i], imports', active')
    BY SMTT(20), <1>0, <2>1, <2>2 DEF ImportInv, PollSound, PollRequest
  <2>4. QED
    BY <1>0, <2>1, <2>2, <2>3 DEF ImportInv
<1>3. ASSUME NEW i \in DOMAIN polls, Import!AnswerPoll(i) PROVE ImportInv'
  <2>1. i \in 1..Len(polls) /\ UNCHANGED <<imports, start, active, progress, failed, terminal>>
    BY <1>3 DEF ImportInv, Import!AnswerPoll
  <2>2. polls[i] \in PollRequest /\ PollSound(polls[i], imports, active)
    BY <1>0, <2>1 DEF ImportInv
  <2>3. PICK x \in {imports[polls[i].import], "error"} : polls' = [polls EXCEPT ![i].answer = x]
    BY <1>3 DEF Import!AnswerPoll
  <2>4. x \in {"running", "error"} \cup ImportEnds
        /\ (x \in ImportEnds => imports[polls[i].import] = x)
    BY <1>0, <2>2 DEF PollSound, ImportEnds
  <2>5. [polls[i] EXCEPT !.answer = x] \in PollRequest
    BY <2>2, <2>4 DEF PollRequest
  <2>6. polls' \in Seq(PollRequest) /\ Len(polls') = Len(polls)
        /\ polls'[i] = [polls[i] EXCEPT !.answer = x]
        /\ \A j \in 1..Len(polls) : j # i => polls'[j] = polls[j]
    BY <2>1, <2>3, <2>5 DEF ImportInv
  <2>7. ASSUME NEW j \in 1..Len(polls) PROVE PollSound(polls'[j], imports', active')
    <3>1. CASE j = i
      BY <2>1, <2>2, <2>4, <2>6, <3>1 DEF PollSound, PollRequest
    <3>2. CASE j # i
      BY <1>0, <2>1, <2>6, <3>2 DEF PollSound, ImportInv
    <3> QED  BY <3>1, <3>2
  <2>8. QED
    BY <1>0, <2>1, <2>6, <2>7 DEF ImportInv
<1>4. ASSUME NEW k \in 1..Len(imports), polls' = Import!Polled(polls, k), active' = k, UNCHANGED imports
      PROVE  polls' \in Seq(PollRequest) /\ \A i \in 1..Len(polls') : PollSound(polls'[i], imports', active')
  <2>1. polls \in Seq(PollRequest) /\ k \in Nat
    BY DEF ImportInv
  <2>2. /\ polls' \in Seq(PollRequest) /\ Len(polls') = Len(polls) + 1
        /\ \A i \in 1..Len(polls) : polls'[i] = [polls[i] EXCEPT !.aborted = TRUE]
        /\ polls'[Len(polls) + 1] = [import |-> k, answer |-> "none", aborted |-> FALSE]
    BY <1>4, <2>1, PolledList
  <2>3. ASSUME NEW i \in 1..Len(polls) PROVE PollSound(polls'[i], imports', active')
    BY <1>0, <1>4, <2>2 DEF ImportInv, PollSound, PollRequest
  <2>4. PollSound(polls'[Len(polls) + 1], imports', active')
    BY <1>4, <2>2 DEF PollSound, ImportEnds
  <2>5. QED
    BY <1>0, <2>2, <2>3, <2>4
<1>5. CASE Import!Poll
  <2>1. active \in 1..Len(imports) /\ active' = active /\ polls' = Import!Polled(polls, active)
        /\ UNCHANGED <<imports, start, progress, failed, terminal>>
    BY <1>0, <1>5 DEF ImportInv, Import!Poll
  <2>2. polls' \in Seq(PollRequest) /\ \A i \in 1..Len(polls') : PollSound(polls'[i], imports', active')
    BY <1>4, <2>1
  <2>3. QED
    BY <2>1, <2>2 DEF ImportInv
<1>6. ASSUME NEW i \in DOMAIN polls, Import!DeliverPoll(i) PROVE ImportInv'
  <2>1. i \in 1..Len(polls) /\ UNCHANGED <<imports, start, active>> /\ polls' = Without(polls, i)
        /\ polls[i].answer # "none"
    BY SMTT(20), <1>6 DEF ImportInv, Import!DeliverPoll, Import!RemoveAt, Without
  <2>2. polls' \in Seq(PollRequest) /\ Len(polls') = Len(polls) - 1
        /\ \A j \in 1..(Len(polls) - 1) : polls'[j] = polls[IF j < i THEN j ELSE j + 1]
    BY <2>1, ListWithout DEF ImportInv
  <2>3. ASSUME NEW j \in 1..Len(polls') PROVE PollSound(polls'[j], imports', active')
    <3>1. PICK m \in 1..Len(polls) : polls'[j] = polls[m]
      <4>1. CASE j < i
        BY <1>0, <2>1, <2>2, <4>1
      <4>2. CASE ~(j < i)
        BY <1>0, <2>1, <2>2, <4>2
      <4> QED  BY <4>1, <4>2
    <3>2. PollSound(polls[m], imports, active)
      BY DEF ImportInv
    <3>3. QED
      BY <2>1, <3>1, <3>2 DEF PollSound
  <2>4. polls[i] \in PollRequest /\ PollSound(polls[i], imports, active)
    BY <1>0, <2>1 DEF ImportInv
  <2>5. /\ progress' \in ImportEnds => active \in 1..Len(imports) /\ imports[active] = progress'
        /\ (progress' = "running" /\ terminal') => failed'
    <3>1. CASE polls[i].aborted
      BY <1>6, <2>4, <3>1 DEF Import!DeliverPoll, Import!Heard, ImportInv
    <3>2. CASE ~polls[i].aborted
      BY <1>6, <2>1, <2>4, <3>2 DEF Import!DeliverPoll, Import!Heard, ImportInv, PollSound, PollRequest, ImportEnds
    <3> QED  BY <3>1, <3>2
  <2>6. QED
    BY <2>1, <2>2, <2>3, <2>5 DEF ImportInv
<1>7. CASE Import!HandleSubmit
  BY <1>7 DEF Import!HandleSubmit, ImportInv, PollSound
<1>8. CASE Import!DeliverStart
  <2>1. UNCHANGED imports /\ start' = Import!NoStart
    BY <1>8 DEF Import!DeliverStart
  <2>2. CASE start.at = "started"
    <3>1. Import!Activate(start.import) /\ start.import \in 1..Len(imports)
      BY <1>8, <2>2 DEF Import!DeliverStart, ImportInv
    <3>2. polls' \in Seq(PollRequest) /\ \A i \in 1..Len(polls') : PollSound(polls'[i], imports', active')
      <4>1. CASE importHidden
        <5>1. polls' = Import!Aborted(polls)
          BY <3>1, <4>1 DEF Import!Activate
        <5>2. polls' \in Seq(PollRequest) /\ Len(polls') = Len(polls)
              /\ \A i \in 1..Len(polls) : polls'[i] = [polls[i] EXCEPT !.aborted = TRUE]
          BY <5>1, AbortedList DEF ImportInv
        <5>3. ASSUME NEW i \in 1..Len(polls) PROVE PollSound(polls'[i], imports', active')
          BY <1>0, <2>1, <5>2 DEF ImportInv, PollSound, PollRequest
        <5>4. QED
          BY <5>2, <5>3
      <4>2. CASE ~importHidden
        BY <1>4, <2>1, <3>1, <4>2 DEF Import!Activate
      <4> QED  BY <4>1, <4>2
    <3>3. active' = start.import /\ progress' = "none" /\ failed' = FALSE /\ terminal' = FALSE
      BY <3>1 DEF Import!Activate
    <3>4. QED
      BY <1>0, <2>1, <3>1, <3>2, <3>3 DEF ImportInv, Import!NoStart, ImportEnds
  <2>3. CASE start.at # "started"
    <3>1. UNCHANGED <<imports, active, progress, failed, terminal, polls>> /\ start'.at # "started"
      BY <1>8, <2>1, <2>3 DEF Import!DeliverStart, Import!NoStart
    <3>2. QED
      BY <3>1 DEF ImportInv, PollSound
  <2> QED  BY <2>2, <2>3
<1>9. CASE Import!Visibility
  BY <1>9 DEF Import!Visibility, ImportInv, PollSound
<1>10. CASE Import!OperationsPoll
  BY <1>0, <1>10 DEF Import!OperationsPoll, ImportInv, Import!NoStart, ImportEnds
<1>11. QED
  BY <1>1, <1>2, <1>3, <1>5, <1>6, <1>7, <1>8, <1>9, <1>10
     DEF Import!ImportNext, Import!ProgressSome, Import!AnswerSome, Import!DeliverSome

LEMMA ImportHolds == ImportInv => Import!ShownIsActive
BY DEF ImportInv, Import!ShownIsActive, ImportEnds

-----------------------------------------------------------------------------
(* The detail page.                                                        *)

DetailLoad == [of : Routes, at : {"sent", "ready", "error"}, version : Nat, settled : BOOLEAN]
FlowState ==
  [at : {"idle", "sent", "applied", "refused"}, result : {"none", "done", "failed"},
   of : Routes \cup {"none"}, version : Nat]

DetailTypeOK ==
  /\ records \in [Routes -> Nat] /\ told \in [Routes -> Nat]
  /\ detailRoute \in Routes /\ due \in BOOLEAN /\ gen \in BOOLEAN
  /\ shown \in [status : {"loading", "ready", "error"}, of : Routes \cup {"none"}, version : Nat]
  /\ detailLoads \in Seq(DetailLoad)
  /\ flows \in [Flows -> FlowState]

\* What the page holds is of a record and no newer than the record.
DetailKnown ==
  /\ \A r \in Routes : told[r] <= records[r]
  /\ shown.status = "ready" => shown.of \in Routes /\ shown.version <= records[shown.of]
  /\ \A o \in Flows :
       /\ flows[o].at # "idle" => flows[o].of \in Routes
       /\ flows[o].at = "applied" => flows[o].version <= records[flows[o].of]

\* One request at most is listened to.
OneListened ==
  \A i, j \in 1..Len(detailLoads) : ~detailLoads[i].settled /\ ~detailLoads[j].settled => i = j

\* The request that is listened to is for the committed route, and was answered
\* after what the page was told and after what it shows.
ListenedIsCurrent(load) ==
  ~load.settled =>
    /\ ~due => load.of = detailRoute
    /\ (load.at = "ready" /\ ~due /\ ~gen) => load.version >= told[detailRoute]
    /\ (load.at = "ready" /\ shown.status = "ready" /\ load.of = shown.of) => load.version >= shown.version
    /\ load.at = "ready" => load.version <= records[load.of]

DetailInv ==
  /\ DetailTypeOK /\ DetailKnown /\ OneListened
  /\ \A i \in 1..Len(detailLoads) : ListenedIsCurrent(detailLoads[i])
  /\ Detail!RestsOnCurrent

LEMMA DetailStart == Detail!DetailInit => DetailInv
<1> SUFFICES ASSUME Detail!DetailInit PROVE DetailInv
  OBVIOUS
<1>1. Detail!IdleFlow \in FlowState /\ Detail!IdleFlow.at = "idle"
  BY DEF Detail!IdleFlow, FlowState
<1>2. /\ records = [r \in Routes |-> 1] /\ told = [r \in Routes |-> 0]
      /\ detailRoute \in Routes /\ due = TRUE /\ gen = FALSE
      /\ shown = [status |-> "loading", of |-> "none", version |-> 0]
      /\ detailLoads = <<>> /\ flows = [o \in Flows |-> Detail!IdleFlow]
  BY DEF Detail!DetailInit, Detail!Loading
<1>3. DetailTypeOK
  <2>1. shown \in [status : {"loading", "ready", "error"}, of : Routes \cup {"none"}, version : Nat]
    BY <1>2
  <2>2. records \in [Routes -> Nat] /\ told \in [Routes -> Nat] /\ flows \in [Flows -> FlowState]
    BY <1>1, <1>2
  <2>3. detailLoads \in Seq(DetailLoad)
    BY <1>2
  <2> QED  BY <1>2, <2>1, <2>2, <2>3 DEF DetailTypeOK
<1>4. DetailKnown
  BY <1>1, <1>2 DEF DetailKnown
<1>5. QED
  BY <1>2, <1>3, <1>4 DEF DetailInv, OneListened, Detail!RestsOnCurrent, Detail!AtRest

LEMMA DetailFacts ==
  ASSUME DetailInv
  PROVE  /\ Len(detailLoads) \in Nat /\ DOMAIN detailLoads = 1..Len(detailLoads)
         /\ \A i \in 1..Len(detailLoads) :
              /\ detailLoads[i] \in DetailLoad /\ ListenedIsCurrent(detailLoads[i])
              /\ detailLoads[i].of \in Routes /\ detailLoads[i].version \in Nat
         /\ \A r \in Routes : records[r] \in Nat /\ told[r] \in Nat /\ told[r] <= records[r]
         /\ shown.version \in Nat
<1>1. Len(detailLoads) \in Nat /\ DOMAIN detailLoads = 1..Len(detailLoads)
      /\ \A i \in 1..Len(detailLoads) : detailLoads[i] \in DetailLoad
  BY DEF DetailInv, DetailTypeOK
<1>2. QED
  BY <1>1 DEF DetailInv, DetailTypeOK, DetailKnown, DetailLoad

\* What no list of requests depends on.
LEMMA DetailFlowsOnly ==
  ASSUME DetailInv, UNCHANGED <<records, told, detailRoute, due, gen, shown, detailLoads>>,
         flows' \in [Flows -> FlowState],
         \A o \in Flows :
           /\ flows'[o].at # "idle" => flows'[o].of \in Routes
           /\ flows'[o].at = "applied" => flows'[o].version <= records[flows'[o].of]
  PROVE  DetailInv'
<1>1. DetailTypeOK' /\ DetailKnown'
  BY DEF DetailInv, DetailTypeOK, DetailKnown
<1>2. OneListened' /\ Detail!RestsOnCurrent'
  BY DEF DetailInv, OneListened, Detail!RestsOnCurrent, Detail!AtRest
<1>3. ASSUME NEW i \in 1..Len(detailLoads)' PROVE ListenedIsCurrent(detailLoads[i])'
  BY DEF DetailInv, ListenedIsCurrent
<1>4. QED
  BY <1>1, <1>2, <1>3 DEF DetailInv

LEMMA SupersededLoads ==
  ASSUME detailLoads \in Seq(DetailLoad)
  PROVE  /\ Detail!Superseded(detailLoads) \in Seq(DetailLoad)
         /\ Len(Detail!Superseded(detailLoads)) = Len(detailLoads)
         /\ \A i \in 1..Len(detailLoads) : Detail!Superseded(detailLoads)[i].settled
<1>1. \A i \in 1..Len(detailLoads) :
        [detailLoads[i] EXCEPT !.settled = TRUE] \in DetailLoad /\ [detailLoads[i] EXCEPT !.settled = TRUE].settled
  <2>1. \A i \in 1..Len(detailLoads) : detailLoads[i] \in DetailLoad
    OBVIOUS
  <2> QED  BY <2>1 DEF DetailLoad
<1>2. DOMAIN detailLoads = 1..Len(detailLoads) /\ Len(detailLoads) \in Nat
  OBVIOUS
<1> DEFINE a == Detail!Superseded(detailLoads)
<1>3. a = [i \in 1..Len(detailLoads) |-> [detailLoads[i] EXCEPT !.settled = TRUE]]
  BY <1>2 DEF Detail!Superseded
<1>4. a \in [1..Len(detailLoads) -> DetailLoad]
  BY <1>1, <1>3
<1>5. \A i \in 1..Len(detailLoads) : a[i].settled
  BY <1>1, <1>3
<1> HIDE DEF a
<1>6. a \in Seq(DetailLoad) /\ Len(a) = Len(detailLoads)
  BY <1>2, <1>4
<1>7. QED
  BY <1>5, <1>6 DEF a

\* Leaving the ready view forgets the forms.
LEMMA ShowKeepsForms ==
  ASSUME DetailInv, NEW screen, Detail!Show(screen)
  PROVE  /\ shown' = screen /\ flows' \in [Flows -> FlowState]
         /\ \A o \in Flows : flows'[o] = flows[o] \/ flows'[o].at = "idle"
<1>1. Detail!IdleFlow \in FlowState /\ Detail!IdleFlow.at = "idle"
  BY DEF Detail!IdleFlow, FlowState
<1>2. QED
  BY <1>1 DEF Detail!Show, DetailInv, DetailTypeOK

LEMMA DetailLoadsStep ==
  ASSUME DetailInv,
         \/ Detail!RunEffect \/ (\E i \in DOMAIN detailLoads : Detail!AnswerLoad(i) \/ Detail!DeliverLoad(i))
  PROVE  DetailInv' /\ Detail!KeepsUp
<1>0. /\ Len(detailLoads) \in Nat /\ DOMAIN detailLoads = 1..Len(detailLoads)
      /\ \A i \in 1..Len(detailLoads) :
           /\ detailLoads[i] \in DetailLoad /\ ListenedIsCurrent(detailLoads[i])
           /\ detailLoads[i].of \in Routes /\ detailLoads[i].version \in Nat
      /\ \A r \in Routes : records[r] \in Nat /\ told[r] \in Nat /\ told[r] <= records[r]
      /\ shown.version \in Nat
  BY DetailFacts
<1>1. CASE Detail!RunEffect
  <2>1. due' = FALSE /\ UNCHANGED <<records, told, detailRoute, gen>>
    BY <1>1 DEF Detail!RunEffect
  <2>2. /\ shown' = shown \/ shown' = [status |-> "loading", of |-> "none", version |-> 0]
        /\ flows' \in [Flows -> FlowState]
        /\ \A o \in Flows : flows'[o] = flows[o] \/ flows'[o].at = "idle"
    <3>1. CASE keepStale
      BY <1>1, <3>1 DEF Detail!RunEffect, DetailInv, DetailTypeOK
    <3>2. CASE ~keepStale
      BY <1>1, <3>2, ShowKeepsForms DEF Detail!RunEffect, Detail!Loading
    <3> QED  BY <3>1, <3>2
  <2> DEFINE new == [of |-> detailRoute, at |-> "sent", version |-> 0, settled |-> FALSE]
             old == Detail!Superseded(detailLoads)
  <2>3. new \in DetailLoad /\ ~new.settled /\ new.of = detailRoute /\ new.at = "sent"
    BY DEF DetailInv, DetailTypeOK, DetailLoad
  <2>4. old \in Seq(DetailLoad) /\ Len(old) = Len(detailLoads)
        /\ \A i \in 1..Len(detailLoads) : old[i].settled
    BY SupersededLoads DEF DetailInv, DetailTypeOK
  <2>5. detailLoads' = Append(old, new)
    BY <1>1 DEF Detail!RunEffect
  <2> HIDE DEF new, old
  <2>6. /\ detailLoads' \in Seq(DetailLoad) /\ Len(detailLoads') = Len(detailLoads) + 1
        /\ \A i \in 1..Len(detailLoads) : detailLoads'[i].settled
        /\ detailLoads'[Len(detailLoads) + 1] = new
    BY <1>0, <2>3, <2>4, <2>5
  <2>7. DetailTypeOK'
    <3>1. shown' \in [status : {"loading", "ready", "error"}, of : Routes \cup {"none"}, version : Nat]
      BY <2>2 DEF DetailInv, DetailTypeOK
    <3> QED  BY <2>1, <2>2, <2>6, <3>1 DEF DetailInv, DetailTypeOK
  <2>8. DetailKnown'
    BY <2>1, <2>2 DEF DetailInv, DetailKnown
  <2>9. OneListened'
    BY <1>0, <2>6 DEF OneListened
  <2>10. ASSUME NEW i \in 1..Len(detailLoads)' PROVE ListenedIsCurrent(detailLoads[i])'
    <3>1. CASE i = Len(detailLoads) + 1
      BY <2>1, <2>3, <2>6, <3>1 DEF ListenedIsCurrent
    <3>2. CASE i # Len(detailLoads) + 1
      BY <1>0, <2>6, <3>2 DEF ListenedIsCurrent
    <3> QED  BY <3>1, <3>2
  <2>11. Detail!RestsOnCurrent'
    BY <1>0, <2>3, <2>6 DEF Detail!RestsOnCurrent, Detail!AtRest
  <2>12. Detail!KeepsUp
    BY <1>0, <2>2 DEF Detail!KeepsUp
  <2> QED  BY <2>7, <2>8, <2>9, <2>10, <2>11, <2>12 DEF DetailInv
<1>2. ASSUME NEW i \in 1..Len(detailLoads), Detail!AnswerLoad(i) PROVE DetailInv' /\ Detail!KeepsUp
  <2>1. UNCHANGED <<records, told, detailRoute, due, gen, shown, flows>> /\ detailLoads[i].at = "sent"
    BY <1>2 DEF Detail!AnswerLoad
  <2> DEFINE l == detailLoads[i]
  <2>2. PICK m \in DetailLoad :
          /\ detailLoads' = [detailLoads EXCEPT ![i] = m]
          /\ m.of = l.of /\ m.settled = l.settled
          /\ m.at = "ready" => m.version = records[l.of]
    <3>1. l \in DetailLoad /\ records[l.of] \in Nat
      BY <1>0
    <3>2. [l EXCEPT !.at = "ready", !.version = records[l.of]] \in DetailLoad /\ [l EXCEPT !.at = "error"] \in DetailLoad
      BY <3>1 DEF DetailLoad
    <3>3. \/ detailLoads' = [detailLoads EXCEPT ![i] = [l EXCEPT !.at = "ready", !.version = records[l.of]]]
          \/ detailLoads' = [detailLoads EXCEPT ![i] = [l EXCEPT !.at = "error"]]
      BY <1>2, <1>0 DEF Detail!AnswerLoad
    <3>4. CASE detailLoads' = [detailLoads EXCEPT ![i] = [l EXCEPT !.at = "ready", !.version = records[l.of]]]
      <4> DEFINE m == [l EXCEPT !.at = "ready", !.version = records[l.of]]
      <4>1. m.of = l.of /\ m.settled = l.settled /\ m.version = records[l.of]
        BY <3>1 DEF DetailLoad
      <4> QED  BY <3>2, <3>4, <4>1
    <3>5. CASE detailLoads' = [detailLoads EXCEPT ![i] = [l EXCEPT !.at = "error"]]
      <4> DEFINE m == [l EXCEPT !.at = "error"]
      <4>1. m.of = l.of /\ m.settled = l.settled /\ m.at = "error"
        BY <3>1 DEF DetailLoad
      <4> QED  BY <3>2, <3>5, <4>1
    <3> QED  BY <3>3, <3>4, <3>5
  <2>3. /\ detailLoads' \in Seq(DetailLoad) /\ Len(detailLoads') = Len(detailLoads)
        /\ detailLoads'[i] = m /\ \A j \in 1..Len(detailLoads) : j # i => detailLoads'[j] = detailLoads[j]
    BY <1>0, <2>2 DEF DetailInv, DetailTypeOK
  <2>4. DetailTypeOK' /\ DetailKnown'
    BY <2>1, <2>3 DEF DetailInv, DetailTypeOK, DetailKnown
  <2>5. \A j \in 1..Len(detailLoads) : detailLoads'[j].settled = detailLoads[j].settled
    BY <2>2, <2>3
  <2>6. OneListened' /\ Detail!RestsOnCurrent'
    <3>1. OneListened'
      BY <2>3, <2>5 DEF OneListened, DetailInv
    <3>2. DOMAIN detailLoads' = 1..Len(detailLoads)
      BY <2>3
    <3>3. Detail!RestsOnCurrent'
      BY <1>0, <2>1, <2>5, <3>2 DEF DetailInv, Detail!RestsOnCurrent, Detail!AtRest
    <3> QED  BY <3>1, <3>3
  <2>7. ASSUME NEW j \in 1..Len(detailLoads)' PROVE ListenedIsCurrent(detailLoads[j])'
    <3>1. CASE j = i
      BY <1>0, <2>1, <2>2, <2>3, <3>1 DEF ListenedIsCurrent, DetailInv, DetailKnown, DetailTypeOK
    <3>2. CASE j # i
      BY <1>0, <2>1, <2>3, <3>2 DEF ListenedIsCurrent
    <3> QED  BY <3>1, <3>2
  <2> QED  BY <1>0, <2>1, <2>4, <2>6, <2>7 DEF DetailInv, Detail!KeepsUp
<1>3. ASSUME NEW i \in 1..Len(detailLoads), Detail!DeliverLoad(i) PROVE DetailInv' /\ Detail!KeepsUp
  <2>1. UNCHANGED <<records, told, detailRoute, due, gen>> /\ detailLoads[i].at # "sent"
        /\ detailLoads' = Without(detailLoads, i)
    BY <1>3 DEF Detail!DeliverLoad, Detail!RemoveAt, Without
  <2>2. detailLoads' \in Seq(DetailLoad) /\ Len(detailLoads') = Len(detailLoads) - 1
        /\ \A j \in 1..(Len(detailLoads) - 1) : detailLoads'[j] = detailLoads[IF j < i THEN j ELSE j + 1]
    BY <2>1, ListWithout DEF DetailInv, DetailTypeOK
  <2> DEFINE was(j) == IF j < i THEN j ELSE j + 1
  <2>3. \A j \in 1..Len(detailLoads') :
          was(j) \in 1..Len(detailLoads) /\ was(j) # i /\ detailLoads'[j] = detailLoads[was(j)]
    BY <1>0, <2>2
  <2>4. \A j, k \in 1..Len(detailLoads') : was(j) = was(k) => j = k
    BY <1>0, <2>2
  <2>4b. \A k \in 1..Len(detailLoads) : k # i => \E j \in 1..Len(detailLoads') : was(j) = k
    <3> SUFFICES ASSUME NEW k \in 1..Len(detailLoads), k # i
                 PROVE  \E j \in 1..Len(detailLoads') : was(j) = k
      OBVIOUS
    <3>1. CASE k < i
      BY <1>0, <2>2, <3>1
    <3>2. CASE ~(k < i)
      <4>1. k - 1 \in 1..Len(detailLoads') /\ was(k - 1) = k
        BY <1>0, <2>2, <3>2
      <4> QED  BY <4>1
    <3> QED  BY <3>1, <3>2
  <2> HIDE DEF was
  <2>5. OneListened'
    BY <2>3, <2>4 DEF OneListened, DetailInv
  <2>6. CASE detailLoads[i].settled
    <3>1. UNCHANGED <<shown, flows>>
      BY <1>3, <2>6 DEF Detail!DeliverLoad, Detail!Settles
    <3>2. DetailTypeOK' /\ DetailKnown'
      BY <2>1, <2>2, <3>1 DEF DetailInv, DetailTypeOK, DetailKnown
    <3>3. ASSUME NEW j \in 1..Len(detailLoads)' PROVE ListenedIsCurrent(detailLoads[j])'
      BY <1>0, <2>1, <2>3, <3>1 DEF ListenedIsCurrent
    <3>4. Detail!RestsOnCurrent'
      <4>1. DOMAIN detailLoads' = 1..Len(detailLoads')
        BY <2>2
      <4>2. Detail!AtRest' => Detail!AtRest
        BY <1>0, <2>1, <2>3, <2>4b, <2>6, <4>1 DEF Detail!AtRest
      <4> QED  BY <2>1, <3>1, <4>2 DEF DetailInv, Detail!RestsOnCurrent
    <3> QED  BY <1>0, <2>5, <3>1, <3>2, <3>3, <3>4 DEF DetailInv, Detail!KeepsUp
  <2>7. CASE ~detailLoads[i].settled
    <3> DEFINE l == detailLoads[i]
               screen == [status |-> l.at, of |-> l.of, version |-> l.version]
    <3>1. Detail!Show(screen)
      BY <1>3, <2>7 DEF Detail!DeliverLoad, Detail!Settles
    <3>2. /\ shown' = screen /\ flows' \in [Flows -> FlowState]
          /\ \A o \in Flows : flows'[o] = flows[o] \/ flows'[o].at = "idle"
      BY <3>1, ShowKeepsForms
    <3>3. l \in DetailLoad /\ ListenedIsCurrent(l) /\ l.at \in {"ready", "error"} /\ l.of \in Routes /\ l.version \in Nat
      BY <1>0, <2>1 DEF DetailLoad
    <3>4. DetailTypeOK'
      BY <2>1, <2>2, <3>2, <3>3 DEF DetailInv, DetailTypeOK
    <3>5. DetailKnown'
      BY <2>1, <2>7, <3>2, <3>3 DEF DetailInv, DetailKnown, ListenedIsCurrent
    <3>6. \A j \in 1..Len(detailLoads)' : detailLoads'[j].settled
      BY <2>3, <2>7 DEF DetailInv, OneListened
    <3>7. ASSUME NEW j \in 1..Len(detailLoads)' PROVE ListenedIsCurrent(detailLoads[j])'
      BY <3>6 DEF ListenedIsCurrent
    <3>8. Detail!RestsOnCurrent'
      BY <2>1, <2>7, <3>2, <3>3 DEF Detail!RestsOnCurrent, Detail!AtRest, ListenedIsCurrent
    <3>9. Detail!KeepsUp
      BY <2>7, <3>2, <3>3 DEF Detail!KeepsUp, ListenedIsCurrent
    <3> QED  BY <2>5, <3>4, <3>5, <3>7, <3>8, <3>9 DEF DetailInv
  <2> QED  BY <2>6, <2>7
<1> QED  BY <1>0, <1>1, <1>2, <1>3

\* The forms, and what the page is told of their mutations.
LEMMA FlowChanged ==
  ASSUME DetailInv, NEW o \in Flows, NEW f \in FlowState, flows' = [flows EXCEPT ![o] = f]
  PROVE  flows' \in [Flows -> FlowState] /\ flows'[o] = f /\ \A p \in Flows : p # o => flows'[p] = flows[p]
BY DEF DetailInv, DetailTypeOK

LEMMA FormsStep ==
  ASSUME DetailInv,
         \/ Detail!RequestTransition \/ Detail!CreateLink \/ Detail!RevokeGrant \/ Detail!SetRetention \/ Detail!CancelDialog
  PROVE  DetailInv' /\ shown' = shown
<1>1. ASSUME NEW o, Detail!Run(o) PROVE DetailInv' /\ shown' = shown
  <2> DEFINE f == [at |-> "sent", result |-> "none", of |-> shown.of, version |-> 0]
  <2>1. /\ o \in Flows /\ shown.status = "ready" /\ flows' = [flows EXCEPT ![o] = f]
        /\ UNCHANGED <<records, told, detailRoute, due, gen, shown, detailLoads>>
    BY <1>1 DEF Detail!Run
  <2>2. f \in FlowState /\ f.of \in Routes /\ f.at = "sent"
    BY <2>1 DEF DetailInv, DetailTypeOK, DetailKnown, FlowState
  <2> HIDE DEF f
  <2>3. flows' \in [Flows -> FlowState] /\ flows'[o] = f /\ \A p \in Flows : p # o => flows'[p] = flows[p]
    BY <2>1, <2>2, FlowChanged
  <2>4. \A p \in Flows :
          /\ flows'[p].at # "idle" => flows'[p].of \in Routes
          /\ flows'[p].at = "applied" => flows'[p].version <= records[flows'[p].of]
    BY <2>2, <2>3 DEF DetailInv, DetailKnown
  <2>5. QED
    BY <2>1, <2>3, <2>4, DetailFlowsOnly
<1>2. ASSUME UNCHANGED <<records, told, detailRoute, due, gen, shown, detailLoads, flows>>
      PROVE  DetailInv' /\ shown' = shown
  BY <1>2, DetailFlowsOnly DEF DetailInv, DetailTypeOK, DetailKnown
<1>3. CASE Detail!RequestTransition
  BY <1>1, <1>2, <1>3 DEF Detail!RequestTransition, Detail!Open
<1>4. CASE Detail!CreateLink
  BY <1>1, <1>4 DEF Detail!CreateLink
<1>5. CASE Detail!RevokeGrant
  BY <1>1, <1>2, <1>5 DEF Detail!RevokeGrant, Detail!Open
<1>6. CASE Detail!SetRetention
  BY <1>1, <1>6 DEF Detail!SetRetention
<1>7. CASE Detail!CancelDialog
  BY <1>2, <1>7 DEF Detail!CancelDialog
<1> QED  BY <1>3, <1>4, <1>5, <1>6, <1>7

\* A record that grows older than the page: what the page holds stays no newer.
LEMMA RecordGrows ==
  ASSUME DetailInv, NEW r \in Routes, records' = [records EXCEPT ![r] = @ + 1],
         UNCHANGED <<told, detailRoute, due, gen, shown, detailLoads>>,
         flows' \in [Flows -> FlowState],
         \A o \in Flows :
           /\ flows'[o].at # "idle" => flows'[o].of \in Routes
           /\ flows'[o].at = "applied" => flows'[o].version <= records'[flows'[o].of]
  PROVE  DetailInv'
<1>1. /\ \A s \in Routes : records[s] \in Nat /\ told[s] \in Nat /\ told[s] <= records[s]
      /\ \A i \in 1..Len(detailLoads) :
           detailLoads[i] \in DetailLoad /\ ListenedIsCurrent(detailLoads[i])
             /\ detailLoads[i].of \in Routes /\ detailLoads[i].version \in Nat
      /\ shown.version \in Nat
  BY DetailFacts
<1>2. records' \in [Routes -> Nat] /\ \A s \in Routes : records[s] <= records'[s]
  BY <1>1 DEF DetailInv, DetailTypeOK
<1>2a. \A s \in Routes : records'[s] \in Nat
  BY <1>2
<1>3. DetailTypeOK'
  BY <1>2 DEF DetailInv, DetailTypeOK
<1>4. DetailKnown'
  BY <1>1, <1>2, <1>2a DEF DetailInv, DetailKnown
<1>5. OneListened' /\ Detail!RestsOnCurrent'
  BY DEF DetailInv, OneListened, Detail!RestsOnCurrent, Detail!AtRest
<1>6. ASSUME NEW i \in 1..Len(detailLoads)' PROVE ListenedIsCurrent(detailLoads[i])'
  BY <1>1, <1>2, <1>2a DEF ListenedIsCurrent
<1>7. QED
  BY <1>3, <1>4, <1>5, <1>6 DEF DetailInv

LEMMA MutationStep ==
  ASSUME DetailInv, NEW o \in Flows, Detail!AnswerMutation(o) \/ Detail!DeliverMutation(o)
  PROVE  DetailInv' /\ shown' = shown
<1>0. /\ \A s \in Routes : records[s] \in Nat /\ told[s] \in Nat /\ told[s] <= records[s]
      /\ \A i \in 1..Len(detailLoads) :
           detailLoads[i] \in DetailLoad /\ ListenedIsCurrent(detailLoads[i])
             /\ detailLoads[i].of \in Routes /\ detailLoads[i].version \in Nat
      /\ shown.version \in Nat
  BY DetailFacts
<1>1. flows[o] \in FlowState
  BY DEF DetailInv, DetailTypeOK
<1>2. CASE Detail!AnswerMutation(o)
  <2>1. UNCHANGED <<told, detailRoute, due, gen, shown, detailLoads>> /\ flows[o].at = "sent" /\ flows[o].of \in Routes
    BY <1>2 DEF Detail!AnswerMutation, DetailInv, DetailKnown
  <2>2. CASE records' = [records EXCEPT ![flows[o].of] = @ + 1]
             /\ flows' = [flows EXCEPT ![o].at = "applied", ![o].version = records[flows[o].of] + 1]
    <3> DEFINE f == [flows[o] EXCEPT !.at = "applied", !.version = records[flows[o].of] + 1]
    <3>1. flows' = [flows EXCEPT ![o] = f]
      BY <2>2 DEF DetailInv, DetailTypeOK
    <3>2. f \in FlowState /\ f.of = flows[o].of /\ f.version = records[flows[o].of] + 1
      <4>1. records[flows[o].of] + 1 \in Nat
        BY <1>0, <2>1
      <4>2. ASSUME NEW v \in Nat
            PROVE  /\ [flows[o] EXCEPT !.at = "applied", !.version = v] \in FlowState
                   /\ [flows[o] EXCEPT !.at = "applied", !.version = v].of = flows[o].of
                   /\ [flows[o] EXCEPT !.at = "applied", !.version = v].version = v
        BY <1>1 DEF FlowState
      <4> QED  BY <4>1, <4>2
    <3> HIDE DEF f
    <3>3. flows' \in [Flows -> FlowState] /\ flows'[o] = f /\ \A p \in Flows : p # o => flows'[p] = flows[p]
      BY <3>1, <3>2, FlowChanged
    <3>4. \A s \in Routes : records'[s] = IF s = flows[o].of THEN records[s] + 1 ELSE records[s]
      BY <2>1, <2>2 DEF DetailInv, DetailTypeOK
    <3>5. ASSUME NEW p \in Flows
          PROVE  /\ flows'[p].at # "idle" => flows'[p].of \in Routes
                 /\ flows'[p].at = "applied" => flows'[p].version <= records'[flows'[p].of]
      <4>1. CASE p = o
        BY <1>0, <2>1, <3>2, <3>3, <3>4, <4>1
      <4>2. CASE p # o
        <5>1. flows'[p] = flows[p] /\ flows[p] \in FlowState
          BY <3>3, <4>2 DEF DetailInv, DetailTypeOK
        <5>2. flows[p].version \in Nat
          BY <5>1 DEF FlowState
        <5>3. QED
          BY <1>0, <3>4, <5>1, <5>2 DEF DetailInv, DetailKnown
      <4> QED  BY <4>1, <4>2
    <3>6. QED
      BY <2>1, <2>2, <3>3, <3>5, RecordGrows
  <2>3. CASE flows' = [flows EXCEPT ![o].at = "refused"] /\ UNCHANGED records
    <3> DEFINE f == [flows[o] EXCEPT !.at = "refused"]
    <3>1. flows' = [flows EXCEPT ![o] = f]
      BY <2>3 DEF DetailInv, DetailTypeOK
    <3>2. f \in FlowState /\ f.of = flows[o].of /\ f.at = "refused"
      BY <1>1 DEF FlowState
    <3> HIDE DEF f
    <3>3. flows' \in [Flows -> FlowState] /\ flows'[o] = f /\ \A p \in Flows : p # o => flows'[p] = flows[p]
      BY <3>1, <3>2, FlowChanged
    <3>4. \A p \in Flows :
            /\ flows'[p].at # "idle" => flows'[p].of \in Routes
            /\ flows'[p].at = "applied" => flows'[p].version <= records[flows'[p].of]
      BY <2>1, <3>2, <3>3 DEF DetailInv, DetailKnown
    <3>5. QED
      BY <2>1, <2>3, <3>3, <3>4, DetailFlowsOnly
  <2> QED  BY <1>2, <2>2, <2>3 DEF Detail!AnswerMutation
<1>3. CASE Detail!DeliverMutation(o)
  <2>1. UNCHANGED <<records, detailRoute, due, shown, detailLoads>> /\ flows[o].at \in {"applied", "refused"}
        /\ flows[o].of \in Routes
    BY <1>3 DEF Detail!DeliverMutation, DetailInv, DetailKnown
  <2> DEFINE f == [flows[o] EXCEPT !.at = "idle", !.result = IF flows[o].at = "applied" THEN "done" ELSE "failed"]
  <2>2. flows' = [flows EXCEPT ![o] = f]
    BY <1>3 DEF Detail!DeliverMutation, DetailInv, DetailTypeOK
  <2>3. f \in FlowState /\ f.at = "idle"
    BY <1>1 DEF FlowState
  <2> HIDE DEF f
  <2>4. flows' \in [Flows -> FlowState] /\ flows'[o] = f /\ \A p \in Flows : p # o => flows'[p] = flows[p]
    BY <2>2, <2>3, FlowChanged
  <2>5. \A p \in Flows :
          /\ flows'[p].at # "idle" => flows'[p].of \in Routes
          /\ flows'[p].at = "applied" => flows'[p].version <= records[flows'[p].of]
    BY <2>3, <2>4 DEF DetailInv, DetailKnown
  <2>6. CASE flows[o].at # "applied"
    BY <1>3, <2>1, <2>4, <2>5, <2>6, DetailFlowsOnly DEF Detail!DeliverMutation
  <2>7. CASE flows[o].at = "applied"
    <3>1. gen' = TRUE /\ told' = [told EXCEPT ![flows[o].of] = IF @ > flows[o].version THEN @ ELSE flows[o].version]
      BY <1>3, <2>7 DEF Detail!DeliverMutation, Detail!Changed, Detail!Reload
    <3>2. flows[o].version \in Nat /\ flows[o].version <= records[flows[o].of]
      BY <1>1, <2>7 DEF FlowState, DetailInv, DetailKnown
    <3>3. told' \in [Routes -> Nat] /\ \A s \in Routes : told'[s] <= records[s]
      BY <1>0, <2>1, <3>1, <3>2 DEF DetailInv, DetailTypeOK
    <3>4. DetailTypeOK'
      BY <2>1, <2>4, <3>1, <3>3 DEF DetailInv, DetailTypeOK
    <3>5. DetailKnown'
      BY <2>1, <2>5, <3>3 DEF DetailInv, DetailKnown
    <3>6. OneListened' /\ Detail!RestsOnCurrent'
      BY <2>1, <3>1 DEF DetailInv, OneListened, Detail!RestsOnCurrent, Detail!AtRest
    <3>7. ASSUME NEW i \in 1..Len(detailLoads)' PROVE ListenedIsCurrent(detailLoads[i])'
      BY <1>0, <2>1, <3>1 DEF ListenedIsCurrent
    <3> QED  BY <2>1, <3>4, <3>5, <3>6, <3>7 DEF DetailInv
  <2> QED  BY <2>6, <2>7
<1> QED  BY <1>2, <1>3

LEMMA DetailStep ==
  ASSUME DetailInv, Detail!DetailNext
  PROVE  DetailInv' /\ Detail!KeepsUp
<1>0. /\ \A s \in Routes : records[s] \in Nat /\ told[s] \in Nat /\ told[s] <= records[s]
      /\ \A i \in 1..Len(detailLoads) :
           detailLoads[i] \in DetailLoad /\ ListenedIsCurrent(detailLoads[i])
             /\ detailLoads[i].of \in Routes /\ detailLoads[i].version \in Nat
      /\ shown.version \in Nat
  BY DetailFacts
<1>1. shown' = shown => Detail!KeepsUp
  BY <1>0 DEF Detail!KeepsUp
<1>2. CASE Detail!RunEffect \/ Detail!AnswerSome \/ Detail!DeliverSome
  BY <1>2, DetailLoadsStep DEF Detail!AnswerSome, Detail!DeliverSome
\* A commit or a navigation schedules an effect; a retry schedules a commit.
<1>3. ASSUME UNCHANGED <<records, told, shown, detailLoads, flows>>,
             detailRoute' \in Routes, due' \in BOOLEAN, gen' \in BOOLEAN,
             due' \/ (gen' /\ UNCHANGED <<detailRoute, due>>)
      PROVE  DetailInv' /\ shown' = shown
  <2>1. DetailTypeOK' /\ DetailKnown'
    BY <1>3 DEF DetailInv, DetailTypeOK, DetailKnown
  <2>2. OneListened' /\ Detail!RestsOnCurrent'
    BY <1>3 DEF DetailInv, OneListened, Detail!RestsOnCurrent, Detail!AtRest
  <2>3. ASSUME NEW i \in 1..Len(detailLoads)' PROVE ListenedIsCurrent(detailLoads[i])'
    BY <1>0, <1>3 DEF ListenedIsCurrent
  <2> QED  BY <1>3, <2>1, <2>2, <2>3 DEF DetailInv
<1>4. CASE Detail!CommitReload
  BY <1>1, <1>3, <1>4 DEF Detail!CommitReload, DetailInv, DetailTypeOK
<1>5. ASSUME NEW r \in Routes, Detail!Navigate(r) PROVE DetailInv' /\ Detail!KeepsUp
  BY <1>1, <1>3, <1>5 DEF Detail!Navigate, DetailInv, DetailTypeOK
<1>6. CASE Detail!Retry
  BY <1>1, <1>3, <1>6 DEF Detail!Retry, Detail!Reload, DetailInv, DetailTypeOK
<1>7. CASE \/ Detail!RequestTransition \/ Detail!CreateLink \/ Detail!RevokeGrant \/ Detail!SetRetention
           \/ Detail!CancelDialog
  BY <1>1, <1>7, FormsStep
<1>8. ASSUME NEW o \in Flows, Detail!AnswerMutation(o) \/ Detail!DeliverMutation(o) PROVE DetailInv' /\ Detail!KeepsUp
  BY <1>1, <1>8, MutationStep
<1>9. ASSUME NEW r \in Routes, Detail!Elsewhere(r) PROVE DetailInv' /\ Detail!KeepsUp
  <2>1. records' = [records EXCEPT ![r] = @ + 1]
        /\ UNCHANGED <<told, detailRoute, due, gen, shown, detailLoads, flows>>
    BY <1>9 DEF Detail!Elsewhere
  <2>2. \A s \in Routes : records'[s] \in Nat /\ records[s] <= records'[s]
    BY <1>0, <2>1 DEF DetailInv, DetailTypeOK
  <2>3. \A o \in Flows : flows[o].version \in Nat
    <3>1. \A o \in Flows : flows[o] \in FlowState
      BY DEF DetailInv, DetailTypeOK
    <3> QED  BY <3>1 DEF FlowState
  <2>4. flows' \in [Flows -> FlowState]
        /\ \A o \in Flows :
             /\ flows'[o].at # "idle" => flows'[o].of \in Routes
             /\ flows'[o].at = "applied" => flows'[o].version <= records'[flows'[o].of]
    BY <1>0, <2>1, <2>2, <2>3 DEF DetailInv, DetailTypeOK, DetailKnown
  <2> QED  BY <1>1, <2>1, <2>4, RecordGrows
<1>10. QED
  BY <1>2, <1>4, <1>5, <1>6, <1>7, <1>8, <1>9 DEF Detail!DetailNext

-----------------------------------------------------------------------------
(* The symbols page.                                                       *)

QueueEntry == [artifact : Artifacts, status : {"waiting", "uploading", "done", "failed"}]
QueueLoad == [at : {"idle", "sent", "ready", "error"}, shown : SUBSET Queue!Records]

QueueTypeOK ==
  /\ files \in Seq(QueueEntry) /\ queueLoad \in QueueLoad
  /\ draining \in BOOLEAN /\ any \in BOOLEAN /\ queueMounted \in BOOLEAN
  /\ store \in SUBSET Queue!Records
  /\ upload \in [at : {"none", "sent", "ok", "refused"}, entry : Nat]

\* What was stored, and what the page was told of it.
StoreKnown ==
  /\ store \subseteq ever /\ gone \subseteq ever /\ mine \subseteq store /\ gone \cap store = {}
  /\ purge.at # "none" => purge.target \in ever
  /\ artifacts.status = "ready" => artifacts.shown \subseteq ever
  /\ queueLoad.at = "ready" => queueLoad.shown \subseteq ever
  /\ purge.at = "ok" => purge.target \notin store
  /\ \A i \in 1..Len(files) : files[i].status = "done" => \E r \in ever : r[1] = files[i].artifact
  /\ upload.at # "none" => draining /\ upload.entry \in 1..Len(files)
  /\ upload.at = "ok" => \E r \in ever : r[1] = files[upload.entry].artifact

\* A list that has all the page registered and nothing it purged.
UpToDate(list) == mine \subseteq list /\ gone \cap list = {}

\* Unless a drain will load it again, the list is up to date once what the page
\* listens to has come.
ListIsDue == draining /\ any
ListFresh ==
  queueMounted => \/ ListIsDue
                  \/ /\ queueLoad.at = "ready" => UpToDate(queueLoad.shown)
                     /\ (queueLoad.at = "idle" /\ artifacts.status = "ready") => UpToDate(artifacts.shown)

QueueInv == QueueTypeOK /\ StoreKnown /\ ListFresh

LEMMA QueueFacts ==
  ASSUME QueueInv
  PROVE  /\ Len(files) \in Nat /\ DOMAIN files = 1..Len(files)
         /\ \A i \in 1..Len(files) : files[i] \in QueueEntry
BY DEF QueueInv, QueueTypeOK

\* A load is yet to be answered.
LEMMA FreshOnceLoaded ==
  ASSUME queueLoad' = Queue!Load
  PROVE  queueLoad' \in QueueLoad /\ queueLoad'.at = "sent" /\ ListFresh'
BY DEF Queue!Load, QueueLoad, ListFresh

\* What was told of the store may be outdone by the store.
LEMMA FreshWithLess ==
  ASSUME QueueInv, UNCHANGED <<queueMounted, queueLoad, artifacts>>, ListIsDue => ListIsDue',
         mine' \subseteq mine, gone' \subseteq gone
  PROVE  ListFresh'
<1>1. \A list : UpToDate(list) => mine' \subseteq list /\ gone' \cap list = {}
  BY DEF UpToDate
<1> QED  BY <1>1 DEF QueueInv, ListFresh, UpToDate

\* The next file of the queue.
LEMMA NextWaits ==
  ASSUME NEW q \in Seq(QueueEntry), Queue!Waiting(q) # {}
  PROVE  Queue!Next(q) \in 1..Len(q) /\ q[Queue!Next(q)].status = "waiting"
<1>1. Queue!Waiting(q) \in SUBSET Nat /\ Queue!Waiting(q) \subseteq 1..Len(q)
  BY DEF Queue!Waiting
<1>2. \E i \in Queue!Waiting(q) : \A j \in Queue!Waiting(q) : i <= j
  BY <1>1, LeastNumber
<1>3. Queue!Next(q) \in Queue!Waiting(q)
  BY <1>2, Zenon DEF Queue!Next
<1>4. QED
  BY <1>1, <1>3 DEF Queue!Waiting

\* A turn of the drain starts a file; nothing else becomes done.
LEMMA TurnStep ==
  ASSUME NEW q \in Seq(QueueEntry), Queue!Waiting(q) # {}, Queue!Turn(q), NEW S,
         \A i \in 1..Len(q) : q[i].status = "done" => \E r \in S : r[1] = q[i].artifact
  PROVE  /\ files' \in Seq(QueueEntry) /\ upload' \in [at : {"none", "sent", "ok", "refused"}, entry : Nat]
         /\ upload'.at = "sent" /\ upload'.entry \in 1..Len(files')
         /\ \A i \in 1..Len(files') : files'[i].status = "done" => \E r \in S : r[1] = files'[i].artifact
<1> DEFINE n == Queue!Next(q)
           e == [q[n] EXCEPT !.status = "uploading"]
<1>1. n \in 1..Len(q) /\ Len(q) \in Nat
  BY NextWaits
<1>2. files' = [q EXCEPT ![n] = e] /\ upload' = [at |-> "sent", entry |-> n]
  BY <1>1 DEF Queue!Turn
<1>3. e \in QueueEntry /\ e.status = "uploading"
  <2>1. q[n] \in QueueEntry
    BY <1>1
  <2> QED  BY <2>1 DEF QueueEntry
<1> HIDE DEF n, e
<1>4. /\ files' \in Seq(QueueEntry) /\ Len(files') = Len(q) /\ files'[n] = e
      /\ \A i \in 1..Len(q) : i # n => files'[i] = q[i]
  BY <1>1, <1>2, <1>3
<1>5. QED
  BY <1>1, <1>2, <1>3, <1>4

LEMMA QueueStart == Queue!QueueInit => QueueInv
<1> SUFFICES ASSUME Queue!QueueInit PROVE QueueInv
  OBVIOUS
<1>1. /\ store = {} /\ ever = {} /\ files = <<>> /\ draining = FALSE /\ any = FALSE /\ queueMounted = TRUE
      /\ upload = [at |-> "none", entry |-> 0] /\ artifacts.status = "loading"
      /\ queueLoad = [at |-> "sent", shown |-> {}] /\ mine = {} /\ gone = {} /\ purge.at = "none"
  BY DEF Queue!QueueInit, Queue!NoUpload, Queue!Load, Queue!NoPurge
<1>2. queueLoad \in QueueLoad
  BY <1>1 DEF QueueLoad
<1>3. files \in Seq(QueueEntry) /\ upload \in [at : {"none", "sent", "ok", "refused"}, entry : Nat]
  BY <1>1
<1>4. QueueTypeOK
  BY <1>1, <1>2, <1>3 DEF QueueTypeOK
<1>5. Len(files) = 0
  BY <1>1
<1>6. StoreKnown
  BY <1>1, <1>5 DEF StoreKnown
<1>7. ListFresh
  BY <1>1 DEF ListFresh
<1> QED  BY <1>4, <1>6, <1>7 DEF QueueInv

\* The request for the list.
LEMMA ListStep ==
  ASSUME QueueInv, Queue!Refresh \/ Queue!AnswerLoad \/ Queue!DeliverLoad
  PROVE  QueueInv'
<1>1. UNCHANGED <<store, ever, queueMounted, files, draining, any, upload, mine, gone, purge>>
  BY DEF Queue!Refresh, Queue!AnswerLoad, Queue!DeliverLoad
<1>2. ASSUME queueLoad' \in QueueLoad PROVE QueueTypeOK'
  BY <1>1, <1>2 DEF QueueInv, QueueTypeOK
<1>3. CASE Queue!Refresh
  <2>1. queueLoad' \in QueueLoad /\ queueLoad'.at = "sent" /\ ListFresh' /\ artifacts' = artifacts
    BY <1>3, FreshOnceLoaded DEF Queue!Refresh
  <2> QED  BY <1>1, <1>2, <2>1 DEF QueueInv, StoreKnown
<1>4. CASE Queue!AnswerLoad
  <2>1. /\ queueLoad' \in QueueLoad /\ queueLoad'.at \in {"ready", "error"} /\ artifacts' = artifacts
        /\ queueLoad'.at = "ready" => queueLoad'.shown = store
    BY <1>4 DEF Queue!AnswerLoad, QueueLoad, QueueInv, QueueTypeOK
  <2>2. StoreKnown'
    BY <1>1, <2>1 DEF QueueInv, StoreKnown
  <2>3. ListFresh'
    BY <1>1, <2>1 DEF QueueInv, StoreKnown, ListFresh, UpToDate
  <2> QED  BY <1>2, <2>1, <2>2, <2>3 DEF QueueInv
<1>5. CASE Queue!DeliverLoad
  <2>1. /\ queueLoad' \in QueueLoad /\ queueLoad'.at = "idle"
        /\ artifacts'.status = queueLoad.at /\ artifacts'.shown = queueLoad.shown
    BY <1>5 DEF Queue!DeliverLoad, Queue!NoLoad, QueueLoad
  <2>2. StoreKnown'
    BY <1>1, <2>1 DEF QueueInv, StoreKnown
  <2>3. ListFresh'
    BY <1>1, <2>1 DEF QueueInv, ListFresh, UpToDate, ListIsDue
  <2> QED  BY <1>2, <2>1, <2>2, <2>3 DEF QueueInv
<1> QED  BY <1>3, <1>4, <1>5

\* Files that are added wait.
LEMMA AddedList ==
  ASSUME QueueInv, NEW new \in Queue!Files
  PROVE  LET added == files \o [i \in DOMAIN new |-> [artifact |-> new[i], status |-> "waiting"]]
         IN  /\ added \in Seq(QueueEntry) /\ Queue!Waiting(added) # {} /\ Len(added) >= Len(files)
             /\ \A i \in 1..Len(files) : added[i] = files[i]
             /\ \A i \in 1..Len(added) : added[i].status = "done" => i \in 1..Len(files)
<1> DEFINE tail == [i \in DOMAIN new |-> [artifact |-> new[i], status |-> "waiting"]]
           added == files \o tail
<1>1. new \in Seq(Artifacts) /\ Len(new) > 0 /\ DOMAIN new = 1..Len(new) /\ Len(new) \in Nat
  <2>1. CASE \E a \in Artifacts : new = <<a>>
    BY <2>1
  <2>2. CASE new \in Artifacts \X Artifacts
    <3>1. PICK a \in Artifacts, b \in Artifacts : new = <<a, b>>
      BY <2>2
    <3> QED  BY <3>1
  <2> QED  BY <2>1, <2>2 DEF Queue!Files
<1>2. \A i \in 1..Len(new) : [artifact |-> new[i], status |-> "waiting"] \in QueueEntry
  BY <1>1 DEF QueueEntry
<1>3. tail \in [1..Len(new) -> QueueEntry] /\ \A i \in 1..Len(new) : tail[i].status = "waiting"
  BY <1>1, <1>2
<1>4. added = files \o tail
  OBVIOUS
<1> HIDE DEF tail, added
<1>5. tail \in Seq(QueueEntry) /\ Len(tail) = Len(new)
  BY <1>1, <1>3
<1>6. files \in Seq(QueueEntry) /\ Len(files) \in Nat
  BY DEF QueueInv, QueueTypeOK
<1>7. /\ added \in Seq(QueueEntry) /\ Len(added) = Len(files) + Len(new)
      /\ \A i \in 1..(Len(files) + Len(new)) :
           added[i] = IF i <= Len(files) THEN files[i] ELSE tail[i - Len(files)]
  <2>1. /\ added \in Seq(QueueEntry) /\ Len(added) = Len(files) + Len(tail)
        /\ \A i \in 1..(Len(files) + Len(tail)) :
             added[i] = IF i <= Len(files) THEN files[i] ELSE tail[i - Len(files)]
    BY ZenonT(30), <1>4, <1>5, <1>6, ConcatProperties
  <2> QED  BY <1>5, <2>1
<1>8. /\ \A i \in 1..Len(files) : added[i] = files[i]
      /\ \A i \in 1..Len(added) : i \notin 1..Len(files) => added[i].status = "waiting"
  <2>1. \A i \in 1..Len(files) : added[i] = files[i]
    BY <1>1, <1>6, <1>7
  <2>2. ASSUME NEW i \in 1..Len(added), i \notin 1..Len(files) PROVE added[i].status = "waiting"
    <3>1. i - Len(files) \in 1..Len(new) /\ added[i] = tail[i - Len(files)]
      BY <1>1, <1>6, <1>7, <2>2
    <3> QED  BY <1>3, <3>1
  <2> QED  BY <2>1, <2>2
<1>9. Len(files) + 1 \in Queue!Waiting(added)
  <2>1. Len(files) + 1 \in 1..Len(added) /\ Len(files) + 1 \notin 1..Len(files) /\ DOMAIN added = 1..Len(added)
    BY <1>1, <1>6, <1>7
  <2>2. added[Len(files) + 1].status = "waiting"
    BY <1>8, <2>1
  <2> QED  BY <2>1, <2>2 DEF Queue!Waiting
<1>10. \A i \in 1..Len(added) : added[i].status = "done" => i \in 1..Len(files)
  <2> SUFFICES ASSUME NEW i \in 1..Len(added), added[i].status = "done", i \notin 1..Len(files) PROVE FALSE
    OBVIOUS
  <2>1. added[i].status = "waiting"
    BY <1>8
  <2> QED  BY <2>1
<1>11. Len(added) >= Len(files)
  BY <1>1, <1>6, <1>7
<1>12. QED
  BY <1>7, <1>8, <1>9, <1>10, <1>11 DEF added, tail

LEMMA AddStep ==
  ASSUME QueueInv, NEW new \in Queue!Files, Queue!AddFiles(new)
  PROVE  QueueInv'
<1> DEFINE added == files \o [i \in DOMAIN new |-> [artifact |-> new[i], status |-> "waiting"]]
<1>1. /\ added \in Seq(QueueEntry) /\ Queue!Waiting(added) # {} /\ Len(added) >= Len(files)
      /\ \A i \in 1..Len(files) : added[i] = files[i]
      /\ \A i \in 1..Len(added) : added[i].status = "done" => i \in 1..Len(files)
  BY AddedList
<1>2. /\ UNCHANGED <<store, ever, queueMounted, artifacts, queueLoad, purge, mine, gone>>
      /\ \/ draining /\ files' = added /\ UNCHANGED <<draining, any, upload>>
         \/ ~draining /\ draining' = TRUE /\ any' = FALSE /\ Queue!Turn(added)
  BY DEF Queue!AddFiles
<1> HIDE DEF added
<1>3. Len(files) \in Nat /\ Len(added) \in Nat
  BY <1>1 DEF QueueInv, QueueTypeOK
<1>4. \A i \in 1..Len(added) : added[i].status = "done" => \E r \in ever : r[1] = added[i].artifact
  BY <1>1 DEF QueueInv, StoreKnown
<1>5. ListFresh'
  <2>1. ListIsDue => ListIsDue'
    BY <1>2 DEF ListIsDue
  <2> QED  BY <1>2, <2>1, FreshWithLess
<1>6. CASE draining /\ files' = added /\ UNCHANGED <<draining, any, upload>>
  <2>1. QueueTypeOK'
    BY <1>1, <1>2, <1>6 DEF QueueInv, QueueTypeOK
  <2>2. StoreKnown'
    BY <1>1, <1>2, <1>3, <1>4, <1>6 DEF QueueInv, StoreKnown
  <2> QED  BY <1>5, <2>1, <2>2 DEF QueueInv
<1>7. CASE ~draining /\ draining' = TRUE /\ any' = FALSE /\ Queue!Turn(added)
  <2>1. /\ files' \in Seq(QueueEntry) /\ upload' \in [at : {"none", "sent", "ok", "refused"}, entry : Nat]
        /\ upload'.at = "sent" /\ upload'.entry \in 1..Len(files')
        /\ \A i \in 1..Len(files') : files'[i].status = "done" => \E r \in ever : r[1] = files'[i].artifact
    BY <1>1, <1>4, <1>7, TurnStep
  <2>2. QueueTypeOK'
    BY <1>2, <1>7, <2>1 DEF QueueInv, QueueTypeOK
  <2>3. StoreKnown'
    BY <1>2, <1>7, <2>1 DEF QueueInv, StoreKnown
  <2> QED  BY <1>5, <2>2, <2>3 DEF QueueInv
<1> QED  BY <1>2, <1>6, <1>7

LEMMA UploadStep ==
  ASSUME QueueInv, Queue!AnswerUpload \/ Queue!DeliverUpload
  PROVE  QueueInv'
<1>0. /\ Len(files) \in Nat /\ DOMAIN files = 1..Len(files)
      /\ \A i \in 1..Len(files) : files[i] \in QueueEntry
  BY QueueFacts
<1>1. upload.entry \in 1..Len(files) /\ draining /\ files[upload.entry].artifact \in Artifacts
  BY <1>0 DEF QueueInv, StoreKnown, QueueEntry, Queue!AnswerUpload, Queue!DeliverUpload
<1>2. CASE Queue!AnswerUpload
  <2> DEFINE a == files[upload.entry].artifact
  <2>1. UNCHANGED <<queueMounted, files, draining, any, artifacts, queueLoad, purge, mine, gone>>
    BY <1>2 DEF Queue!AnswerUpload
  <2>2. PICK new \in SUBSET (Queue!Records \ ever) :
          /\ store' = store \cup new /\ ever' = ever \cup new
          /\ upload'.at = "ok" => \E r \in ever' : r[1] = a
          /\ upload' \in [at : {"none", "sent", "ok", "refused"}, entry : Nat] /\ upload'.entry = upload.entry
    <3>1. CASE upload' = [upload EXCEPT !.at = "refused"] /\ UNCHANGED <<store, ever>>
      <4>1. {} \in SUBSET (Queue!Records \ ever) /\ store' = store \cup {} /\ ever' = ever \cup {}
        BY <3>1
      <4>2. /\ upload' \in [at : {"none", "sent", "ok", "refused"}, entry : Nat]
            /\ upload'.at = "refused" /\ upload'.entry = upload.entry
        BY <3>1 DEF QueueInv, QueueTypeOK
      <4> QED  BY <4>1, <4>2
    <3>2. ASSUME NEW new \in Queue!Ingested(a), store' = store \cup new, ever' = ever \cup new,
                 NEW at \in {"ok", "refused"}, upload' = [upload EXCEPT !.at = at]
          PROVE  /\ new \in SUBSET (Queue!Records \ ever) /\ \E r \in ever' : r[1] = a
                 /\ upload' \in [at : {"none", "sent", "ok", "refused"}, entry : Nat] /\ upload'.entry = upload.entry
      <4>1. upload' \in [at : {"none", "sent", "ok", "refused"}, entry : Nat] /\ upload'.entry = upload.entry
        BY <3>2 DEF QueueInv, QueueTypeOK
      <4>2. CASE Queue!Of(store, a) # {}
        <5>1. new = {} /\ \E r \in store : r[1] = a
          BY <3>2, <4>2 DEF Queue!Ingested, Queue!Of
        <5> QED  BY <3>2, <4>1, <5>1 DEF QueueInv, StoreKnown
      <4>3. CASE Queue!Of(store, a) = {}
        <5>1. \E r \in Queue!Records \ ever : new = {r} /\ r[1] = a
          BY <3>2, <4>3 DEF Queue!Ingested
        <5> QED  BY <3>2, <4>1, <5>1
      <4> QED  BY <4>2, <4>3
    <3>3. \/ upload' = [upload EXCEPT !.at = "refused"] /\ UNCHANGED <<store, ever>>
          \/ \E new \in Queue!Ingested(a) :
               /\ store' = store \cup new /\ ever' = ever \cup new
               /\ \E at \in {"ok", "refused"} : upload' = [upload EXCEPT !.at = at]
      BY <1>2 DEF Queue!AnswerUpload
    <3> QED  BY <3>1, <3>2, <3>3
  <2>3. QueueTypeOK'
    BY <2>1, <2>2 DEF QueueInv, QueueTypeOK
  <2>4. StoreKnown'
    BY <1>1, <2>1, <2>2 DEF QueueInv, StoreKnown
  <2>5. ListFresh'
    BY <2>1, FreshWithLess DEF ListIsDue
  <2> QED  BY <2>3, <2>4, <2>5 DEF QueueInv
<1>3. CASE Queue!DeliverUpload
  <2> DEFINE ok == upload.at = "ok"
             status == IF ok THEN "done" ELSE "failed"
             e == [files[upload.entry] EXCEPT !.status = status]
             settled == [files EXCEPT ![upload.entry] = e]
  <2>1. UNCHANGED <<store, ever, queueMounted, artifacts, purge, gone>> /\ upload.at \in {"ok", "refused"}
        /\ mine' = IF ok THEN mine \cup Queue!Of(store, files[upload.entry].artifact) ELSE mine
    BY <1>3 DEF Queue!DeliverUpload
  <2>2. Queue!PatchEntry(upload.entry, status) = settled
    BY <1>1 DEF Queue!PatchEntry
  <2>3. e \in QueueEntry /\ e.artifact = files[upload.entry].artifact /\ (e.status = "done" => ok)
    BY <1>0, <1>1 DEF QueueEntry
  <2>4. \/ Queue!Waiting(settled) # {} /\ any' = (any \/ ok) /\ Queue!Turn(settled) /\ UNCHANGED <<draining, queueLoad>>
        \/ /\ files' = settled /\ upload' = Queue!NoUpload /\ draining' = FALSE /\ any' = FALSE
           /\ queueLoad' = IF any \/ ok THEN Queue!Load ELSE queueLoad
    BY <1>3, <2>2 DEF Queue!DeliverUpload, Queue!GoesOn, Queue!AnyRegistered
  <2>5. settled = [files EXCEPT ![upload.entry] = e]
    OBVIOUS
  <2> HIDE DEF e, settled
  <2>6. /\ settled \in Seq(QueueEntry) /\ Len(settled) = Len(files) /\ settled[upload.entry] = e
        /\ \A i \in 1..Len(files) : i # upload.entry => settled[i] = files[i]
    BY <1>1, <2>3, <2>5 DEF QueueInv, QueueTypeOK
  <2>7. \A i \in 1..Len(settled) : settled[i].status = "done" => \E r \in ever : r[1] = settled[i].artifact
    BY <1>1, <2>3, <2>6 DEF QueueInv, StoreKnown
  <2>8. mine' \subseteq store
    BY <2>1 DEF QueueInv, StoreKnown, Queue!Of
  <2>9. ~ok => mine' = mine
    BY <2>1
  <2> HIDE DEF ok
  <2>10. CASE Queue!Waiting(settled) # {} /\ any' = (any \/ ok) /\ Queue!Turn(settled)
              /\ UNCHANGED <<draining, queueLoad>>
    <3>1. /\ files' \in Seq(QueueEntry) /\ upload' \in [at : {"none", "sent", "ok", "refused"}, entry : Nat]
          /\ upload'.at = "sent" /\ upload'.entry \in 1..Len(files')
          /\ \A i \in 1..Len(files') : files'[i].status = "done" => \E r \in ever : r[1] = files'[i].artifact
      BY <2>6, <2>7, <2>10, TurnStep
    <3>2. any' \in BOOLEAN
      BY <2>10 DEF QueueInv, QueueTypeOK
    <3>3. QueueTypeOK'
      BY <2>1, <2>10, <3>1, <3>2 DEF QueueInv, QueueTypeOK
    <3>4. StoreKnown'
      BY <1>1, <2>1, <2>8, <2>10, <3>1 DEF QueueInv, StoreKnown
    <3>5. ListFresh'
      <4>1. CASE ok
        BY <1>1, <2>10, <4>1 DEF ListFresh, ListIsDue
      <4>2. CASE ~ok
        <5>1. ListIsDue => ListIsDue'
          BY <2>10 DEF ListIsDue
        <5> QED  BY <2>1, <2>9, <2>10, <4>2, <5>1, FreshWithLess
      <4> QED  BY <4>1, <4>2
    <3> QED  BY <3>3, <3>4, <3>5 DEF QueueInv
  <2>11. CASE /\ files' = settled /\ upload' = Queue!NoUpload /\ draining' = FALSE /\ any' = FALSE
              /\ queueLoad' = IF any \/ ok THEN Queue!Load ELSE queueLoad
    <3>1. upload' \in [at : {"none", "sent", "ok", "refused"}, entry : Nat] /\ upload'.at = "none"
      BY <2>11 DEF Queue!NoUpload
    <3>2. queueLoad' \in QueueLoad /\ (queueLoad'.at = "ready" => queueLoad' = queueLoad) /\ ListFresh'
      <4>1. CASE any \/ ok
        BY <2>11, <4>1, FreshOnceLoaded
      <4>2. CASE ~(any \/ ok)
        <5>1. ~ListIsDue
          BY <4>2 DEF ListIsDue
        <5> QED  BY <2>1, <2>9, <2>11, <4>2, <5>1, FreshWithLess DEF QueueInv, QueueTypeOK
      <4> QED  BY <4>1, <4>2
    <3>3. QueueTypeOK'
      BY <2>1, <2>6, <2>11, <3>1, <3>2 DEF QueueInv, QueueTypeOK
    <3>4. StoreKnown'
      <4>1. \A i \in 1..Len(files') : files'[i].status = "done" => \E r \in ever : r[1] = files'[i].artifact
        BY <2>7, <2>11
      <4>2. queueLoad'.at = "ready" => queueLoad'.shown \subseteq ever
        BY <3>2 DEF QueueInv, StoreKnown
      <4> QED  BY <2>1, <2>8, <3>1, <4>1, <4>2 DEF QueueInv, StoreKnown
    <3> QED  BY <3>2, <3>3, <3>4 DEF QueueInv
  <2> QED  BY <2>4, <2>10, <2>11
<1> QED  BY <1>2, <1>3

LEMMA PurgeStep ==
  ASSUME QueueInv,
         \/ (\E r \in Queue!Records : Queue!OpenDialog(r)) \/ Queue!CancelPurge \/ Queue!ConfirmPurge
         \/ Queue!AnswerPurge \/ Queue!DeliverPurge \/ Queue!PurgedElsewhere
  PROVE  QueueInv'
<1>1. UNCHANGED <<ever, queueMounted, files, draining, any, upload, artifacts>>
  BY DEF Queue!OpenDialog, Queue!CancelPurge, Queue!ConfirmPurge, Queue!AnswerPurge, Queue!DeliverPurge,
         Queue!PurgedElsewhere
\* The dialog, and what leaves the store.
<1>2. ASSUME store' \subseteq store, mine' \subseteq mine, mine' \subseteq store', UNCHANGED <<queueLoad, gone>>,
             purge'.at # "none" => purge'.target \in ever, purge'.at = "ok" => purge'.target \notin store'
      PROVE  QueueInv'
  <2>1. QueueTypeOK' /\ StoreKnown'
    BY <1>1, <1>2 DEF QueueInv, QueueTypeOK, StoreKnown
  <2>2. ListFresh'
    BY <1>1, <1>2, FreshWithLess DEF ListIsDue
  <2> QED  BY <2>1, <2>2 DEF QueueInv
<1>3. /\ mine \subseteq store /\ (purge.at # "none" => purge.target \in ever)
      /\ purge.at = "ok" => purge.target \notin store
  BY DEF QueueInv, StoreKnown
<1>4. ASSUME NEW r \in Queue!Records, Queue!OpenDialog(r) PROVE QueueInv'
  <2>1. UNCHANGED <<store, mine, queueLoad, gone>> /\ purge' = [at |-> "dialog", target |-> r] /\ r \in ever
    BY <1>4 DEF Queue!OpenDialog, QueueInv, StoreKnown
  <2> QED  BY <1>2, <1>3, <2>1
<1>5. CASE Queue!CancelPurge
  BY <1>2, <1>3, <1>5 DEF Queue!CancelPurge, Queue!NoPurge
<1>6. CASE Queue!ConfirmPurge
  <2>1. UNCHANGED <<store, mine, queueLoad, gone>> /\ purge.at = "dialog" /\ purge' = [purge EXCEPT !.at = "sent"]
    BY <1>6 DEF Queue!ConfirmPurge
  <2>2. purge'.target = purge.target /\ purge'.at # "ok"
    BY <2>1
  <2> QED  BY <1>2, <1>3, <2>1, <2>2
<1>7. CASE Queue!AnswerPurge
  <2>1. UNCHANGED <<queueLoad, gone>> /\ purge.at = "sent"
    BY <1>7 DEF Queue!AnswerPurge
  <2>2. /\ store' \subseteq store /\ mine' \subseteq mine /\ mine' \subseteq store'
        /\ purge'.target = purge.target /\ (purge'.at = "ok" => purge.target \notin store')
    <3>1. CASE purge' = [purge EXCEPT !.at = "refused"] /\ UNCHANGED <<store, mine>>
      BY <1>3, <3>1
    <3>2. ASSUME store' = store \ {purge.target}, mine' = mine \ {purge.target},
                 NEW at \in {"ok", "refused"}, purge' = [purge EXCEPT !.at = at]
          PROVE  /\ store' \subseteq store /\ mine' \subseteq mine /\ mine' \subseteq store'
                 /\ purge'.target = purge.target /\ (purge'.at = "ok" => purge.target \notin store')
      BY <1>3, <3>2
    <3> QED  BY <1>7, <3>1, <3>2 DEF Queue!AnswerPurge
  <2>3. purge.target \in ever
    BY <1>3, <2>1
  <2> QED  BY <1>2, <2>1, <2>2, <2>3
<1>8. CASE Queue!PurgedElsewhere
  <2>1. PICK r \in store : store' = store \ {r} /\ mine' = mine \ {r}
    BY <1>8 DEF Queue!PurgedElsewhere
  <2>2. UNCHANGED <<queueLoad, gone, purge>>
    BY <1>8 DEF Queue!PurgedElsewhere
  <2> QED  BY <1>2, <1>3, <2>1, <2>2
<1>9. CASE Queue!DeliverPurge
  <2>1. UNCHANGED <<store, mine>> /\ purge'.at = "none"
    BY <1>9 DEF Queue!DeliverPurge, Queue!NoPurge
  <2>2. CASE purge.at = "ok"
    <3>1. queueLoad' = Queue!Load /\ gone' = gone \cup {purge.target}
      BY <1>9, <2>2 DEF Queue!DeliverPurge
    <3>2. queueLoad' \in QueueLoad /\ queueLoad'.at = "sent" /\ ListFresh'
      BY <3>1, FreshOnceLoaded
    <3>3. QueueTypeOK' /\ StoreKnown'
      BY <1>1, <1>3, <2>1, <2>2, <3>1, <3>2 DEF QueueInv, QueueTypeOK, StoreKnown
    <3> QED  BY <3>2, <3>3 DEF QueueInv
  <2>3. CASE purge.at # "ok"
    <3>1. UNCHANGED <<queueLoad, gone>>
      BY <1>9, <2>3 DEF Queue!DeliverPurge
    <3> QED  BY <1>2, <1>3, <2>1, <3>1
  <2> QED  BY <2>2, <2>3
<1> QED  BY <1>4, <1>5, <1>6, <1>7, <1>8, <1>9

LEMMA QueueStep ==
  ASSUME QueueInv, Queue!QueueNext
  PROVE  QueueInv'
<1>1. CASE Queue!Refresh \/ Queue!AnswerLoad \/ Queue!DeliverLoad
  BY <1>1, ListStep
<1>2. CASE Queue!OpenPicker
  <2>1. UNCHANGED <<store, ever, queueMounted, files, draining, any, upload, artifacts, queueLoad, purge, mine, gone>>
    BY <1>2 DEF Queue!OpenPicker
  <2>2. ListFresh'
    BY <2>1, FreshWithLess DEF ListIsDue
  <2> QED  BY <2>1, <2>2 DEF QueueInv, QueueTypeOK, StoreKnown
<1>3. ASSUME NEW new \in Queue!Files, Queue!HandleFileChange(new) \/ Queue!HandleDrop(new) PROVE QueueInv'
  BY <1>3, AddStep DEF Queue!HandleFileChange, Queue!HandleDrop
<1>4. CASE Queue!AnswerUpload \/ Queue!DeliverUpload
  BY <1>4, UploadStep
<1>5. CASE \/ (\E r \in Queue!Records : Queue!OpenDialog(r)) \/ Queue!CancelPurge \/ Queue!ConfirmPurge
           \/ Queue!AnswerPurge \/ Queue!DeliverPurge \/ Queue!PurgedElsewhere
  BY <1>5, PurgeStep
<1>6. CASE Queue!Leave
  <2>1. /\ UNCHANGED <<store, ever, files, draining, any, artifacts, mine, gone>> /\ queueMounted' = FALSE
        /\ upload' = [at |-> "none", entry |-> 0] /\ queueLoad' = [at |-> "idle", shown |-> {}] /\ purge'.at = "none"
    BY <1>6 DEF Queue!Leave, Queue!NoUpload, Queue!NoLoad, Queue!NoPurge
  <2>2. upload' \in [at : {"none", "sent", "ok", "refused"}, entry : Nat] /\ queueLoad' \in QueueLoad
    BY <2>1 DEF QueueLoad
  <2>3. QueueTypeOK' /\ StoreKnown' /\ ListFresh'
    BY <2>1, <2>2 DEF QueueInv, QueueTypeOK, StoreKnown, ListFresh
  <2> QED  BY <2>3 DEF QueueInv
<1> QED  BY <1>1, <1>2, <1>3, <1>4, <1>5, <1>6 DEF Queue!QueueNext

LEMMA QueueHolds == QueueInv => Queue!DoneWasStored /\ Queue!ListKeepsUp
<1> SUFFICES ASSUME QueueInv PROVE Queue!DoneWasStored /\ Queue!ListKeepsUp
  OBVIOUS
<1>1. DOMAIN files = 1..Len(files)
  BY QueueFacts
<1>2. Queue!DoneWasStored
  BY <1>1 DEF QueueInv, StoreKnown, Queue!DoneWasStored, Queue!Registered
<1>3. Queue!ListKeepsUp
  BY DEF QueueInv, ListFresh, ListIsDue, UpToDate, Queue!ListKeepsUp
<1> QED  BY <1>2, <1>3

-----------------------------------------------------------------------------
(* The shell.                                                              *)

SessionKinds == {"bootstrap", "signIn", "signOut"}
ShellRequest ==
  [kind : SessionKinds \cup {"query", "mutation"}, cookie : Nat, token : Nat,
   answer : {"none", "ok", "401", "403", "failed"}, new : Nat, cancelled : BOOLEAN]

ShellTypeOK ==
  /\ live \in SUBSET (Nat \ {0}) /\ cookie \in Nat
  /\ shellRoute \in {"operator", "login"} /\ restoreError \in BOOLEAN
  /\ session \in [status : {"checking", "anonymous", "authenticated"}, token : Nat]
  /\ shellRequests \in Seq(ShellRequest)

OfSession(request) == request.kind \in SessionKinds

\* The answer of a sign-in that made the session of cookie c.
Renews(request, c) == request.kind = "signIn" /\ request.answer = "ok" /\ request.new = c

\* Of the browser's session, or of one whose successor the tab is going to be
\* told of, or the browser was signed out since.
Fresh(v, c, alive, list) ==
  v = c \/ c \notin alive \/ \E i \in 1..Len(list) : Renews(list[i], c)

\* The session requests that are out were sent with such a cookie, and answer
\* for one.
AnswersForCookie(request, c, alive, list) ==
  OfSession(request) =>
    /\ request.answer = "none" => Fresh(request.cookie, c, alive, list)
    /\ (request.answer = "ok" /\ request.kind \in {"bootstrap", "signIn"})
         => Fresh(request.new, c, alive, list)

TokenSound ==
  crossed = {} =>
    /\ \A i \in 1..Len(shellRequests) :
         AnswersForCookie(shellRequests[i], cookie, live, shellRequests)
    /\ session.status = "authenticated" => Fresh(session.token, cookie, live, shellRequests)

\* A guard that is checking the session has asked for it, or says so.
GuardAsks ==
  /\ session.status = "authenticated" => shellRoute = "operator"
  /\ \A i \in 1..Len(shellRequests) :
       shellRequests[i].kind = "bootstrap" => shellRequests[i].answer # "403"
  /\ (shellRoute = "operator" /\ session.status = "checking" /\ ~restoreError)
       => \E i \in 1..Len(shellRequests) :
            shellRequests[i].kind = "bootstrap" /\ ~shellRequests[i].cancelled

ShellInv == ShellTypeOK /\ TokenSound /\ GuardAsks

LEMMA ShellFacts ==
  ASSUME ShellInv
  PROVE  /\ Len(shellRequests) \in Nat /\ DOMAIN shellRequests = 1..Len(shellRequests)
         /\ shellRequests \in Seq(ShellRequest)
         /\ \A i \in 1..Len(shellRequests) : shellRequests[i] \in ShellRequest
         /\ session.token \in Nat /\ cookie \in Nat /\ 0 \notin live
BY DEF ShellInv, ShellTypeOK

\* What a cancelled request keeps.
Alike(r, s) ==
  r.kind = s.kind /\ r.cookie = s.cookie /\ r.answer = s.answer /\ r.new = s.new

LEMMA CancelledList ==
  ASSUME shellRequests \in Seq(ShellRequest)
  PROVE  /\ Shell!Cancelled \in Seq(ShellRequest) /\ Len(Shell!Cancelled) = Len(shellRequests)
         /\ \A i \in 1..Len(shellRequests) : Alike(Shell!Cancelled[i], shellRequests[i])
<1>1. \A i \in 1..Len(shellRequests) :
        /\ [shellRequests[i] EXCEPT !.cancelled = TRUE] \in ShellRequest
        /\ Alike([shellRequests[i] EXCEPT !.cancelled = TRUE], shellRequests[i])
  <2>1. \A i \in 1..Len(shellRequests) : shellRequests[i] \in ShellRequest
    OBVIOUS
  <2> QED  BY <2>1 DEF ShellRequest, Alike
<1>2. DOMAIN shellRequests = 1..Len(shellRequests) /\ Len(shellRequests) \in Nat
  OBVIOUS
<1> DEFINE a == Shell!Cancelled
<1>3. a = [i \in 1..Len(shellRequests) |-> [shellRequests[i] EXCEPT !.cancelled = TRUE]]
  BY <1>2 DEF Shell!Cancelled
<1>4. a \in [1..Len(shellRequests) -> ShellRequest]
      /\ \A i \in 1..Len(shellRequests) : Alike(a[i], shellRequests[i])
  BY <1>1, <1>3
<1> HIDE DEF a
<1>5. a \in Seq(ShellRequest) /\ Len(a) = Len(shellRequests)
  BY <1>2, <1>4
<1>6. QED
  BY <1>4, <1>5 DEF a

\* The sign-in that makes a cookie fresh is still out, or nothing is asked of it.
LEMMA FreshKept ==
  ASSUME NEW v, NEW c, NEW alive, NEW list, Fresh(v, c, alive, list),
         NEW alive2 \in SUBSET alive, NEW list2,
         \A i \in 1..Len(list) : Renews(list[i], c) => \E j \in 1..Len(list2) : Renews(list2[j], c)
  PROVE  Fresh(v, c, alive2, list2)
BY DEF Fresh

LEMMA TokenKept ==
  ASSUME crossed' = {} => crossed = {}, cookie' = cookie, live' \in SUBSET live,
         crossed' = {} =>
           /\ \A i \in 1..Len(shellRequests) : Renews(shellRequests[i], cookie) =>
                \E j \in 1..Len(shellRequests') : Renews(shellRequests'[j], cookie)
           /\ \A j \in 1..Len(shellRequests') :
                AnswersForCookie(shellRequests'[j], cookie, live, shellRequests)
           /\ session'.status = "authenticated" => Fresh(session'.token, cookie, live, shellRequests)
  PROVE  TokenSound'
<1> SUFFICES ASSUME crossed' = {}
             PROVE  /\ \A j \in 1..Len(shellRequests') :
                         AnswersForCookie(shellRequests'[j], cookie, live', shellRequests')
                    /\ session'.status = "authenticated" => Fresh(session'.token, cookie, live', shellRequests')
  BY DEF TokenSound
<1>1. \A v : Fresh(v, cookie, live, shellRequests) => Fresh(v, cookie, live', shellRequests')
  BY FreshKept
<1> QED  BY <1>1 DEF AnswersForCookie

\* A session ended by the browser itself, or an answer that all others wait for.
LEMMA TokenRenewed ==
  ASSUME \/ cookie' \notin live'
         \/ \E j \in 1..Len(shellRequests') : Renews(shellRequests'[j], cookie')
  PROVE  TokenSound'
<1>1. \A v : Fresh(v, cookie', live', shellRequests')
  BY DEF Fresh
<1> QED  BY <1>1 DEF TokenSound, AnswersForCookie

LEMMA NewRequest ==
  ASSUME ShellInv, NEW kind \in SessionKinds \cup {"query", "mutation"}
  PROVE  /\ Shell!Request(kind) \in ShellRequest /\ Shell!Request(kind).kind = kind
         /\ Shell!Request(kind).cookie = cookie /\ Shell!Request(kind).answer = "none"
         /\ ~Shell!Request(kind).cancelled
BY ShellFacts DEF Shell!Request, ShellRequest

\* A request is sent after a list of requests that are like those that are out.
LEMMA RequestSent ==
  ASSUME ShellInv, NEW kind \in SessionKinds \cup {"query", "mutation"}, NEW list \in Seq(ShellRequest),
         Len(list) = Len(shellRequests), \A i \in 1..Len(list) : Alike(list[i], shellRequests[i]),
         shellRequests' = Append(list, Shell!Request(kind)),
         UNCHANGED <<live, cookie, session, crossed>>
  PROVE  /\ shellRequests' \in Seq(ShellRequest) /\ Len(shellRequests') = Len(shellRequests) + 1
         /\ \A i \in 1..Len(list) : shellRequests'[i] = list[i]
         /\ shellRequests'[Len(shellRequests) + 1] = Shell!Request(kind)
         /\ TokenSound'
<1>0. /\ Len(shellRequests) \in Nat /\ DOMAIN shellRequests = 1..Len(shellRequests)
      /\ \A i \in 1..Len(shellRequests) : shellRequests[i] \in ShellRequest
  BY ShellFacts
<1> DEFINE new == Shell!Request(kind)
<1>1. new \in ShellRequest /\ new.kind = kind /\ new.cookie = cookie /\ new.answer = "none"
  BY NewRequest
<1> HIDE DEF new
<1>2. /\ shellRequests' \in Seq(ShellRequest) /\ Len(shellRequests') = Len(shellRequests) + 1
      /\ \A i \in 1..Len(list) : shellRequests'[i] = list[i]
      /\ shellRequests'[Len(shellRequests) + 1] = new
  BY <1>0, <1>1 DEF new
<1>3. \A i \in 1..Len(shellRequests) :
        i \in 1..Len(shellRequests') /\ Alike(shellRequests'[i], shellRequests[i])
  BY <1>0, <1>2
<1>4. ASSUME crossed = {}, NEW i \in 1..Len(shellRequests')
      PROVE  AnswersForCookie(shellRequests'[i], cookie, live, shellRequests)
  <2>1. CASE i = Len(shellRequests) + 1
    BY <1>1, <1>2, <2>1 DEF AnswersForCookie, Fresh
  <2>2. CASE i # Len(shellRequests) + 1
    <3>1. i \in 1..Len(shellRequests) /\ Alike(shellRequests'[i], shellRequests[i])
      BY <1>0, <1>2, <1>3, <2>2
    <3>2. AnswersForCookie(shellRequests[i], cookie, live, shellRequests)
      BY <1>4, <3>1 DEF ShellInv, TokenSound
    <3> QED  BY <3>1, <3>2 DEF AnswersForCookie, OfSession, Alike
  <2> QED  BY <2>1, <2>2
<1>5. \A i \in 1..Len(shellRequests) : Renews(shellRequests[i], cookie) =>
        \E j \in 1..Len(shellRequests') : Renews(shellRequests'[j], cookie)
  BY <1>3 DEF Renews, Alike
<1>6. (crossed = {} /\ session.status = "authenticated") => Fresh(session.token, cookie, live, shellRequests)
  BY DEF ShellInv, TokenSound
<1>7. TokenSound'
  BY <1>4, <1>5, <1>6, TokenKept
<1> QED  BY <1>2, <1>7 DEF new

LEMMA ShellStart == Shell!ShellInit => ShellInv
<1> SUFFICES ASSUME Shell!ShellInit PROVE ShellInv
  OBVIOUS
<1>1. /\ live \in SUBSET (Nat \ {0}) /\ cookie \in Nat /\ session = [status |-> "checking", token |-> 0]
      /\ restoreError = FALSE /\ crossed = {}
  BY DEF Shell!ShellInit, Shell!Checking
<1>2. CASE shellRoute = "login" /\ shellRequests = <<>>
  <2>1. ShellTypeOK
    <3>1. session \in [status : {"checking", "anonymous", "authenticated"}, token : Nat]
      BY <1>1
    <3>2. shellRequests \in Seq(ShellRequest)
      BY <1>2
    <3> QED  BY <1>1, <1>2, <3>1, <3>2 DEF ShellTypeOK
  <2>2. TokenSound /\ GuardAsks
    BY <1>1, <1>2 DEF TokenSound, GuardAsks
  <2> QED  BY <2>1, <2>2 DEF ShellInv
<1>3. CASE shellRoute = "operator" /\ shellRequests = <<Shell!Request("bootstrap")>>
  <2> DEFINE new == Shell!Request("bootstrap")
  <2>1. /\ new \in ShellRequest /\ new.kind = "bootstrap" /\ new.cookie = cookie /\ new.answer = "none"
        /\ ~new.cancelled
    BY <1>1 DEF Shell!Request, ShellRequest, SessionKinds
  <2>2. shellRequests = <<new>>
    BY <1>3
  <2> HIDE DEF new
  <2>3. shellRequests \in Seq(ShellRequest) /\ Len(shellRequests) = 1 /\ shellRequests[1] = new
    BY <2>1, <2>2
  <2>4. ShellTypeOK
    BY <1>1, <1>3, <2>3 DEF ShellTypeOK
  <2>5. TokenSound
    BY <1>1, <2>1, <2>3 DEF TokenSound, AnswersForCookie, Fresh
  <2>6. GuardAsks
    BY <1>1, <2>1, <2>3 DEF GuardAsks
  <2> QED  BY <2>4, <2>5, <2>6 DEF ShellInv
<1> QED  BY <1>2, <1>3 DEF Shell!ShellInit

\* Where a state of the session leads.
LEMMA RedirectedTo ==
  ASSUME NEW state \in [status : {"checking", "anonymous", "authenticated"}, token : Nat], NEW r
  PROVE  /\ state.status = "anonymous" => Shell!Redirected(state, r) = "login"
         /\ state.status = "authenticated" => Shell!Redirected(state, r) = "operator"
         /\ state.status = "checking" => Shell!Redirected(state, r) = r
BY DEF Shell!Redirected

\* What the operator does.
LEMMA OperatorStep ==
  ASSUME ShellInv,
         \/ \E r \in {"operator", "login"} : Shell!Enter(r)
         \/ Shell!RetryRestore \/ Shell!HandleSubmit \/ Shell!HandleSignOut
         \/ Shell!UsePage("query") \/ Shell!UsePage("mutation")
  PROVE  ShellInv'
<1>0. /\ Len(shellRequests) \in Nat /\ DOMAIN shellRequests = 1..Len(shellRequests)
      /\ shellRequests \in Seq(ShellRequest)
      /\ \A i \in 1..Len(shellRequests) : shellRequests[i] \in ShellRequest
  BY ShellFacts
<1>1. UNCHANGED <<live, cookie, session, crossed>>
  BY DEF Shell!Enter, Shell!RetryRestore, Shell!HandleSubmit, Shell!HandleSignOut, Shell!UsePage, Shell!Act
<1>2. \A i \in 1..Len(shellRequests) : Alike(shellRequests[i], shellRequests[i])
  BY DEF Alike
<1>3. /\ Shell!Cancelled \in Seq(ShellRequest) /\ Len(Shell!Cancelled) = Len(shellRequests)
      /\ \A i \in 1..Len(shellRequests) : Alike(Shell!Cancelled[i], shellRequests[i])
  BY <1>0, CancelledList
\* A bootstrap goes out.
<1>4. ASSUME shellRequests' = Append(Shell!Cancelled, Shell!Request("bootstrap"))
      PROVE  /\ shellRequests' \in Seq(ShellRequest) /\ TokenSound'
             /\ \A i \in 1..Len(shellRequests') :
                  shellRequests'[i].kind = "bootstrap" => shellRequests'[i].answer # "403"
             /\ \E i \in 1..Len(shellRequests') :
                  shellRequests'[i].kind = "bootstrap" /\ ~shellRequests'[i].cancelled
  <2>1. "bootstrap" \in SessionKinds \cup {"query", "mutation"}
    BY DEF SessionKinds
  <2>2. /\ shellRequests' \in Seq(ShellRequest) /\ Len(shellRequests') = Len(shellRequests) + 1
        /\ \A i \in 1..Len(shellRequests) : shellRequests'[i] = Shell!Cancelled[i]
        /\ shellRequests'[Len(shellRequests) + 1] = Shell!Request("bootstrap")
        /\ TokenSound'
    BY <1>1, <1>3, <1>4, <2>1, RequestSent
  <2>3. /\ Shell!Request("bootstrap").kind = "bootstrap" /\ Shell!Request("bootstrap").answer = "none"
        /\ ~Shell!Request("bootstrap").cancelled
    BY <2>1, NewRequest
  <2>4. ASSUME NEW i \in 1..Len(shellRequests'), shellRequests'[i].kind = "bootstrap" PROVE shellRequests'[i].answer # "403"
    <3>1. CASE i = Len(shellRequests) + 1
      BY <2>2, <2>3, <3>1
    <3>2. CASE i # Len(shellRequests) + 1
      <4>1. i \in 1..Len(shellRequests) /\ Alike(shellRequests'[i], shellRequests[i])
        BY <1>0, <1>3, <2>2, <3>2
      <4> QED  BY <2>4, <4>1 DEF ShellInv, GuardAsks, Alike
    <3> QED  BY <3>1, <3>2
  <2>5. Len(shellRequests) + 1 \in 1..Len(shellRequests')
    BY <1>0, <2>2
  <2> QED  BY <2>2, <2>3, <2>4, <2>5
\* Another request goes out.
<1>5. ASSUME NEW kind \in {"signIn", "signOut", "query", "mutation"},
             shellRequests' = Append(shellRequests, Shell!Request(kind)),
             UNCHANGED <<shellRoute, restoreError>>
      PROVE  ShellInv'
  <2>1. kind \in SessionKinds \cup {"query", "mutation"}
    BY DEF SessionKinds
  <2>2. /\ shellRequests' \in Seq(ShellRequest) /\ Len(shellRequests') = Len(shellRequests) + 1
        /\ \A i \in 1..Len(shellRequests) : shellRequests'[i] = shellRequests[i]
        /\ shellRequests'[Len(shellRequests) + 1] = Shell!Request(kind)
        /\ TokenSound'
    BY <1>0, <1>1, <1>2, <1>5, <2>1, RequestSent
  <2>3. Shell!Request(kind).kind = kind
    BY <2>1, NewRequest
  <2>4. \A i \in 1..Len(shellRequests') : i \in 1..Len(shellRequests) \/ i = Len(shellRequests) + 1
    BY <1>0, <2>2
  <2>5. \A i \in 1..Len(shellRequests) : i \in 1..Len(shellRequests')
    BY <1>0, <2>2
  <2>6. GuardAsks'
    BY <1>1, <1>5, <2>2, <2>3, <2>4, <2>5 DEF ShellInv, GuardAsks
  <2>7. ShellTypeOK'
    BY <1>1, <1>5, <2>2 DEF ShellInv, ShellTypeOK
  <2> QED  BY <2>2, <2>6, <2>7 DEF ShellInv
<1>6. ASSUME NEW r \in {"operator", "login"}, Shell!Enter(r) PROVE ShellInv'
  <2>1. restoreError' = FALSE /\ shellRoute' = Shell!Redirected(session, r)
    BY <1>6 DEF Shell!Enter
  <2>2. /\ session \in [status : {"checking", "anonymous", "authenticated"}, token : Nat]
        /\ session.status = "anonymous" => shellRoute' = "login"
        /\ session.status = "authenticated" => shellRoute' = "operator"
        /\ session.status = "checking" => shellRoute' = r
    <3>1. session \in [status : {"checking", "anonymous", "authenticated"}, token : Nat]
      BY DEF ShellInv, ShellTypeOK
    <3> QED  BY <2>1, <3>1, RedirectedTo
  <2>3. shellRoute' \in {"operator", "login"}
    <3>1. session.status \in {"checking", "anonymous", "authenticated"}
      BY <2>2
    <3> QED  BY <2>2, <3>1
  <2>4. CASE r = "operator" /\ session.status = "checking"
    <3>1. shellRequests' = Append(Shell!Cancelled, Shell!Request("bootstrap"))
      BY <1>6, <2>4 DEF Shell!Enter, Shell!Attempt
    <3>2. /\ shellRequests' \in Seq(ShellRequest) /\ TokenSound'
          /\ \A i \in 1..Len(shellRequests') :
               shellRequests'[i].kind = "bootstrap" => shellRequests'[i].answer # "403"
          /\ \E i \in 1..Len(shellRequests') :
               shellRequests'[i].kind = "bootstrap" /\ ~shellRequests'[i].cancelled
      BY <1>4, <2>1, <3>1
    <3>3. GuardAsks'
      BY <1>1, <2>4, <3>2 DEF GuardAsks
    <3>4. ShellTypeOK'
      BY <1>1, <2>1, <2>3, <3>2 DEF ShellInv, ShellTypeOK
    <3> QED  BY <3>2, <3>3, <3>4 DEF ShellInv
  <2>5. CASE ~(r = "operator" /\ session.status = "checking")
    <3>1. shellRequests' = Shell!Cancelled
      BY <1>6, <2>5 DEF Shell!Enter
    <3>2. shellRequests' \in Seq(ShellRequest) /\ Len(shellRequests') = Len(shellRequests)
          /\ \A i \in 1..Len(shellRequests) : Alike(shellRequests'[i], shellRequests[i])
      BY <1>3, <3>1
    <3>3. ASSUME crossed = {}, NEW i \in 1..Len(shellRequests')
          PROVE  AnswersForCookie(shellRequests'[i], cookie, live, shellRequests)
      <4>1. AnswersForCookie(shellRequests[i], cookie, live, shellRequests)
        BY <3>2, <3>3 DEF ShellInv, TokenSound
      <4> QED  BY <3>2, <3>3, <4>1 DEF AnswersForCookie, OfSession, Alike
    <3>4. \A i \in 1..Len(shellRequests) : Renews(shellRequests[i], cookie) =>
            \E j \in 1..Len(shellRequests') : Renews(shellRequests'[j], cookie)
      BY <3>2 DEF Renews, Alike
    <3>5. (crossed = {} /\ session.status = "authenticated") => Fresh(session.token, cookie, live, shellRequests)
      BY DEF ShellInv, TokenSound
    <3>6. TokenSound'
      BY <1>1, <3>3, <3>4, <3>5, TokenKept
    <3>7. GuardAsks'
      BY <1>1, <2>2, <2>5, <3>2 DEF ShellInv, GuardAsks, Alike
    <3>8. ShellTypeOK'
      BY <1>1, <2>1, <2>3, <3>2 DEF ShellInv, ShellTypeOK
    <3> QED  BY <3>6, <3>7, <3>8 DEF ShellInv
  <2> QED  BY <2>4, <2>5
<1>7. CASE Shell!RetryRestore
  <2>1. /\ restoreError' = FALSE /\ shellRequests' = Append(Shell!Cancelled, Shell!Request("bootstrap"))
        /\ UNCHANGED shellRoute
    BY <1>7 DEF Shell!RetryRestore, Shell!Attempt
  <2>2. /\ shellRequests' \in Seq(ShellRequest) /\ TokenSound'
        /\ \A i \in 1..Len(shellRequests') :
             shellRequests'[i].kind = "bootstrap" => shellRequests'[i].answer # "403"
        /\ \E i \in 1..Len(shellRequests') :
             shellRequests'[i].kind = "bootstrap" /\ ~shellRequests'[i].cancelled
    BY <1>4, <2>1
  <2>3. GuardAsks'
    BY <1>1, <2>1, <2>2 DEF ShellInv, GuardAsks
  <2>4. ShellTypeOK'
    BY <1>1, <2>1, <2>2 DEF ShellInv, ShellTypeOK
  <2> QED  BY <2>2, <2>3, <2>4 DEF ShellInv
<1>8. CASE Shell!HandleSubmit
  <2>1. shellRequests' = Append(shellRequests, Shell!Request("signIn")) /\ UNCHANGED <<shellRoute, restoreError>>
    BY <1>8 DEF Shell!HandleSubmit, Shell!Send
  <2> QED  BY <1>5, <2>1
<1>9. CASE Shell!HandleSignOut
  <2>1. shellRequests' = Append(shellRequests, Shell!Request("signOut")) /\ UNCHANGED <<shellRoute, restoreError>>
    BY <1>9 DEF Shell!HandleSignOut, Shell!Send
  <2> QED  BY <1>5, <2>1
<1>10. ASSUME NEW kind \in {"query", "mutation"}, Shell!UsePage(kind) PROVE ShellInv'
  <2>1. shellRequests' = Append(shellRequests, Shell!Request(kind)) /\ UNCHANGED <<shellRoute, restoreError>>
    BY <1>10 DEF Shell!UsePage, Shell!Send
  <2> QED  BY <1>5, <2>1
<1> QED  BY <1>6, <1>7, <1>8, <1>9, <1>10

\* The server's answer.
LEMMA AnswerStep ==
  ASSUME ShellInv, Shell!ShellBounds, NEW i \in DOMAIN shellRequests, Shell!Answer(i)
  PROVE  ShellInv'
<1>0. /\ Len(shellRequests) \in Nat /\ DOMAIN shellRequests = 1..Len(shellRequests)
      /\ shellRequests \in Seq(ShellRequest)
      /\ \A j \in 1..Len(shellRequests) : shellRequests[j] \in ShellRequest
      /\ cookie \in Nat /\ 0 \notin live
  BY ShellFacts
<1> DEFINE request == shellRequests[i]
<1>1. i \in 1..Len(shellRequests) /\ request \in ShellRequest /\ request.answer = "none"
      /\ UNCHANGED <<shellRoute, session, restoreError, crossed>>
  BY <1>0 DEF Shell!Answer
\* Whatever the answer, it is written into the one request.
<1>2. ASSUME NEW a \in {"ok", "401", "403", "failed"}, NEW n \in Nat,
             shellRequests' = [shellRequests EXCEPT ![i] = [request EXCEPT !.answer = a, !.new = n]],
             live' \in SUBSET (Nat \ {0}), cookie' \in Nat,
             request.kind = "bootstrap" => a # "403",
             \* The session goes on, ends, or is the one this answer tells of.
             \/ /\ UNCHANGED <<live, cookie>>
                /\ (a = "ok" /\ request.kind \in {"bootstrap", "signIn"}) => n = request.cookie
             \/ cookie' \notin live'
             \/ request.kind = "signIn" /\ a = "ok" /\ n = cookie'
      PROVE  ShellInv'
  <2> DEFINE m == [request EXCEPT !.answer = a, !.new = n]
  <2>1. /\ m \in ShellRequest /\ m.kind = request.kind /\ m.cookie = request.cookie /\ m.answer = a /\ m.new = n
        /\ m.cancelled = request.cancelled
    BY <1>1 DEF ShellRequest
  <2>2. shellRequests' = [shellRequests EXCEPT ![i] = m]
    BY <1>2
  <2> HIDE DEF m, request
  <2>3. /\ shellRequests' \in Seq(ShellRequest) /\ Len(shellRequests') = Len(shellRequests)
        /\ shellRequests'[i] = m /\ \A j \in 1..Len(shellRequests) : j # i => shellRequests'[j] = shellRequests[j]
    BY <1>0, <1>1, <2>1, <2>2
  <2>4. \A j \in 1..Len(shellRequests) :
          shellRequests'[j].kind = shellRequests[j].kind /\ shellRequests'[j].cancelled = shellRequests[j].cancelled
    BY <2>1, <2>3 DEF request
  <2>5. ASSUME cookie' \notin live' \/ (request.kind = "signIn" /\ a = "ok" /\ n = cookie')
        PROVE  TokenSound'
    <3>1. i \in 1..Len(shellRequests')
      BY <1>1, <2>3
    <3>2. (request.kind = "signIn" /\ a = "ok" /\ n = cookie') => Renews(shellRequests'[i], cookie')
      BY <2>1, <2>3 DEF Renews
    <3>3. cookie' \notin live' \/ \E j \in 1..Len(shellRequests') : Renews(shellRequests'[j], cookie')
      BY <2>5, <3>1, <3>2
    <3> QED  BY <3>3, TokenRenewed
  <2>6. ASSUME UNCHANGED <<live, cookie>>,
               (a = "ok" /\ request.kind \in {"bootstrap", "signIn"}) => n = request.cookie
        PROVE  TokenSound'
    <3>1. ASSUME crossed = {}, NEW j \in 1..Len(shellRequests')
          PROVE  AnswersForCookie(shellRequests'[j], cookie, live, shellRequests)
      <4>1. AnswersForCookie(shellRequests[j], cookie, live, shellRequests)
        BY <2>3, <3>1 DEF ShellInv, TokenSound
      <4>2. CASE j = i
        <5>1. AnswersForCookie(request, cookie, live, shellRequests)
          BY <4>1, <4>2 DEF request
        <5> QED  BY <1>1, <1>2, <2>1, <2>3, <2>6, <4>2, <5>1 DEF AnswersForCookie, OfSession
      <4> QED  BY <2>3, <3>1, <4>1, <4>2
    <3>2. \A j \in 1..Len(shellRequests) : Renews(shellRequests[j], cookie) => j # i
      BY <1>1 DEF Renews, request
    <3>3. \A j \in 1..Len(shellRequests) : Renews(shellRequests[j], cookie) =>
            \E k \in 1..Len(shellRequests') : Renews(shellRequests'[k], cookie)
      BY <2>3, <3>2
    <3>4. (crossed = {} /\ session.status = "authenticated") => Fresh(session.token, cookie, live, shellRequests)
      BY DEF ShellInv, TokenSound
    <3>5. crossed' = crossed /\ cookie' = cookie /\ live' \in SUBSET live /\ session' = session
      BY <1>1, <2>6
    <3> QED  BY <3>1, <3>3, <3>4, <3>5, TokenKept
  <2>7. TokenSound'
    BY <1>2, <2>5, <2>6
  <2>8. GuardAsks'
    <3>1. \A j \in 1..Len(shellRequests') : shellRequests'[j].kind = "bootstrap" => shellRequests'[j].answer # "403"
      BY <1>2, <2>1, <2>3 DEF ShellInv, GuardAsks
    <3> QED  BY <1>1, <2>3, <2>4, <3>1 DEF ShellInv, GuardAsks
  <2>9. ShellTypeOK'
    BY <1>1, <1>2, <2>3 DEF ShellInv, ShellTypeOK
  <2> QED  BY <2>7, <2>8, <2>9 DEF ShellInv
<1>2a. request.cookie \in Nat /\ request.new \in Nat
  BY <1>1 DEF ShellRequest
<1>2b. live \in SUBSET (Nat \ {0})
  BY DEF ShellInv, ShellTypeOK
<1>3. CASE /\ request.kind # "signIn"
           /\ shellRequests' = [shellRequests EXCEPT ![i].answer = Shell!Guarded(request), ![i].new = request.cookie]
           /\ IF request.kind = "signOut" /\ Shell!Guarded(request) = "ok"
              THEN live' = live \ {request.cookie} /\ cookie' = 0
              ELSE UNCHANGED <<live, cookie>>
  <2> DEFINE a == Shell!Guarded(request)
  <2>1. a \in {"ok", "401", "403"} /\ (request.kind = "bootstrap" => a # "403")
    BY DEF Shell!Guarded
  <2>2. shellRequests' = [shellRequests EXCEPT ![i] = [request EXCEPT !.answer = a, !.new = request.cookie]]
    BY <1>0, <1>1, <1>3
  <2>3. live' \in SUBSET (Nat \ {0}) /\ cookie' \in Nat
        /\ (cookie' \notin live' \/ UNCHANGED <<live, cookie>>)
    BY <1>0, <1>2b, <1>3
  <2> HIDE DEF a, request
  <2> QED  BY <1>2, <1>2a, <2>1, <2>2, <2>3
<1>4. CASE /\ request.kind = "signIn"
           /\ \E s \in Sessions \ made :
                /\ live' = live \cup {s} /\ cookie' = s
                /\ shellRequests' = [shellRequests EXCEPT ![i].answer = "ok", ![i].new = s]
  <2>1. PICK s \in Sessions :
          /\ live' = live \cup {s} /\ cookie' = s
          /\ shellRequests' = [shellRequests EXCEPT ![i].answer = "ok", ![i].new = s]
    BY <1>4
  <2>2. s \in Nat \ {0}
    BY DEF Shell!ShellBounds
  <2>3. shellRequests' = [shellRequests EXCEPT ![i] = [request EXCEPT !.answer = "ok", !.new = s]]
    BY <1>0, <1>1, <2>1
  <2>4. live' \in SUBSET (Nat \ {0})
    BY <1>2b, <2>1, <2>2
  <2> HIDE DEF request
  <2> QED  BY <1>2, <1>4, <2>1, <2>2, <2>3, <2>4
<1>5. ASSUME NEW a \in {"401", "failed"}, shellRequests' = [shellRequests EXCEPT ![i].answer = a], UNCHANGED <<live, cookie>>
      PROVE  ShellInv'
  <2>1. shellRequests' = [shellRequests EXCEPT ![i] = [request EXCEPT !.answer = a, !.new = request.new]]
    <3>1. [request EXCEPT !.answer = a] = [request EXCEPT !.answer = a, !.new = request.new]
      BY <1>1 DEF ShellRequest
    <3>2. shellRequests' = [shellRequests EXCEPT ![i] = [request EXCEPT !.answer = a]]
      BY <1>0, <1>1, <1>5
    <3> QED  BY <3>1, <3>2
  <2> HIDE DEF request
  <2> QED  BY <1>0, <1>2, <1>2a, <1>2b, <1>5, <2>1
<1> QED  BY <1>1, <1>3, <1>4, <1>5 DEF Shell!Answer

\* The answer reaches the tab.
LEMMA AnswerDelivered ==
  ASSUME ShellInv, NEW i \in DOMAIN shellRequests, Shell!Deliver(i)
  PROVE  ShellInv'
<1>0. /\ Len(shellRequests) \in Nat /\ DOMAIN shellRequests = 1..Len(shellRequests)
      /\ shellRequests \in Seq(ShellRequest)
      /\ \A j \in 1..Len(shellRequests) : shellRequests[j] \in ShellRequest
  BY ShellFacts
<1> DEFINE request == shellRequests[i]
           list == IF shellRoute' = shellRoute THEN shellRequests ELSE Shell!Cancelled
<1>1. /\ i \in 1..Len(shellRequests) /\ request \in ShellRequest /\ request.answer # "none"
      /\ UNCHANGED <<live, cookie>> /\ shellRequests' = Without(list, i)
      /\ crossed' = IF Shell!Overtakes(i) THEN crossed \cup {"overtook"} ELSE crossed
      /\ restoreError' = (restoreError \/ (request.kind = "bootstrap" /\ request.answer = "failed" /\ ~request.cancelled))
  BY <1>0 DEF Shell!Deliver, Shell!RemoveAt, Without
<1>2. list \in Seq(ShellRequest) /\ Len(list) = Len(shellRequests)
      /\ \A j \in 1..Len(list) : Alike(list[j], shellRequests[j])
  <2>1. CASE shellRoute' = shellRoute
    BY <1>0, <2>1 DEF Alike
  <2>2. CASE shellRoute' # shellRoute
    BY <1>0, <2>2, CancelledList
  <2> QED  BY <2>1, <2>2
<1>3. shellRoute' = shellRoute => list = shellRequests
  OBVIOUS
<1> DEFINE was(j) == IF j < i THEN j ELSE j + 1
<1> HIDE DEF list, request
<1>4. shellRequests' \in Seq(ShellRequest) /\ Len(shellRequests') = Len(shellRequests) - 1
      /\ \A j \in 1..(Len(shellRequests) - 1) : shellRequests'[j] = list[was(j)]
  BY <1>1, <1>2, ListWithout
<1>5. \A j \in 1..Len(shellRequests') :
        /\ was(j) \in 1..Len(shellRequests) /\ was(j) # i /\ shellRequests'[j] = list[was(j)]
        /\ Alike(shellRequests'[j], shellRequests[was(j)])
  BY <1>0, <1>1, <1>2, <1>4
<1>6. \A j, k \in 1..Len(shellRequests') : was(j) = was(k) => j = k
  BY <1>0, <1>1, <1>4
<1>7. \A k \in 1..Len(shellRequests) : k # i => \E j \in 1..Len(shellRequests') : was(j) = k
  <2> SUFFICES ASSUME NEW k \in 1..Len(shellRequests), k # i
               PROVE  \E j \in 1..Len(shellRequests') : was(j) = k
    OBVIOUS
  <2>1. CASE k < i
    BY <1>0, <1>1, <1>4, <2>1
  <2>2. CASE ~(k < i)
    <3>1. k - 1 \in 1..Len(shellRequests') /\ was(k - 1) = k
      BY <1>0, <1>1, <1>4, <2>2
    <3> QED  BY <3>1
  <2> QED  BY <2>1, <2>2
<1> HIDE DEF was
\* What is made of it.
<1>9. \/ UNCHANGED <<session, shellRoute>> /\ ~(request.answer = "401")
           /\ ~(request.answer = "ok" /\ OfSession(request))
      \/ session' = Shell!Told(request) /\ shellRoute' = Shell!Redirected(session', shellRoute)
      \/ UNCHANGED <<session, shellRoute>> /\ session = Shell!Told(request)
  BY DEF Shell!Deliver, Shell!SetSession, request
<1>10. /\ request.answer = "401" => Shell!Told(request) = [status |-> "anonymous", token |-> 0]
       /\ (request.answer = "ok" /\ request.kind \in {"bootstrap", "signIn"}) =>
            Shell!Told(request) = [status |-> "authenticated", token |-> request.new]
       /\ (request.answer = "ok" /\ request.kind = "signOut") =>
            Shell!Told(request) = [status |-> "anonymous", token |-> 0]
       /\ (request.answer # "401" /\ ~(request.answer = "ok" /\ OfSession(request))) => Shell!Told(request) = session
  BY DEF Shell!Told, Shell!Anonymous, Shell!Authenticated, OfSession, SessionKinds
<1>11. /\ session \in [status : {"checking", "anonymous", "authenticated"}, token : Nat]
       /\ request.new \in Nat /\ request.kind \in SessionKinds \cup {"query", "mutation"}
       /\ shellRoute \in {"operator", "login"}
  BY <1>1 DEF ShellInv, ShellTypeOK, ShellRequest
<1>12. Shell!Told(request) \in [status : {"checking", "anonymous", "authenticated"}, token : Nat]
  <2>1. CASE request.answer = "401" \/ (request.answer = "ok" /\ request.kind = "signOut")
    BY <1>10, <2>1
  <2>2. CASE request.answer = "ok" /\ request.kind \in {"bootstrap", "signIn"}
    BY <1>10, <1>11, <2>2
  <2>3. CASE request.answer # "401" /\ ~(request.answer = "ok" /\ OfSession(request))
    BY <1>10, <1>11, <2>3
  <2> QED  BY <2>1, <2>2, <2>3 DEF OfSession, SessionKinds
<1>13. session' = Shell!Told(request) /\ (UNCHANGED shellRoute \/ shellRoute' = Shell!Redirected(session', shellRoute))
  BY <1>9, <1>10
<1>14. /\ session' \in [status : {"checking", "anonymous", "authenticated"}, token : Nat]
       /\ session'.status \in {"checking", "anonymous", "authenticated"}
  BY <1>12, <1>13
<1>15. /\ shellRoute' \in {"operator", "login"}
       /\ session'.status = "authenticated" => shellRoute' = "operator"
       /\ session'.status = "checking" => shellRoute' = shellRoute
  <2>1. CASE session' = session /\ UNCHANGED shellRoute
    BY <1>11, <2>1 DEF ShellInv, GuardAsks
  <2>2. CASE shellRoute' = Shell!Redirected(session', shellRoute)
    <3>1. /\ session'.status = "anonymous" => shellRoute' = "login"
          /\ session'.status = "authenticated" => shellRoute' = "operator"
          /\ session'.status = "checking" => shellRoute' = shellRoute
      BY <1>14, <2>2, RedirectedTo
    <3> QED  BY <1>11, <1>14, <3>1
  <2> QED  BY <1>9, <1>13, <2>1, <2>2
<1>16. ASSUME crossed = {}, session'.status = "authenticated"
       PROVE  Fresh(session'.token, cookie, live, shellRequests)
  <2>1. CASE request.answer = "ok" /\ request.kind \in {"bootstrap", "signIn"}
    <3>1. AnswersForCookie(request, cookie, live, shellRequests)
      BY <1>1, <1>16 DEF ShellInv, TokenSound, request
    <3> QED  BY <1>10, <1>13, <2>1, <3>1 DEF AnswersForCookie, OfSession, SessionKinds
  <2>2. CASE ~(request.answer = "ok" /\ request.kind \in {"bootstrap", "signIn"})
    <3>1. session' = session
      BY <1>10, <1>13, <1>16, <2>2 DEF OfSession, SessionKinds
    <3> QED  BY <1>16, <3>1 DEF ShellInv, TokenSound
  <2> QED  BY <2>1, <2>2
<1>17. ASSUME crossed = {}, NEW j \in 1..Len(shellRequests')
       PROVE  AnswersForCookie(shellRequests'[j], cookie, live, shellRequests)
  <2>1. /\ AnswersForCookie(shellRequests[was(j)], cookie, live, shellRequests)
        /\ Alike(shellRequests'[j], shellRequests[was(j)])
    BY <1>5, <1>17 DEF ShellInv, TokenSound
  <2> QED  BY <2>1 DEF AnswersForCookie, OfSession, Alike
<1>18. TokenSound'
  \* The sign-in that the others wait for is the one that is told: no other
  \* session request is out, and the token is its own.
  <2>1. CASE Renews(request, cookie) /\ ~Shell!Overtakes(i)
    <3>1. \A j \in 1..Len(shellRequests) : OfSession(shellRequests[j]) => j = i
      BY <1>0, <2>1 DEF Shell!Overtakes, Renews, OfSession, SessionKinds, request
    <3>2. \A j \in 1..Len(shellRequests') : ~OfSession(shellRequests'[j])
      BY <1>5, <3>1 DEF OfSession, Alike
    <3>3. session'.token = cookie
      BY <1>10, <1>13, <2>1 DEF Renews
    <3> QED  BY <1>1, <3>2, <3>3 DEF TokenSound, AnswersForCookie, Fresh
  <2>2. CASE ~Renews(request, cookie)
    <3>1. \A k \in 1..Len(shellRequests) : Renews(shellRequests[k], cookie) =>
            \E j \in 1..Len(shellRequests') : Renews(shellRequests'[j], cookie)
      <4> SUFFICES ASSUME NEW k \in 1..Len(shellRequests), Renews(shellRequests[k], cookie)
                   PROVE  \E j \in 1..Len(shellRequests') : Renews(shellRequests'[j], cookie)
        OBVIOUS
      <4>1. PICK j \in 1..Len(shellRequests') : was(j) = k
        BY <1>7, <2>2 DEF request
      <4> QED  BY <1>5, <4>1 DEF Renews, Alike
    <3>2. crossed' = {} => crossed = {}
      BY <1>1
    <3> QED  BY <1>1, <1>16, <1>17, <3>1, <3>2, TokenKept
  <2>3. CASE Shell!Overtakes(i)
    BY <1>1, <2>3 DEF TokenSound
  <2> QED  BY <2>1, <2>2, <2>3
<1>19. GuardAsks'
  <2>1. \A j \in 1..Len(shellRequests') : shellRequests'[j].kind = "bootstrap" => shellRequests'[j].answer # "403"
    BY <1>5 DEF ShellInv, GuardAsks, Alike
  <2>2. ASSUME shellRoute' = "operator", session'.status = "checking", ~restoreError'
        PROVE  \E j \in 1..Len(shellRequests') :
                 shellRequests'[j].kind = "bootstrap" /\ ~shellRequests'[j].cancelled
    <3>1. session' = session /\ shellRoute = "operator" /\ ~restoreError /\ list = shellRequests
      <4>1. request.answer # "401" /\ ~(request.answer = "ok" /\ OfSession(request))
        <5>1. ~(request.answer = "401")
          BY <1>10, <1>13, <2>2
        <5>2. ~(request.answer = "ok" /\ request.kind \in {"bootstrap", "signIn"})
          BY <1>10, <1>13, <2>2
        <5>3. ~(request.answer = "ok" /\ request.kind = "signOut")
          BY <1>10, <1>13, <2>2
        <5> QED  BY <5>1, <5>2, <5>3 DEF OfSession, SessionKinds
      <4>2. session' = session
        BY <1>10, <1>13, <4>1
      <4>3. shellRoute = "operator" /\ list = shellRequests
        BY <1>3, <1>15, <2>2
      <4>4. ~restoreError
        BY <1>1, <2>2
      <4> QED  BY <4>2, <4>3, <4>4
    <3>2. PICK k \in 1..Len(shellRequests) : shellRequests[k].kind = "bootstrap" /\ ~shellRequests[k].cancelled
      BY <2>2, <3>1 DEF ShellInv, GuardAsks
    <3>3. k # i
      <4> SUFFICES ASSUME k = i PROVE FALSE
        OBVIOUS
      <4>1. request.kind = "bootstrap" /\ ~request.cancelled
        BY <3>2 DEF request
      <4>2. request.answer \in {"ok", "401", "failed"}
        BY <1>1, <4>1 DEF ShellInv, GuardAsks, ShellRequest, request
      <4>3. request.answer = "failed"
        BY <1>10, <1>13, <2>2, <4>1, <4>2
      <4> QED  BY <1>1, <2>2, <4>1, <4>3
    <3>4. PICK j \in 1..Len(shellRequests') : was(j) = k
      BY <1>7, <3>3
    <3> QED  BY <1>5, <3>1, <3>2, <3>4
  <2> QED  BY <1>15, <2>1, <2>2 DEF GuardAsks
<1>20. ShellTypeOK'
  <2>1. restoreError' \in BOOLEAN
    BY <1>1 DEF ShellInv, ShellTypeOK
  <2> QED  BY <1>1, <1>4, <1>14, <1>15, <2>1 DEF ShellInv, ShellTypeOK
<1> QED  BY <1>18, <1>19, <1>20 DEF ShellInv

LEMMA ShellStep ==
  ASSUME ShellInv, Shell!ShellBounds, Shell!ShellNext
  PROVE  ShellInv'
<1>1. CASE \/ \E r \in {"operator", "login"} : Shell!Enter(r)
           \/ Shell!RetryRestore \/ Shell!HandleSubmit \/ Shell!HandleSignOut
           \/ Shell!UsePage("query") \/ Shell!UsePage("mutation")
  BY <1>1, OperatorStep
<1>2. CASE Shell!AnswerSome
  BY <1>2, AnswerStep DEF Shell!AnswerSome
<1>3. CASE Shell!DeliverSome
  BY <1>3, AnswerDelivered DEF Shell!DeliverSome
<1>4. CASE Shell!Elsewhere
  <2>1. UNCHANGED <<shellRoute, session, restoreError, shellRequests>>
    BY <1>4 DEF Shell!Elsewhere
  <2>2. GuardAsks'
    BY <2>1 DEF ShellInv, GuardAsks
  <2>3. CASE \E s \in live : live' = live \ {s} /\ UNCHANGED <<made, cookie, crossed>>
    <3>1. TokenSound'
      <4>1. /\ live' \in SUBSET live /\ cookie' = cookie /\ crossed' = crossed
            /\ session' = session /\ shellRequests' = shellRequests
        BY <2>1, <2>3
      <4> QED  BY <4>1, TokenKept DEF ShellInv, TokenSound
    <3>2. ShellTypeOK'
      BY <2>1, <2>3 DEF ShellInv, ShellTypeOK
    <3> QED  BY <2>2, <3>1, <3>2 DEF ShellInv
  <2>4. CASE \E s \in Sessions \ made :
               live' = live \cup {s} /\ cookie' = s /\ crossed' = crossed \cup {"tab"}
    <3>1. TokenSound'
      BY <2>4 DEF TokenSound
    <3>2. ShellTypeOK'
      BY <2>1, <2>4 DEF ShellInv, ShellTypeOK, Shell!ShellBounds
    <3> QED  BY <2>2, <3>1, <3>2 DEF ShellInv
  <2> QED  BY <1>4, <2>3, <2>4 DEF Shell!Elsewhere
<1> QED  BY <1>1, <1>2, <1>3, <1>4 DEF Shell!ShellNext

LEMMA ShellHolds == ShellInv => Shell!SessionIsCurrent
<1> SUFFICES ASSUME ShellInv PROVE Shell!SessionIsCurrent
  OBVIOUS
<1>1. DOMAIN shellRequests = 1..Len(shellRequests)
  BY ShellFacts
<1>2. Shell!TokenCurrent
  <2>1. shellRequests = <<>> => Len(shellRequests) = 0
    OBVIOUS
  <2> QED  BY <2>1 DEF ShellInv, TokenSound, Fresh, Shell!TokenCurrent
<1>3. Shell!CheckingHasAWay
  BY <1>1 DEF ShellInv, GuardAsks, Shell!CheckingHasAWay
<1> QED  BY <1>2, <1>3 DEF Shell!SessionIsCurrent

-----------------------------------------------------------------------------
(* The case list.                                                          *)

Answered == [at : {"none", "ready", "error"}, list : SUBSET Ids, next : Nat]
SearchRequest ==
  [query : {"empty", "some"}, cursor : Nat, settled : BOOLEAN, answer : Answered, had : SUBSET Ids]

SearchTypeOK ==
  /\ cases \in Seq(Ids) /\ query \in {"empty", "some"} /\ cursor \in Nat
  /\ searchPhase \in [status : {"loading", "ready", "error"}, list : Seq(SUBSET Ids), next : Nat]
  /\ searches \in Seq(SearchRequest) /\ first \in SUBSET Ids
  /\ missed \in BOOLEAN

\* A case that a list of the cases M still brings from an offset on.
Ahead(c, at, M) == at # 0 /\ at <= Search!Place(c, M)

Missing == first \ Search!Shown

\* What is shown and what is still to come make up the list as it was when it
\* was begun.
ListSound(M) ==
  searchPhase.status = "ready" =>
    /\ Search!Shown \subseteq M
    /\ ~missed => \A c \in Missing : c \in M /\ Ahead(c, searchPhase.next, M)

\* A request that is listened to is the page's, and its answer a page of M that
\* follows what is shown.
SearchSound(request, M) ==
  ~request.settled =>
    /\ request.query = query /\ request.cursor = cursor
    /\ request.answer.at = "ready" =>
         /\ request.answer.list \subseteq M /\ request.had \subseteq M
         /\ cursor = 0 => \A c \in request.had \ request.answer.list : Ahead(c, request.answer.next, M)
         /\ (cursor # 0 /\ ~missed) => \A c \in Missing \ request.answer.list : Ahead(c, request.answer.next, M)
    /\ (request.answer.at = "none" /\ cursor # 0 /\ ~missed) => \A c \in Missing : Ahead(c, cursor, M)

SearchInv ==
  /\ SearchTypeOK /\ ListSound(Search!Matched(query))
  /\ (cursor # 0 /\ ~missed) => searchPhase.status = "ready"
  /\ \A i \in 1..Len(searches) : SearchSound(searches[i], Search!Matched(query))

LEMMA RangeFinite ==
  ASSUME NEW S, NEW s \in Seq(S)
  PROVE  IsFiniteSet(Search!Range(s)) /\ Search!Range(s) \subseteq S
<1>1. Len(s) \in Nat /\ DOMAIN s = 1..Len(s) /\ s \in [1..Len(s) -> S]
  OBVIOUS
<1>2. s \in Surjection(1..Len(s), Search!Range(s))
  BY <1>1 DEF Surjection, Search!Range
<1>3. IsFiniteSet(1..Len(s))
  BY <1>1, FS_Interval
<1>4. QED
  BY <1>1, <1>2, <1>3, FS_Surjection DEF Search!Range

\* The place of a case among more cases is no lower.
LEMMA PlaceGrows ==
  ASSUME NEW T, IsFiniteSet(T), NEW S \in SUBSET T, NEW c
  PROVE  /\ Search!Place(c, S) \in Nat /\ Search!Place(c, T) \in Nat
         /\ Search!Place(c, S) <= Search!Place(c, T)
<1> DEFINE A == {d \in S : d < c}
           B == {d \in T : d < c}
<1>1. A \in SUBSET B /\ B \in SUBSET T
  OBVIOUS
<1>2. Search!Place(c, S) = Cardinality(A) /\ Search!Place(c, T) = Cardinality(B)
  BY Zenon DEF Search!Place, Search!Cardinality, Cardinality
<1> HIDE DEF A, B
<1>3. IsFiniteSet(B) /\ IsFiniteSet(A) /\ Cardinality(A) <= Cardinality(B)
  BY <1>1, FS_Subset
<1>4. QED
  BY <1>2, <1>3, FS_CardinalityType

\* A case is at a place below the number of cases.
LEMMA PlaceBelow ==
  ASSUME NEW S \in SUBSET Nat, IsFiniteSet(S), NEW c \in S
  PROVE  Search!Place(c, S) \in Nat /\ Cardinality(S) \in Nat /\ Search!Place(c, S) < Cardinality(S)
<1> DEFINE A == {d \in S : d < c}
<1>1. A \in SUBSET S /\ c \notin A /\ c \in S
  OBVIOUS
<1>2. Search!Place(c, S) = Cardinality(A)
  BY Zenon DEF Search!Place, Search!Cardinality, Cardinality
<1> HIDE DEF A
<1>3. IsFiniteSet(A) /\ Cardinality(A) <= Cardinality(S) /\ (Cardinality(S) = Cardinality(A) => S = A)
  BY <1>1, FS_Subset
<1>4. Cardinality(A) \in Nat /\ Cardinality(S) \in Nat
  BY <1>3, FS_CardinalityType
<1>5. QED
  BY <1>1, <1>2, <1>3, <1>4

LEMMA MatchedFinite ==
  ASSUME cases \in Seq(Ids), Search!SearchBounds, NEW q
  PROVE  /\ IsFiniteSet(Search!Matched(q)) /\ Search!Matched(q) \in SUBSET Ids
         /\ Search!Matched(q) \in SUBSET Nat /\ Cardinality(Search!Matched(q)) \in Nat
<1> DEFINE M == Search!Matched(q)
<1>1. IsFiniteSet(Search!Range(cases)) /\ Search!Range(cases) \subseteq Ids
  BY RangeFinite
<1>2. M \in SUBSET Search!Range(cases)
  BY DEF Search!Matched
<1> HIDE DEF M
<1>3. IsFiniteSet(M)
  BY <1>1, <1>2, FS_Subset
<1>4. Cardinality(M) \in Nat
  BY <1>3, FS_CardinalityType
<1>5. QED
  BY <1>1, <1>2, <1>3, <1>4 DEF M, Search!SearchBounds

\* A slice leaves out only what comes before it and what a later one brings.
LEMMA SliceComplete ==
  ASSUME Search!SearchBounds, NEW S \in SUBSET Ids, IsFiniteSet(S), NEW at \in Nat
  PROVE  LET next == Search!NextCursor(at, Cardinality(S))
         IN  /\ next \in Nat /\ Search!Slice(S, at) \subseteq S
             /\ \A c \in S \ Search!Slice(S, at) : at <= Search!Place(c, S) => Ahead(c, next, S)
<1> DEFINE next == Search!NextCursor(at, Cardinality(S))
<1>1. Cardinality(S) \in Nat /\ PageSize \in Nat \ {0} /\ S \in SUBSET Nat
  BY FS_CardinalityType DEF Search!SearchBounds
<1>2. next \in Nat /\ Search!Slice(S, at) \subseteq S
  BY <1>1 DEF Search!NextCursor, Search!Slice
<1>3. ASSUME NEW c \in S, c \notin Search!Slice(S, at), at <= Search!Place(c, S) PROVE Ahead(c, next, S)
  <2>1. Search!Place(c, S) \in Nat /\ Search!Place(c, S) < Cardinality(S)
    BY <1>1, PlaceBelow
  <2>2. at + PageSize <= Search!Place(c, S)
    BY <1>1, <1>3, <2>1 DEF Search!Slice
  <2>3. next = at + PageSize
    BY <1>1, <2>1, <2>2 DEF Search!NextCursor
  <2> HIDE DEF next
  <2> QED  BY <1>1, <2>1, <2>2, <2>3 DEF Ahead
<1>4. QED
  BY <1>2, <1>3

LEMMA SearchFacts ==
  ASSUME SearchInv, Search!SearchBounds
  PROVE  /\ Len(searches) \in Nat /\ DOMAIN searches = 1..Len(searches)
         /\ searches \in Seq(SearchRequest)
         /\ \A i \in 1..Len(searches) :
              /\ searches[i] \in SearchRequest /\ searches[i].answer \in Answered
              /\ searches[i].cursor \in Nat /\ searches[i].query \in {"empty", "some"}
         /\ IsFiniteSet(Search!Matched(query)) /\ Search!Matched(query) \in SUBSET Ids
<1>1. \A i \in 1..Len(searches) : searches[i] \in SearchRequest
  BY DEF SearchInv, SearchTypeOK
<1>2. IsFiniteSet(Search!Matched(query)) /\ Search!Matched(query) \in SUBSET Ids
  BY MatchedFinite DEF SearchInv, SearchTypeOK
<1>3. \A i \in 1..Len(searches) :
        /\ searches[i].answer \in Answered
        /\ searches[i].cursor \in Nat /\ searches[i].query \in {"empty", "some"}
  BY <1>1 DEF SearchRequest
<1>4. QED
  BY <1>1, <1>2, <1>3 DEF SearchInv, SearchTypeOK

LEMMA NewSearch ==
  ASSUME NEW q \in {"empty", "some"}, NEW at \in Nat
  PROVE  /\ Search!Request(q, at) \in SearchRequest /\ Search!Request(q, at).query = q
         /\ Search!Request(q, at).cursor = at /\ Search!Request(q, at).answer.at = "none"
<1>1. Search!NoAnswer \in Answered /\ Search!NoAnswer.at = "none"
  BY DEF Search!NoAnswer, Answered
<1>2. QED
  BY <1>1 DEF Search!Request, SearchRequest

LEMMA SearchStart ==
  ASSUME Search!SearchBounds, Search!SearchInit
  PROVE  SearchInv
<1> DEFINE new == Search!Request("empty", 0)
<1>1. /\ cases = Opened /\ query = "empty" /\ cursor = 0 /\ searches = <<new>> /\ first = {} /\ missed = FALSE
      /\ searchPhase = [status |-> "loading", list |-> <<>>, next |-> 0]
  BY DEF Search!SearchInit, Search!Blank
<1>2. new \in SearchRequest /\ new.query = "empty" /\ new.cursor = 0 /\ new.answer.at = "none"
  BY NewSearch
<1> HIDE DEF new
<1>3. searches \in Seq(SearchRequest) /\ Len(searches) = 1 /\ searches[1] = new
  BY <1>1, <1>2
<1>4. searchPhase \in [status : {"loading", "ready", "error"}, list : Seq(SUBSET Ids), next : Nat]
  BY <1>1
<1>5. SearchTypeOK
  BY <1>1, <1>3, <1>4 DEF SearchTypeOK, Search!SearchBounds
<1>6. \A i \in 1..Len(searches) : SearchSound(searches[i], Search!Matched(query))
  BY <1>1, <1>2, <1>3 DEF SearchSound
<1>7. ListSound(Search!Matched(query))
  BY <1>1 DEF ListSound
<1>8. QED
  BY <1>1, <1>5, <1>6, <1>7 DEF SearchInv

\* A case is opened: what matched still matches, at a place no lower.
LEMMA CaseOpened ==
  ASSUME SearchInv, Search!SearchBounds, NEW c \in Ids, Search!NewCase(c)
  PROVE  SearchInv'
<1> DEFINE M == Search!Matched(query)
           N == Search!Matched(query)'
<1>1. cases' = Append(cases, c) /\ UNCHANGED <<query, cursor, searchPhase, searches, first, missed>>
  BY DEF Search!NewCase
<1>2. cases \in Seq(Ids) /\ cases' \in Seq(Ids)
  BY <1>1 DEF SearchInv, SearchTypeOK
<1>3. N = {d \in Search!Range(cases') : query = "empty" \/ d \in Matching}
  BY <1>1 DEF Search!Matched
<1>4. Search!Range(cases) \subseteq Search!Range(cases')
  <2>1. Len(cases) \in Nat /\ DOMAIN cases = 1..Len(cases) /\ DOMAIN cases' = 1..(Len(cases) + 1)
        /\ \A i \in 1..Len(cases) : cases'[i] = cases[i]
    BY <1>1, <1>2
  <2> QED  BY <2>1 DEF Search!Range
<1>5. M \in SUBSET N
  BY <1>3, <1>4 DEF Search!Matched
<1>6. IsFiniteSet(N)
  <2>1. IsFiniteSet(Search!Range(cases'))
    BY <1>2, RangeFinite
  <2>2. N \in SUBSET Search!Range(cases')
    BY <1>3
  <2> HIDE DEF N
  <2> QED  BY <2>1, <2>2, FS_Subset
<1> HIDE DEF M, N
<1>7. ASSUME NEW d, NEW at \in Nat, Ahead(d, at, M) PROVE Ahead(d, at, N)
  <2>1. Search!Place(d, M) \in Nat /\ Search!Place(d, N) \in Nat /\ Search!Place(d, M) <= Search!Place(d, N)
    BY <1>5, <1>6, PlaceGrows
  <2> QED  BY <1>7, <2>1 DEF Ahead
<1>8. Missing' = Missing /\ (Search!Shown)' = Search!Shown
  BY <1>1 DEF Missing, Search!Shown
<1>9. SearchTypeOK'
  BY <1>1, <1>2 DEF SearchInv, SearchTypeOK
<1>10. ListSound(M) /\ searchPhase.next \in Nat /\ cursor \in Nat
  BY DEF SearchInv, SearchTypeOK, M
<1>11. (ListSound(Search!Matched(query)))'
  <2>1. searchPhase.status = "ready" =>
          /\ Search!Shown \subseteq N
          /\ ~missed => \A d \in Missing : d \in N /\ Ahead(d, searchPhase.next, N)
    BY <1>5, <1>7, <1>10 DEF ListSound
  <2> QED  BY <1>1, <1>8, <2>1 DEF ListSound, N
<1>12. ASSUME NEW i \in 1..Len(searches) PROVE SearchSound(searches[i], Search!Matched(query))'
  <2> DEFINE r == searches[i]
  <2>1. SearchSound(r, M) /\ r.answer \in Answered
    BY SearchFacts DEF SearchInv, M
  <2>2. r.answer.next \in Nat
    BY <2>1 DEF Answered
  <2>3. SearchSound(r, N)
    BY <1>5, <1>7, <1>10, <2>1, <2>2 DEF SearchSound
  <2>4. r' = r
    BY <1>1
  <2> HIDE DEF r
  <2>5. SearchSound(r, Search!Matched(query))'
    BY <1>1, <1>8, <2>3, <2>4 DEF SearchSound, N
  <2> QED  BY <2>5 DEF r
<1>13. QED
  BY <1>1, <1>9, <1>11, <1>12 DEF SearchInv

\* The effect: the requests before are ignored from here on.
LEMMA SearchBegun ==
  ASSUME SearchInv, Search!SearchBounds, NEW q \in {"empty", "some"}, NEW at \in Nat, Search!RunEffect(q, at),
         UNCHANGED <<cases, first>>,
         at # 0 => q = query,
         (at # 0 /\ ~missed) => searchPhase.status = "ready" /\ \A c \in Missing : Ahead(c, at, Search!Matched(query))
  PROVE  SearchInv'
<1> DEFINE new == Search!Request(q, at)
           old == [i \in DOMAIN searches |-> [searches[i] EXCEPT !.settled = TRUE]]
           M == Search!Matched(query)
<1>0. /\ Len(searches) \in Nat /\ DOMAIN searches = 1..Len(searches)
      /\ \A i \in 1..Len(searches) : searches[i] \in SearchRequest
  BY SearchFacts
<1>1. /\ query' = q /\ cursor' = at /\ missed' = (missed /\ at # 0)
      /\ searchPhase' = IF at = 0 THEN [status |-> "loading", list |-> <<>>, next |-> 0] ELSE searchPhase
      /\ searches' = Append(old, new)
  BY DEF Search!RunEffect, Search!Blank
<1>2. new \in SearchRequest /\ new.query = q /\ new.cursor = at /\ new.answer.at = "none"
  BY NewSearch
<1>3. old \in Seq(SearchRequest) /\ Len(old) = Len(searches) /\ \A i \in 1..Len(searches) : old[i].settled
  <2>1. \A i \in 1..Len(searches) :
          [searches[i] EXCEPT !.settled = TRUE] \in SearchRequest /\ [searches[i] EXCEPT !.settled = TRUE].settled
    BY <1>0 DEF SearchRequest
  <2>2. old \in [1..Len(searches) -> SearchRequest] /\ \A i \in 1..Len(searches) : old[i].settled
    BY <1>0, <2>1
  <2> HIDE DEF old
  <2> QED  BY <1>0, <2>2
<1> HIDE DEF old, new
<1>4. /\ searches' \in Seq(SearchRequest) /\ Len(searches') = Len(searches) + 1
      /\ \A i \in 1..Len(searches) : searches'[i].settled
      /\ searches'[Len(searches) + 1] = new
  BY <1>0, <1>1, <1>2, <1>3
<1>5. at # 0 => /\ Search!Matched(query)' = M /\ Missing' = Missing /\ (Search!Shown)' = Search!Shown
                /\ query' = query /\ searchPhase' = searchPhase /\ missed' = missed /\ first' = first
  BY <1>1 DEF Search!Matched, Missing, Search!Shown, SearchInv, SearchTypeOK
<1>6. SearchTypeOK'
  <2>1. searchPhase' \in [status : {"loading", "ready", "error"}, list : Seq(SUBSET Ids), next : Nat]
    <3>1. CASE at = 0
      <4>1. searchPhase' = [status |-> "loading", list |-> <<>>, next |-> 0]
        BY <1>1, <3>1
      <4> QED  BY <4>1
    <3>2. CASE at # 0
      BY <1>1, <3>2 DEF SearchInv, SearchTypeOK
    <3> QED  BY <3>1, <3>2
  <2>2. missed' \in BOOLEAN
    BY <1>1 DEF SearchInv, SearchTypeOK
  <2> QED  BY <1>1, <1>4, <2>1, <2>2 DEF SearchInv, SearchTypeOK
<1>7. (ListSound(Search!Matched(query)))'
  <2>1. CASE at = 0
    BY <1>1, <2>1 DEF ListSound
  <2>2. CASE at # 0
    <3>1. ListSound(M)
      BY DEF SearchInv
    <3> HIDE DEF M
    <3> QED  BY <1>5, <2>2, <3>1 DEF ListSound
  <2> QED  BY <2>1, <2>2
<1>8. (cursor' # 0 /\ ~missed') => searchPhase'.status = "ready"
  BY <1>1
<1>9. ASSUME NEW i \in 1..Len(searches)' PROVE SearchSound(searches[i], Search!Matched(query))'
  <2>1. CASE i = Len(searches) + 1
    <3> HIDE DEF M
    <3>1. (at # 0 /\ ~missed) => \A c \in Missing : Ahead(c, at, M)
      BY DEF M
    <3>2. CASE at = 0
      BY <1>1, <1>2, <1>4, <2>1, <3>2 DEF SearchSound
    <3>3. CASE at # 0
      BY <1>1, <1>2, <1>4, <1>5, <2>1, <3>1, <3>3 DEF SearchSound
    <3> QED  BY <3>2, <3>3
  <2>2. CASE i # Len(searches) + 1
    <3>1. searches'[i].settled
      BY <1>0, <1>4, <2>2
    <3> QED  BY <3>1 DEF SearchSound
  <2> QED  BY <2>1, <2>2
<1> QED  BY <1>6, <1>7, <1>8, <1>9 DEF SearchInv

LEMMA ReaderStep ==
  ASSUME SearchInv, Search!SearchBounds,
         (\E q \in {"empty", "some"} : Search!HandleSubmit(q)) \/ Search!LoadMore \/ Search!Retry
  PROVE  SearchInv'
<1>0. searchPhase.next \in Nat /\ cursor \in Nat /\ query \in {"empty", "some"}
  BY DEF SearchInv, SearchTypeOK
<1>1. ASSUME NEW q \in {"empty", "some"}, Search!HandleSubmit(q) PROVE SearchInv'
  <2>1. Search!RunEffect(q, 0) /\ UNCHANGED <<cases, first>>
    BY <1>1 DEF Search!HandleSubmit, Search!StartOver, Search!Act
  <2> QED  BY <2>1, SearchBegun
<1>2. CASE Search!LoadMore
  <2>1. Search!RunEffect(query, searchPhase.next) /\ UNCHANGED <<cases, first>> /\ searchPhase.status = "ready"
    BY <1>2 DEF Search!LoadMore, Search!Act
  <2>2. ~missed => \A c \in Missing : Ahead(c, searchPhase.next, Search!Matched(query))
    BY <2>1 DEF SearchInv, ListSound
  <2> QED  BY <1>0, <2>1, <2>2, SearchBegun
<1>3. CASE Search!Retry
  <2>1. Search!RunEffect(query, cursor) /\ UNCHANGED <<cases, first>> /\ searchPhase.status = "error"
    BY <1>3 DEF Search!Retry, Search!Act
  <2>2. cursor # 0 => missed
    BY <2>1 DEF SearchInv
  <2> QED  BY <1>0, <2>1, <2>2, SearchBegun
<1> QED  BY <1>1, <1>2, <1>3

\* The server answers with the page of the cases it has then.
LEMMA SearchAnswered ==
  ASSUME SearchInv, Search!SearchBounds, NEW i \in DOMAIN searches, Search!Answer(i)
  PROVE  SearchInv'
<1> DEFINE r == searches[i]
           M == Search!Matched(query)
<1>0. /\ Len(searches) \in Nat /\ DOMAIN searches = 1..Len(searches)
      /\ i \in 1..Len(searches) /\ r \in SearchRequest /\ r.answer \in Answered
      /\ r.cursor \in Nat /\ r.query \in {"empty", "some"}
      /\ IsFiniteSet(M) /\ M \in SUBSET Ids
  BY SearchFacts
<1>1. UNCHANGED <<cases, query, cursor, searchPhase, first, missed>> /\ r.answer.at = "none"
  BY DEF Search!Answer
<1>2. SearchSound(r, M)
  BY <1>0 DEF SearchInv
<1>3. PICK n \in SearchRequest :
        /\ searches' = [searches EXCEPT ![i] = n]
        /\ n.settled = r.settled /\ n.query = r.query /\ n.cursor = r.cursor /\ n.answer.at # "none"
        /\ n.answer.at = "ready" => n.answer = Search!Search(r.query, r.cursor) /\ n.had = Search!Matched(r.query)
  <2> DEFINE a == Search!Search(r.query, r.cursor)
             h == Search!Matched(r.query)
  <2>1. h \in SUBSET Ids /\ IsFiniteSet(h)
    BY MatchedFinite DEF SearchInv, SearchTypeOK
  <2>2. a \in Answered /\ a.at = "ready"
    <3>1. Search!NextCursor(r.cursor, Cardinality(h)) \in Nat /\ Search!Slice(h, r.cursor) \subseteq h
      BY <1>0, <2>1, SliceComplete
    <3>2. a = [at |-> "ready", list |-> Search!Slice(h, r.cursor), next |-> Search!NextCursor(r.cursor, Cardinality(h))]
      BY Zenon DEF Search!Search, Search!Cardinality, Cardinality
    <3> HIDE DEF a, h, r
    <3> QED  BY <2>1, <3>1, <3>2 DEF Answered
  <2> DEFINE n1 == [r EXCEPT !.answer = a, !.had = h]
             b == [r.answer EXCEPT !.at = "error"]
             n2 == [r EXCEPT !.answer = b]
  <2>3. b \in Answered /\ b.at = "error"
    BY <1>0 DEF Answered
  <2> HIDE DEF a, h, b
  <2>4. n1 \in SearchRequest /\ n1.settled = r.settled /\ n1.query = r.query /\ n1.cursor = r.cursor
        /\ n1.answer = a /\ n1.had = h
    BY <1>0, <2>1, <2>2 DEF SearchRequest
  <2>5. n2 \in SearchRequest /\ n2.settled = r.settled /\ n2.query = r.query /\ n2.cursor = r.cursor /\ n2.answer = b
    BY <1>0, <2>3 DEF SearchRequest
  <2>6. searches' = [searches EXCEPT ![i] = n1] \/ searches' = [searches EXCEPT ![i] = n2]
    <3>1. CASE searches' = [searches EXCEPT ![i].answer = a, ![i].had = h]
      BY <1>0, <3>1
    <3>2. CASE searches' = [searches EXCEPT ![i].answer.at = "error"]
      BY <1>0, <3>2 DEF b
    <3> QED  BY <3>1, <3>2 DEF Search!Answer, a, h
  <2> HIDE DEF n1, n2, r
  <2>7. CASE searches' = [searches EXCEPT ![i] = n1]
    <3>1. n1.answer = Search!Search(r.query, r.cursor) /\ n1.had = Search!Matched(r.query) /\ n1.answer.at # "none"
      BY <2>2, <2>4 DEF a, h
    <3> QED  BY <2>4, <2>7, <3>1
  <2>8. CASE searches' = [searches EXCEPT ![i] = n2]
    <3>1. n2.answer.at = "error"
      BY <2>3, <2>5
    <3> QED  BY <2>5, <2>8, <3>1
  <2> QED  BY <2>6, <2>7, <2>8
<1>4. /\ searches' \in Seq(SearchRequest) /\ Len(searches') = Len(searches) /\ searches'[i] = n
      /\ \A j \in 1..Len(searches) : j # i => searches'[j] = searches[j]
  BY <1>0, <1>3 DEF SearchInv, SearchTypeOK
<1>5. Search!Matched(query)' = M /\ Missing' = Missing /\ (Search!Shown)' = Search!Shown
  BY <1>1 DEF Search!Matched, Missing, Search!Shown
<1>6. SearchTypeOK'
  BY <1>1, <1>4 DEF SearchInv, SearchTypeOK
<1>7. (ListSound(Search!Matched(query)))'
  <2>1. ListSound(M)
    BY DEF SearchInv
  <2> HIDE DEF M
  <2> QED  BY <1>1, <1>5, <2>1 DEF ListSound
<1>8. SearchSound(n, M)
  <2> SUFFICES ASSUME ~r.settled PROVE SearchSound(n, M)
    BY <1>3 DEF SearchSound
  <2>1. r.query = query /\ r.cursor = cursor
    BY <1>2 DEF SearchSound
  <2> HIDE DEF r
  <2>2. ASSUME n.answer.at = "ready"
        PROVE  /\ n.answer.list \subseteq M /\ n.had \subseteq M
               /\ \A c \in M \ n.answer.list : cursor <= Search!Place(c, M) => Ahead(c, n.answer.next, M)
    <3>1. n.answer = Search!Search(query, cursor) /\ n.had = M
      BY <1>3, <2>1, <2>2
    <3>2. n.answer.list = Search!Slice(M, cursor) /\ n.answer.next = Search!NextCursor(cursor, Cardinality(M))
      <4>1. n.answer = [at |-> "ready", list |-> Search!Slice(M, cursor),
                        next |-> Search!NextCursor(cursor, Cardinality(M))]
        BY <3>1, Zenon DEF Search!Search, Search!Cardinality, Cardinality
      <4> QED  BY <4>1
    <3>3. cursor \in Nat
      BY DEF SearchInv, SearchTypeOK
    <3> HIDE DEF M
    <3> QED  BY SMTT(20), <1>0, <3>1, <3>2, <3>3, SliceComplete
  <2>3. ASSUME cursor = 0, NEW c \in M PROVE cursor <= Search!Place(c, M)
    <3>1. M \in SUBSET M
      OBVIOUS
    <3>2. Search!Place(c, M) \in Nat
      BY <1>0, <3>1, PlaceGrows
    <3> QED  BY <2>3, <3>2
  <2>4. ASSUME cursor # 0, ~missed, NEW c \in Missing PROVE c \in M /\ cursor <= Search!Place(c, M)
    <3>1. c \in M
      BY <2>4 DEF SearchInv, ListSound
    <3>2. Ahead(c, cursor, M)
      BY <1>1, <1>2, <2>4 DEF SearchSound, r
    <3> QED  BY <3>1, <3>2 DEF Ahead
  <2> HIDE DEF M
  <2>5. n.query = query /\ n.cursor = cursor /\ n.answer.at # "none"
    BY <1>3, <2>1
  <2>6. ASSUME n.answer.at = "ready", cursor = 0, NEW c \in n.had \ n.answer.list PROVE Ahead(c, n.answer.next, M)
    BY <2>2, <2>3, <2>6
  <2>7. ASSUME n.answer.at = "ready", cursor # 0, ~missed, NEW c \in Missing \ n.answer.list
        PROVE  Ahead(c, n.answer.next, M)
    BY <2>2, <2>4, <2>7
  <2> QED  BY <2>2, <2>5, <2>6, <2>7 DEF SearchSound
<1>9. ASSUME NEW j \in 1..Len(searches)' PROVE SearchSound(searches[j], Search!Matched(query))'
  <2>1. searches'[j] = n \/ (searches'[j] = searches[j] /\ j \in 1..Len(searches))
    BY <1>4
  <2>2. SearchSound(searches'[j], M)
    BY <1>8, <2>1 DEF SearchInv
  <2> HIDE DEF M
  <2> QED  BY <1>1, <1>5, <2>2 DEF SearchSound
<1> QED  BY <1>1, <1>6, <1>7, <1>9 DEF SearchInv

\* What is on the screen once a page is appended.
LEMMA ShownAppended ==
  ASSUME NEW l \in Seq(SUBSET Ids), NEW p \in SUBSET Ids
  PROVE  UNION Search!Range(Append(l, p)) = (UNION Search!Range(l)) \cup p
<1>1. Len(l) \in Nat /\ DOMAIN l = 1..Len(l) /\ DOMAIN Append(l, p) = 1..(Len(l) + 1)
      /\ (\A i \in 1..Len(l) : Append(l, p)[i] = l[i]) /\ Append(l, p)[Len(l) + 1] = p
  OBVIOUS
<1>2. Search!Range(Append(l, p)) = Search!Range(l) \cup {p}
  <2>1. \A i \in 1..(Len(l) + 1) : i \in 1..Len(l) \/ i = Len(l) + 1
    BY <1>1
  <2>2. Len(l) + 1 \in 1..(Len(l) + 1) /\ \A i \in 1..Len(l) : i \in 1..(Len(l) + 1)
    BY <1>1
  <2> QED  BY <1>1, <2>1, <2>2 DEF Search!Range
<1>3. QED
  BY <1>2

LEMMA SearchDelivered ==
  ASSUME SearchInv, Search!SearchBounds, NEW i \in DOMAIN searches, Search!Deliver(i)
  PROVE  SearchInv'
<1> DEFINE r == searches[i]
           M == Search!Matched(query)
<1>0. /\ Len(searches) \in Nat /\ DOMAIN searches = 1..Len(searches)
      /\ i \in 1..Len(searches) /\ r \in SearchRequest /\ r.answer \in Answered
  BY SearchFacts
<1>0a. r.answer.list \in SUBSET Ids /\ r.answer.next \in Nat /\ r.had \in SUBSET Ids
  BY <1>0 DEF Answered, SearchRequest
<1>1. UNCHANGED <<cases, query, cursor>> /\ r.answer.at # "none" /\ searches' = Without(searches, i)
  BY DEF Search!Deliver, Search!RemoveAt, Without
<1>2. /\ searches' \in Seq(SearchRequest) /\ Len(searches') = Len(searches) - 1
      /\ \A j \in 1..(Len(searches) - 1) : searches'[j] = searches[IF j < i THEN j ELSE j + 1]
  BY <1>0, <1>1, ListWithout DEF SearchInv, SearchTypeOK
<1>3. \A j \in 1..Len(searches') : \E k \in 1..Len(searches) : searches'[j] = searches[k]
  <2> TAKE j \in 1..Len(searches')
  <2>1. (IF j < i THEN j ELSE j + 1) \in 1..Len(searches)
    BY <1>0, <1>2
  <2> QED  BY <1>0, <1>2, <2>1
<1>4. Search!Matched(query)' = M
  BY <1>1 DEF Search!Matched
<1>5. SearchSound(r, M) /\ ListSound(M)
  BY <1>0 DEF SearchInv
<1>6. \A k \in 1..Len(searches) : SearchSound(searches[k], M)
  BY DEF SearchInv
<1> HIDE DEF M, r
<1>7. CASE r.settled
  <2>1. UNCHANGED <<searchPhase, first, missed>>
    BY <1>7 DEF Search!Deliver, r
  <2>2. Missing' = Missing /\ (Search!Shown)' = Search!Shown
    BY <2>1 DEF Missing, Search!Shown
  <2>3. SearchTypeOK'
    BY <1>1, <1>2, <2>1 DEF SearchInv, SearchTypeOK
  <2>4. (ListSound(Search!Matched(query)))'
    BY <1>4, <1>5, <2>1, <2>2 DEF ListSound
  <2>5. ASSUME NEW j \in 1..Len(searches)' PROVE SearchSound(searches[j], Search!Matched(query))'
    <3>1. SearchSound(searches'[j], M)
      BY <1>3, <1>6
    <3> QED  BY <1>1, <1>4, <2>1, <2>2, <3>1 DEF SearchSound
  <2> QED  BY <1>1, <2>1, <2>3, <2>4, <2>5 DEF SearchInv
<1>8. CASE ~r.settled /\ r.answer.at = "error"
  <2>1. /\ searchPhase' = [status |-> "error", list |-> <<>>, next |-> 0]
        /\ missed' = (missed \/ r.cursor # 0) /\ UNCHANGED first
    BY <1>8 DEF Search!Deliver, r
  <2>2. r.cursor = cursor
    BY <1>5, <1>8 DEF SearchSound
  <2>3. SearchTypeOK'
    <3>1. searchPhase' \in [status : {"loading", "ready", "error"}, list : Seq(SUBSET Ids), next : Nat]
      BY <2>1
    <3>2. missed' \in BOOLEAN
      BY <2>1 DEF SearchInv, SearchTypeOK
    <3> QED  BY <1>1, <1>2, <2>1, <3>1, <3>2 DEF SearchInv, SearchTypeOK
  <2>4. (ListSound(Search!Matched(query)))'
    BY <2>1 DEF ListSound
  <2>5. ASSUME NEW j \in 1..Len(searches)' PROVE SearchSound(searches[j], Search!Matched(query))'
    <3>1. SearchSound(searches'[j], M)
      BY <1>3, <1>6
    <3> QED  BY <1>1, <1>4, <2>1, <2>2, <3>1 DEF SearchSound
  <2> QED  BY <1>1, <2>1, <2>2, <2>3, <2>4, <2>5 DEF SearchInv
<1>9. CASE ~r.settled /\ r.answer.at = "ready"
  <2> DEFINE previous == IF r.cursor = 0 \/ searchPhase.status # "ready" THEN <<>> ELSE searchPhase.list
  <2>1. /\ searchPhase' = [status |-> "ready", list |-> Append(previous, r.answer.list), next |-> r.answer.next]
        /\ first' = IF r.cursor = 0 THEN r.had ELSE first
        /\ UNCHANGED missed
    BY <1>9 DEF Search!Deliver, r
  <2>2. /\ r.cursor = cursor /\ r.answer.list \subseteq M /\ r.had \subseteq M
        /\ cursor = 0 => \A c \in r.had \ r.answer.list : Ahead(c, r.answer.next, M)
        /\ (cursor # 0 /\ ~missed) => \A c \in Missing \ r.answer.list : Ahead(c, r.answer.next, M)
    BY <1>5, <1>9 DEF SearchSound
  <2>3. previous \in Seq(SUBSET Ids)
    BY DEF SearchInv, SearchTypeOK
  <2>4. UNION Search!Range(previous) =
          IF cursor = 0 \/ searchPhase.status # "ready" THEN {} ELSE Search!Shown
    <3>1. UNION Search!Range(<<>>) = {}
      BY DEF Search!Range
    <3> QED  BY <2>2, <3>1 DEF Search!Shown
  <2> HIDE DEF previous
  <2>5. Append(previous, r.answer.list) \in Seq(SUBSET Ids)
        /\ UNION Search!Range(Append(previous, r.answer.list)) = (UNION Search!Range(previous)) \cup r.answer.list
    <3>1. r.answer.list \in SUBSET Ids
      BY <1>0a
    <3>2. UNION Search!Range(Append(previous, r.answer.list)) = (UNION Search!Range(previous)) \cup r.answer.list
      BY <2>3, <3>1, ShownAppended
    <3>3. \A p \in SUBSET Ids : Append(previous, p) \in Seq(SUBSET Ids)
      BY <2>3
    <3> QED  BY <3>1, <3>2, <3>3
  <2>6. /\ searchPhase'.status = "ready" /\ searchPhase'.next = r.answer.next
        /\ (Search!Shown)' = (UNION Search!Range(previous)) \cup r.answer.list
    <3>1. searchPhase'.list = Append(previous, r.answer.list) /\ searchPhase'.status = "ready"
          /\ searchPhase'.next = r.answer.next
      BY <2>1
    <3>2. (Search!Shown)' = UNION Search!Range(searchPhase'.list)
      BY DEF Search!Shown, Search!Range
    <3> QED  BY <2>5, <3>1, <3>2
  <2>7. SearchTypeOK'
    <3>1. searchPhase' \in [status : {"loading", "ready", "error"}, list : Seq(SUBSET Ids), next : Nat]
      BY <1>0a, <2>1, <2>5
    <3>2. first' \in SUBSET Ids
      BY <1>0a, <2>1 DEF SearchInv, SearchTypeOK
    <3> QED  BY <1>1, <1>2, <2>1, <3>1, <3>2 DEF SearchInv, SearchTypeOK
  <2>8. Missing' = first' \ (Search!Shown)'
    BY DEF Missing
  <2>9. (Search!Shown)' \subseteq M
    BY <1>5, <2>2, <2>4, <2>6 DEF ListSound
  <2>10. ASSUME ~missed, NEW c \in Missing' PROVE c \in M /\ Ahead(c, r.answer.next, M)
    <3>1. CASE cursor = 0
      BY <2>1, <2>2, <2>4, <2>6, <2>8, <2>10, <3>1
    <3>2. CASE cursor # 0
      <4>1. searchPhase.status = "ready"
        BY <2>10, <3>2 DEF SearchInv
      <4>2. c \in Missing \ r.answer.list
        BY <2>1, <2>2, <2>4, <2>6, <2>8, <3>2, <4>1 DEF Missing
      <4> QED  BY <1>5, <2>2, <2>10, <3>2, <4>1, <4>2 DEF ListSound
    <3> QED  BY <3>1, <3>2
  <2>11. (ListSound(Search!Matched(query)))'
    BY <1>4, <2>1, <2>6, <2>9, <2>10 DEF ListSound
  <2>12. (cursor # 0 /\ ~missed) => Missing' \subseteq Missing
    <3> SUFFICES ASSUME cursor # 0, ~missed PROVE Missing' \subseteq Missing
      OBVIOUS
    <3>1. searchPhase.status = "ready"
      BY DEF SearchInv
    <3> QED  BY <2>1, <2>2, <2>4, <2>6, <2>8, <3>1 DEF Missing
  <2>13. ASSUME NEW j \in 1..Len(searches)' PROVE SearchSound(searches[j], Search!Matched(query))'
    <3>1. SearchSound(searches'[j], M)
      BY <1>3, <1>6
    <3> QED  BY <1>1, <1>4, <2>1, <2>12, <3>1 DEF SearchSound
  <2>14. (cursor' # 0 /\ ~missed') => searchPhase'.status = "ready"
    BY <2>6
  <2> QED  BY <2>7, <2>11, <2>13, <2>14 DEF SearchInv
<1> QED  BY <1>0, <1>1, <1>7, <1>8, <1>9 DEF Answered

LEMMA SearchStep ==
  ASSUME SearchInv, Search!SearchBounds, Search!SearchNext
  PROVE  SearchInv'
BY ReaderStep, SearchAnswered, SearchDelivered, CaseOpened
   DEF Search!SearchNext, Search!AnswerSome, Search!DeliverSome

LEMMA SearchHolds == SearchInv => Search!CaseListIsTrue
<1> SUFFICES ASSUME SearchInv PROVE Search!CaseListIsTrue
  OBVIOUS
<1>1. Search!ListedMatch
  BY DEF SearchInv, ListSound, Search!ListedMatch, Search!Listed
<1>2. Search!CompleteAtEnd
  BY DEF SearchInv, ListSound, Search!CompleteAtEnd, Search!Listed, Missing, Ahead
<1> QED  BY <1>1, <1>2 DEF Search!CaseListIsTrue

-----------------------------------------------------------------------------
(* The pages together.                                                     *)

\* What the page that is open and the server know of each other; the page
\* that uploads keeps its invariant while it rests.
PagesInv ==
  /\ page \in AllPages
  /\ UploadInv
  /\ page = "import" => ImportInv
  /\ page = "detail" => DetailInv
  /\ page = "symbols" => QueueInv
  /\ page = "shell" => ShellInv
  /\ page = "cases" => SearchInv

LEMMA PagesStart == PagesInit => PagesInv
BY UploadInvInit, ImportStart, DetailStart, QueueStart, ShellStart, SearchStart, PagesAssumption
   DEF PagesInit, PagesInv

\* A page that rests.
LEMMA UploadRests ==
  ASSUME UploadInv, UNCHANGED pageVars
  PROVE  UploadInv'
BY UploadInvStep

LEMMA ImportRests ==
  ASSUME ImportInv, UNCHANGED importVars
  PROVE  ImportInv'
BY DEF ImportInv, PollSound, importVars

LEMMA DetailRests ==
  ASSUME DetailInv, UNCHANGED detailVars
  PROVE  DetailInv'
<1> USE DEF detailVars
<1>1. DetailTypeOK' /\ DetailKnown' /\ OneListened'
  BY DEF DetailInv, DetailTypeOK, DetailKnown, OneListened
<1>2. \A i \in 1..Len(detailLoads') : ListenedIsCurrent(detailLoads[i])'
  BY DEF DetailInv, ListenedIsCurrent
<1>3. Detail!RestsOnCurrent'
  BY DEF DetailInv, Detail!RestsOnCurrent, Detail!AtRest
<1> QED  BY <1>1, <1>2, <1>3 DEF DetailInv

LEMMA QueueRests ==
  ASSUME QueueInv, UNCHANGED queueVars
  PROVE  QueueInv'
<1> USE DEF queueVars
<1>1. QueueTypeOK' /\ StoreKnown'
  BY DEF QueueInv, QueueTypeOK, StoreKnown
<1>2. ListFresh'
  BY DEF QueueInv, ListFresh, UpToDate, ListIsDue
<1> QED  BY <1>1, <1>2 DEF QueueInv

LEMMA ShellRests ==
  ASSUME ShellInv, UNCHANGED shellVars
  PROVE  ShellInv'
<1> USE DEF shellVars
<1>1. ShellTypeOK' /\ GuardAsks'
  BY DEF ShellInv, ShellTypeOK, GuardAsks
<1>2. TokenSound'
  BY DEF ShellInv, TokenSound, AnswersForCookie, OfSession
<1> QED  BY <1>1, <1>2 DEF ShellInv

LEMMA SearchRests ==
  ASSUME SearchInv, UNCHANGED searchVars
  PROVE  SearchInv'
<1> USE DEF searchVars
<1>1. SearchTypeOK' /\ Search!Shown' = Search!Shown /\ Search!Matched(query)' = Search!Matched(query)
  BY DEF SearchInv, SearchTypeOK, Search!Shown, Search!Matched
<1>2. SearchInv'
  BY <1>1 DEF SearchInv, ListSound, SearchSound, Missing, Ahead
<1> QED  BY <1>2

LEMMA PagesStep ==
  ASSUME PagesInv, [PagesNext]_pagesVars
  PROVE  PagesInv'
<1> USE DEF PagesInv
<1>1. CASE On("upload") /\ PageNext
  <2>1. page' = page /\ page = "upload" /\ UploadInv'
    BY <1>1, UploadInvStep DEF On
  <2> QED  BY <2>1
<1>2. CASE On("detail") /\ Detail!DetailNext /\ UNCHANGED pageVars
  <2>1. page' = page /\ page = "detail" /\ UploadInv' /\ DetailInv'
    BY <1>2, UploadRests, DetailStep DEF On
  <2> QED  BY <2>1
<1>3. CASE On("cases") /\ Search!SearchNext /\ UNCHANGED pageVars
  <2>1. page' = page /\ page = "cases" /\ UploadInv' /\ SearchInv'
    BY <1>3, UploadRests, SearchStep, PagesAssumption DEF On
  <2> QED  BY <2>1
<1>4. CASE On("shell") /\ Shell!ShellNext /\ UNCHANGED pageVars
  <2>1. page' = page /\ page = "shell" /\ UploadInv' /\ ShellInv'
    BY <1>4, UploadRests, ShellStep, PagesAssumption DEF On
  <2> QED  BY <2>1
<1>5. CASE On("operations") /\ UNCHANGED pageVars
  <2>1. page' = page /\ page = "operations" /\ UploadInv'
    BY <1>5, UploadRests DEF On
  <2> QED  BY <2>1
<1>6. CASE On("import") /\ Import!ImportNext /\ UNCHANGED pageVars
  <2>1. page' = page /\ page = "import" /\ UploadInv' /\ ImportInv'
    BY <1>6, UploadRests, ImportStep DEF On
  <2> QED  BY <2>1
<1>7. CASE On("symbols") /\ Queue!QueueNext /\ UNCHANGED pageVars
  <2>1. page' = page /\ page = "symbols" /\ UploadInv' /\ QueueInv'
    BY <1>7, UploadRests, QueueStep DEF On
  <2> QED  BY <2>1
<1>8. CASE UNCHANGED pagesVars
  <2>1. page' = page /\ UNCHANGED <<pageVars, detailVars, searchVars, shellVars, importVars, queueVars>>
    BY <1>8 DEF pagesVars, listVars, transferVars
  <2> QED  BY <2>1, UploadRests, ImportRests, DetailRests, QueueRests, ShellRests, SearchRests
<1>9. QED
  BY <1>1, <1>2, <1>3, <1>4, <1>5, <1>6, <1>7, <1>8 DEF PagesNext


\* The upload page and its server agree at every step, and whichever of the other
\* pages is open agrees with what it knows of the server's state: a poll, load,
\* search or request that is still listened to is of the import, route, query or
\* session the page shows.
THEOREM PagesInvariant == PagesSafety => []PagesInv
BY PagesStart, PagesStep, PTL DEF PagesSafety

\* For any routes, cases, sessions, symbols and imports, in any order of answers:
\* at rest a page shows its own route and query, no older than what it did itself;
\* a list that says it is complete, none of whose pages failed to load, misses no
\* case that was there when it was begun.  The token at rest is the one of the
\* browser's session, if that is alive, as long as no other tab signed in and no
\* sign-in's answer came while another session request was out.
THEOREM PagesAreCurrentAlways == PagesSafety => []PagesAreCurrent
<1>1. PagesInv => PagesAreCurrent
  BY ImportHolds, QueueHolds, ShellHolds, SearchHolds DEF PagesInv, PagesAreCurrent, DetailInv
<1> QED  BY <1>1, PagesInvariant, PTL

\* For any number of versions and any order of answers, the record on the screen
\* is never replaced by an older version of the same record.
THEOREM RecordNeverGoesBack == PagesSafety => NeverGoesBack
<1>1. ASSUME PagesInv, PagesNext, page = "detail"
      PROVE  Detail!KeepsUp
  <2>1. DetailInv /\ Detail!DetailNext
    BY <1>1 DEF PagesInv, PagesNext, On
  <2> QED  BY <2>1, DetailStep
<1>2. PagesInv /\ [PagesNext]_pagesVars => [page = "detail" => Detail!KeepsUp]_pagesVars
  BY <1>1
<1> QED  BY <1>2, PagesInvariant, PTL DEF PagesSafety, NeverGoesBack

\* The upload page keeps its promise when it is one of the pages.
THEOREM UploadsAreTrueTogether == PagesSafety => []UploadIsTrue
BY UploadHolds, PagesInvariant, PTL DEF PagesInv
=============================================================================
