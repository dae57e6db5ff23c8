------------------------- MODULE MinidumpInspector -------------------------
(***************************************************************************)
(* The verdict of the inspector on the bytes of a sealed dump.             *)
(*                                                                         *)
(* A dump is a header, a directory of streams, the streams, and what they  *)
(* point at: names, CodeView records and captured memory.  Offsets and     *)
(* sizes are scaled down (a header is two words, a directory entry or a    *)
(* descriptor one); sums are checked against UInt64Max.  The writer lays   *)
(* out a sound dump; then the file may be cut, or one field damaged.       *)
(* Every read may fail, and closing the reader may fail too.               *)
(***************************************************************************)
EXTENDS Integers, Sequences, FiniteSetsExt

CONSTANTS
  Shapes,       \* what the dumps hold, see Layout
  Sizes,        \* values a damaged 32- or 64-bit field may take
  UInt64Max,    \* UINT64_MAX
  MaxCount,     \* MAX_STREAMS, MAX_MEMORY_RANGES, MAX_MODULES and the 15 parameters
  MaxString,    \* MAX_STRING_BYTES
  MaxRecord,    \* MAX_MODULE_CV_RECORD_BYTES
  MaxMetadata,  \* the budget a MetadataBudget starts with
  MaxFaults     \* reads and closes that fail

HeaderSize == 2
ModuleCharge == 1     \* the fixed fields of one module
NameFactor == 3       \* output bytes per byte of UTF-16
RecordFactor == 6     \* output bytes per byte of a CodeView record
Critical == {"memoryInfo", "memoryList", "memory64", "systemInfo", "exception", "modules"}

VARIABLES
  file,      \* the dump
  damage,    \* what was done to it after it was written
  phase,     \* the next function to run
  at,        \* index of the next directory entry or module
  budget,    \* MetadataBudget.remaining
  captured,  \* byte total of the captured ranges
  modules,   \* the module facts so far
  outcome,   \* "none", "ok" or the code of the rejection
  faults     \* reads and closes that failed

inspectVars == <<file, damage, phase, at, budget, captured, modules, outcome, faults>>

-----------------------------------------------------------------------------
(* The dump as it is written.                                              *)

\* The sums of the first numbers of a list, from none on.
Sums(seq) == LET sum[n \in 0..Len(seq)] == IF n = 0 THEN 0 ELSE sum[n - 1] + seq[n] IN sum
Total(seq) == Sums(seq)[Len(seq)]
Before(seq, i) == Sums(seq)[i - 1]

\* A shape gives the sizes of the ranges of the two memory lists, the names
\* and the CodeView records of the modules; names may share one copy.
Layout(s) ==
  LET n == 6
      info == HeaderSize + n
      list == info + 2
      list64 == list + 1 + Len(s.ranges)
      sys == list64 + 1 + Len(s.ranges64)
      exc == sys + 1
      mods == exc + 1
      names == mods + 1 + Len(s.names)
      nameAt(i) == names + (IF s.alias THEN 0 ELSE Before(s.names, i) + i - 1)
      memory == names + Total(s.names) + Len(s.names)
      memory64 == memory + Total(s.ranges)
      records == memory64 + Total(s.ranges64)
      Entry(type, size, rva) == [type |-> type, size |-> size, rva |-> rva]
  IN [size |-> records + Total(s.records),
      signature |-> "MDMP", version |-> "supported", streams |-> n, directory |-> HeaderSize,
      entries |-> << Entry("memoryInfo", 2, info), Entry("memoryList", 1 + Len(s.ranges), list),
                     Entry("memory64", 1 + Len(s.ranges64), list64), Entry("systemInfo", 1, sys),
                     Entry("exception", 1, exc), Entry("modules", 1 + Len(s.names), mods) >>,
      info |-> [header |-> 1, entry |-> 1, count |-> 1],
      list |-> [count |-> Len(s.ranges),
                ranges |-> [i \in 1..Len(s.ranges) |->
                  [va |-> 0, size |-> s.ranges[i], rva |-> memory + Before(s.ranges, i)]]],
      list64 |-> [count |-> Len(s.ranges64), base |-> memory64,
                  ranges |-> [i \in 1..Len(s.ranges64) |-> [va |-> 0, size |-> s.ranges64[i]]]],
      parameters |-> 1,
      modules |-> [count |-> Len(s.names),
                   list |-> [i \in 1..Len(s.names) |->
                     [name |-> nameAt(i), length |-> IF s.alias THEN s.names[1] ELSE s.names[i],
                      odd |-> FALSE,
                      record |-> records + Before(s.records, i), bytes |-> s.records[i],
                      rsds |-> TRUE]]]]

\* What the constants are taken to be: a sound dump is within the limits.
InspectorBounds ==
  /\ {UInt64Max, MaxCount, MaxString, MaxRecord, MaxMetadata, MaxFaults} \subseteq Nat
  /\ Sizes \subseteq Nat
  /\ \A s \in Shapes :
       /\ {s.ranges, s.ranges64, s.names, s.records} \subseteq Seq(Nat)
       /\ Len(s.records) = Len(s.names)
       /\ {6, Len(s.ranges), Len(s.ranges64), Len(s.names)} \subseteq 0..MaxCount
       /\ Layout(s).size <= UInt64Max

Cut(f) == {[f EXCEPT !.size = n] : n \in 0..(f.size - 1)}

\* The length stands with the string: modules that share it all see it.
Renamed(f, i, n) ==
  [f EXCEPT !.modules.list = [j \in DOMAIN @ |->
     IF @[j].name = @[i].name THEN [@[j] EXCEPT !.length = n] ELSE @[j]]]

\* One field of the file holds another value than the writer put there.  An
\* offset is moved to where it means something to the walk: to zero, or so
\* that what it names leaves the file.
Outside(f, size) == {n \in Sizes : n + size > f.size}

DamagedHeader(f) ==
  {[f EXCEPT !.signature = "other"], [f EXCEPT !.version = "other"]}
  \cup {[f EXCEPT !.directory = n] : n \in {0} \cup Outside(f, f.streams)}

DamagedStreams(f) == {[f EXCEPT !.streams = n] : n \in {0, 5, MaxCount + 1}}

DamagedDirectory(f) ==
  {[f EXCEPT !.entries[i].type = t] :
     i \in DOMAIN f.entries, t \in {"memoryList", "modules", "ignored"}}
  \cup {[f EXCEPT !.entries[i].size = n] : i \in DOMAIN f.entries, n \in {0} \cup Sizes}
  \cup UNION {{[f EXCEPT !.entries[i].rva = n] : n \in Outside(f, f.entries[i].size)} : i \in DOMAIN f.entries}

DamagedStream(f) ==
  {[f EXCEPT !.info.header = 0], [f EXCEPT !.info.entry = 0], [f EXCEPT !.parameters = MaxCount + 1]}
  \cup {[f EXCEPT !.info.count = n] : n \in Sizes}
  \cup {[f EXCEPT !.list.count = n] : n \in Sizes}
  \cup {[f EXCEPT !.list64.count = n] : n \in Sizes}
  \cup {[f EXCEPT !.list64.base = n] : n \in Sizes}

DamagedRange(f) ==
  {[f EXCEPT !.list.ranges[i].va = n] : i \in DOMAIN f.list.ranges, n \in Sizes}
  \cup {[f EXCEPT !.list.ranges[i].size = n] : i \in DOMAIN f.list.ranges, n \in Sizes}
  \cup {[f EXCEPT !.list.ranges[i].rva = n] : i \in DOMAIN f.list.ranges, n \in Sizes}
  \cup {[f EXCEPT !.list64.ranges[i].va = n] : i \in DOMAIN f.list64.ranges, n \in Sizes}
  \cup {[f EXCEPT !.list64.ranges[i].size = n] : i \in DOMAIN f.list64.ranges, n \in Sizes}

DamagedName(f) ==
  (UNION {{[f EXCEPT !.modules.list[i].name = n] : n \in {0} \cup Outside(f, 1)} : i \in DOMAIN f.modules.list})
  \cup {Renamed(f, i, n) : i \in DOMAIN f.modules.list, n \in Sizes}
  \cup {[f EXCEPT !.modules.list[i].odd = TRUE] : i \in DOMAIN f.modules.list}

DamagedRecord(f) ==
  (UNION {{[f EXCEPT !.modules.list[i].record = n] : n \in {0} \cup Outside(f, 1)} : i \in DOMAIN f.modules.list})
  \cup {[f EXCEPT !.modules.list[i].bytes = n] : i \in DOMAIN f.modules.list, n \in {0} \cup Sizes}
  \cup {[f EXCEPT !.modules.list[i].rsds = FALSE] : i \in DOMAIN f.modules.list}

DamagedModules(f) ==
  {[f EXCEPT !.modules.count = n] : n \in Sizes} \cup DamagedName(f) \cup DamagedRecord(f)

Damaged(f) ==
  DamagedHeader(f) \cup DamagedStreams(f) \cup DamagedDirectory(f)
  \cup DamagedStream(f) \cup DamagedRange(f) \cup DamagedModules(f)

-----------------------------------------------------------------------------
(* The checks.  A check is "ok" or the code of the rejection; the first    *)
(* check that is not "ok" decides.                                         *)

Require(condition, code) == IF condition THEN "ok" ELSE code

First(codes) ==
  LET bad == {i \in DOMAIN codes : codes[i] # "ok"}
  IN  IF bad = {} THEN "ok" ELSE codes[Min(bad)]

CheckedAdd(left, right) == Require(left + right <= UInt64Max, "arithmetic-overflow")

EnsureRange(f, offset, size) ==
  First(<<CheckedAdd(offset, size), Require(offset + size <= f.size, "truncated")>>)

RequireStreamBytes(entry, required) == Require(required <= entry.size, "malformed-stream")

\* findEntry: the first entry of a type, among those the directory declares.
Entries(f) == SubSeq(f.entries, 1, f.streams)
Has(f, type) == \E i \in DOMAIN Entries(f) : Entries(f)[i].type = type
FindEntry(f, type) == Entries(f)[Min({i \in DOMAIN Entries(f) : Entries(f)[i].type = type})]

HeaderCheck(f) ==
  First(<< EnsureRange(f, 0, HeaderSize), Require(f.signature = "MDMP", "invalid-signature"),
           Require(f.version = "supported", "unsupported-version"),
           Require(f.streams <= MaxCount, "impossible-count"),
           Require(f.streams = 0 \/ f.directory >= HeaderSize, "malformed-stream"),
           EnsureRange(f, f.directory, f.streams) >>)

EntryCheck(f, i) ==
  LET e == f.entries[i]
  IN  First(<< IF e.size > 0 THEN EnsureRange(f, e.rva, e.size) ELSE "ok",
               Require(\/ e.type \notin Critical
                       \/ \A j \in 1..(i - 1) : f.entries[j].type # e.type, "duplicate-stream") >>)

MemoryInfoCheck(f) ==
  LET e == FindEntry(f, "memoryInfo")
  IN  First(<< RequireStreamBytes(e, 1), Require(f.info.header >= 1 /\ f.info.entry >= 1, "malformed-stream"),
               Require(f.info.count <= MaxCount, "impossible-count"),
               CheckedAdd(f.info.header, f.info.count * f.info.entry),
               RequireStreamBytes(e, f.info.header + f.info.count * f.info.entry) >>)

\* A count above the writer's is refused by ListCheck before any is read.
Descriptors(list) == Min({list.count, Len(list.ranges)})
Extent(list, n) == Sums([i \in DOMAIN list.ranges |-> list.ranges[i].size])[n]
Declared(list) == Extent(list, Descriptors(list))

ListCheck(e, count) ==
  First(<< RequireStreamBytes(e, 1), Require(count <= MaxCount, "impossible-count"),
           RequireStreamBytes(e, 1 + count) >>)

RangeCheck(f, i) ==
  LET r == f.list.ranges[i]
  IN  First(<< CheckedAdd(r.va, r.size), EnsureRange(f, r.rva, r.size),
               CheckedAdd(Extent(f.list, i - 1), r.size) >>)

MemoryListCheck(f) ==
  First(<< ListCheck(FindEntry(f, "memoryList"), f.list.count) >>
        \o [i \in 1..Descriptors(f.list) |-> RangeCheck(f, i)])

\* Seeded fault: the payload is checked for its longest range only.
Memory64LongestRange(f) ==
  First(<< ListCheck(FindEntry(f, "memory64"), f.list64.count) >>
        \o [i \in 1..Descriptors(f.list64) |-> EnsureRange(f, f.list64.base, f.list64.ranges[i].size)])

Range64Check(f, i) ==
  LET r == f.list64.ranges[i]
  IN  First(<< CheckedAdd(r.va, r.size), CheckedAdd(Extent(f.list64, i - 1), r.size) >>)

\* The ranges stand one after another from the base: one check of their sum.
Memory64Check(f) ==
  First(<< ListCheck(FindEntry(f, "memory64"), f.list64.count) >>
        \o [i \in 1..Descriptors(f.list64) |-> Range64Check(f, i)]
        \o << EnsureRange(f, f.list64.base, Declared(f.list64)) >>)

ArchitectureCheck(f) == RequireStreamBytes(FindEntry(f, "systemInfo"), 1)
ExceptionCheck(f) ==
  First(<< RequireStreamBytes(FindEntry(f, "exception"), 1),
           Require(f.parameters <= MaxCount, "impossible-count") >>)
ModuleListCheck(f) ==
  First(<< ListCheck(FindEntry(f, "modules"), f.modules.count),
           Require(f.modules.count * ModuleCharge <= MaxMetadata, "resource-limit") >>)

-----------------------------------------------------------------------------
(* One module: its name, then its CodeView identity.                       *)

NameCharge(m) == IF m.name = 0 THEN 0 ELSE NameFactor * m.length

\* readMinidumpString
NameCheck(m) ==
  IF m.name = 0 THEN "ok"
  ELSE First(<< EnsureRange(file, m.name, 1), Require(m.length <= MaxString, "resource-limit"),
                Require(~m.odd, "malformed-stream"),
                Require(NameCharge(m) <= budget, "resource-limit"),
                EnsureRange(file, m.name + 1, m.length) >>)

RecordBytes(m) == IF m.record = 0 \/ m.bytes = 0 THEN 0 ELSE Min({m.bytes, MaxRecord})
RecordCharge(m) == RecordFactor * RecordBytes(m)

RecordReadable(m) == RecordBytes(m) > 0 /\ EnsureRange(file, m.record, RecordBytes(m)) = "ok"

\* readCodeViewIdentity: only the charge can reject.
RecordCheck(m) == Require(RecordCharge(m) <= budget - NameCharge(m), "resource-limit")

Fact(m, identified) ==
  [at |-> m.name, name |-> IF m.name = 0 THEN 0 ELSE m.length,
   debugFile |-> IF identified THEN RecordBytes(m) ELSE 0]

-----------------------------------------------------------------------------
(* The steps.                                                              *)

\* Any read of the phase fails: an error of the reader, or a short read.
ReadPhases == {"header", "directory", "memoryInfo", "memoryList", "memory64", "systemInfo",
               "exception", "modules", "module"}

InspectInit ==
  /\ \E s \in Shapes :
       \/ damage = "none" /\ file = Layout(s)
       \/ damage = "cut" /\ file \in Cut(Layout(s))
       \/ damage = "changed" /\ file \in Damaged(Layout(s))
  /\ phase = "open" /\ at = 1 /\ budget = MaxMetadata /\ captured = 0
  /\ modules = <<>> /\ outcome = "none" /\ faults = 0

Open ==
  /\ phase = "open"
  /\ \/ phase' = "header" /\ UNCHANGED <<outcome, faults>>
     \/ faults < MaxFaults /\ faults' = faults + 1 /\ phase' = "done" /\ outcome' = "io-error"
  /\ UNCHANGED <<file, damage, at, budget, captured, modules>>

\* A check rejects, or the inspection goes on with the next function.
Decide(code, next) ==
  IF code = "ok" THEN phase' = next /\ UNCHANGED outcome
                 ELSE phase' = "close" /\ outcome' = code

ReadFails ==
  /\ phase \in ReadPhases /\ faults < MaxFaults
  /\ faults' = faults + 1 /\ phase' = "close" /\ outcome' \in {"io-error", "truncated"}
  /\ UNCHANGED <<file, damage, at, budget, captured, modules>>

Header ==
  /\ phase = "header" /\ Decide(HeaderCheck(file), "directory")
  /\ UNCHANGED <<file, damage, at, budget, captured, modules, faults>>

Directory ==
  /\ phase = "directory"
  /\ IF at > file.streams THEN Decide("ok", "memoryInfo") /\ at' = 1
                          ELSE Decide(EntryCheck(file, at), "directory") /\ at' = at + 1
  /\ UNCHANGED <<file, damage, budget, captured, modules, faults>>

\* A stream that is absent is passed over.
MemoryInfo ==
  /\ phase = "memoryInfo"
  /\ Decide(IF Has(file, "memoryInfo") THEN MemoryInfoCheck(file) ELSE "ok", "memoryList")
  /\ UNCHANGED <<file, damage, at, budget, captured, modules, faults>>

MemoryList ==
  /\ phase = "memoryList"
  /\ Decide(IF Has(file, "memoryList") THEN MemoryListCheck(file) ELSE "ok", "memory64")
  /\ captured' = IF Has(file, "memoryList") /\ MemoryListCheck(file) = "ok"
                 THEN Declared(file.list) ELSE 0
  /\ UNCHANGED <<file, damage, at, budget, modules, faults>>

Memory64List ==
  /\ phase = "memory64"
  /\ LET has == Has(file, "memory64")
         sum == IF has THEN Declared(file.list64) ELSE 0
     IN  /\ Decide(First(<< IF has THEN Memory64Check(file) ELSE "ok", CheckedAdd(captured, sum) >>),
                   "systemInfo")
         /\ captured' = captured + sum
  /\ UNCHANGED <<file, damage, at, budget, modules, faults>>

SystemInfo ==
  /\ phase = "systemInfo"
  /\ Decide(IF Has(file, "systemInfo") THEN ArchitectureCheck(file) ELSE "ok", "exception")
  /\ UNCHANGED <<file, damage, at, budget, captured, modules, faults>>

Exception ==
  /\ phase = "exception"
  /\ Decide(IF Has(file, "exception") THEN ExceptionCheck(file) ELSE "ok", "modules")
  /\ UNCHANGED <<file, damage, at, budget, captured, modules, faults>>

Modules ==
  /\ phase = "modules"
  /\ Decide(IF Has(file, "modules") THEN ModuleListCheck(file) ELSE "ok", "module")
  /\ budget' = IF Has(file, "modules") /\ ModuleListCheck(file) = "ok"
               THEN budget - file.modules.count * ModuleCharge ELSE budget
  /\ UNCHANGED <<file, damage, at, captured, modules, faults>>

\* The record is read, or its read fails and the identity is dropped.
Module ==
  /\ phase = "module" /\ Has(file, "modules") /\ at <= file.modules.count
  /\ LET m == file.modules.list[at]
         code == First(<<NameCheck(m), RecordCheck(m)>>)
     IN  /\ Decide(code, "module")
         /\ at' = at + 1
         /\ budget' = IF code = "ok" THEN budget - NameCharge(m) - RecordCharge(m) ELSE budget
         /\ \/ /\ modules' = IF code = "ok" THEN Append(modules, Fact(m, m.rsds /\ RecordReadable(m)))
                                            ELSE modules
               /\ UNCHANGED faults
            \/ /\ faults < MaxFaults /\ faults' = faults + 1 /\ code = "ok" /\ RecordReadable(m)
               /\ modules' = Append(modules, Fact(m, FALSE))
  /\ UNCHANGED <<file, damage, captured>>

Accept ==
  /\ phase = "module" /\ (Has(file, "modules") => at > file.modules.count)
  /\ phase' = "close" /\ outcome' = "ok"
  /\ UNCHANGED <<file, damage, at, budget, captured, modules, faults>>

Close ==
  /\ phase = "close" /\ phase' = "done"
  /\ \/ UNCHANGED <<outcome, faults>>
     \/ faults < MaxFaults /\ faults' = faults + 1 /\ outcome' = "io-error"
  /\ UNCHANGED <<file, damage, at, budget, captured, modules>>

Done == phase = "done" /\ UNCHANGED inspectVars

InspectNext ==
  \/ Open \/ ReadFails \/ Header \/ Directory \/ MemoryInfo \/ MemoryList \/ Memory64List
  \/ SystemInfo \/ Exception \/ Modules \/ Module \/ Accept \/ Close \/ Done

InspectSpec == InspectInit /\ [][InspectNext]_inspectVars

-----------------------------------------------------------------------------
(* Properties.                                                             *)

\* A dump that inspectMinidump accepts holds every range it declares: the
\* ranges of MemoryListStream one by one, and each range of
\* Memory64ListStream where the ranges before it end, although the code
\* checks those by their sum.
CapturedMemoryInFile ==
  outcome = "ok" =>
    /\ Has(file, "memoryList") =>
         \A i \in 1..file.list.count : file.list.ranges[i].rva + file.list.ranges[i].size <= file.size
    /\ Has(file, "memory64") =>
         \A i \in 1..file.list64.count :
           file.list64.base + Extent(file.list64, i) <= file.size

\* What inspectModules returns fits the space reserved for it, every
\* reference charged: modules that share one name cost as much as modules
\* with a copy each.
OutputWithinBudget ==
  Total([i \in DOMAIN modules |->
          ModuleCharge + NameFactor * modules[i].name + RecordFactor * modules[i].debugFile])
    <= MaxMetadata

\* A cut file is accepted only when all that is missing is the CodeView
\* records at its end, which are best effort; then no module whose record is
\* missing has an identity.
CutLosesIdentitiesOnly ==
  outcome = "ok" /\ damage = "cut" =>
    /\ \A i \in DOMAIN file.modules.list : file.size >= file.modules.list[i].name + 1 + file.modules.list[i].length
    /\ file.size >= file.list64.base + Declared(file.list64)
    /\ \A i \in DOMAIN modules :
         modules[i].debugFile > 0 => file.modules.list[i].record + modules[i].debugFile <= file.size

\* A sound dump is accepted or, whatever its modules cost, refused for want of
\* budget; a failed read or close can also reject it as unreadable or cut, or
\* drop an identity.  The totals of an accepted one are those it declares.
SoundDumpAccepted ==
  phase = "done" /\ damage = "none" =>
    /\ outcome \in {"ok", "resource-limit", "io-error", "truncated"}
    /\ faults = 0 => outcome \in {"ok", "resource-limit"}
    /\ outcome = "ok" => captured = Declared(file.list) + Declared(file.list64)

\* One stream of a type decides a fact: no accepted dump has two.
OneStreamPerFact ==
  outcome = "ok" =>
    \A i, j \in DOMAIN Entries(file) :
      Entries(file)[i].type = Entries(file)[j].type /\ Entries(file)[i].type \in Critical => i = j

\* Whatever cannot be read of one CodeView record costs that module its
\* identity and nothing else: a step that ends the walk at a module was not
\* caused by its record (inspectModules).
NotTheRecord ==
  phase = "module" /\ Has(file, "modules") /\ at <= file.modules.count
  /\ outcome' # outcome /\ faults' = faults
  => LET m == file.modules.list[at]
     IN  NameCheck(m) # "ok" \/ NameCharge(m) + RecordCharge(m) > budget

\* What a verdict on a minidump says is so, at bounded cost.
VerdictIsSound ==
  /\ CapturedMemoryInFile /\ OutputWithinBudget /\ CutLosesIdentitiesOnly
  /\ SoundDumpAccepted /\ OneStreamPerFact
=============================================================================
