--------------------------- MODULE SymbolCoverage ---------------------------
(***************************************************************************)
(* Which symbols a dump, a row of the catalog and a case are said to lack, *)
(* while dumps are inspected and purged and symbols come and go.           *)
(*                                                                         *)
(* The module facts of a dump stay in its row as they were written; the    *)
(* three views join them with the symbol store each time they are asked.   *)
(* A module has the identity of its PDB, or none that is usable, and a     *)
(* path that may be one of the operating system's.                         *)
(***************************************************************************)
EXTENDS Integers, Sequences, FiniteSetsExt, SequencesExt

CONSTANTS
  Dumps,       \* the dumps of one case
  Identities,  \* (debugFile, debugId) pairs, ordered numbers
  FactLists    \* the module lists an inspection may find

NoIdentity == 0

\* What the constants are taken to be.
CoverageBounds == Identities \subseteq Nat \ {NoIdentity} /\ Dumps \subseteq Nat

VARIABLES
  rows,    \* Dumps -> phase, inspection error, facts
  store    \* the identities of the PDBs in the store

coverageVars == <<rows, store>>

-----------------------------------------------------------------------------
\* symbolCoverageFor: the rows of the dump detail, one per module.
StatusOf(module) ==
  IF module.id = NoIdentity THEN "unidentified"
  ELSE IF module.id \in store THEN "present" ELSE "missing"

SymbolCoverageFor(facts) == [i \in DOMAIN facts |-> [id |-> facts[i].id, status |-> StatusOf(facts[i])]]

\* catalogEntryOf: the facts of a dump whose inspection succeeded.
CatalogFacts(d) == IF rows[d].error THEN <<>> ELSE rows[d].facts

CatalogSymbolCoverage(d) ==
  [s \in {"present", "missing", "unidentified"} |->
    Cardinality({i \in DOMAIN CatalogFacts(d) : StatusOf(CatalogFacts(d)[i]) = s})]

\* missingSymbolsFor: one module of one dump put into the groups.
Group(groups, d, module) ==
  [i \in DOMAIN groups \cup {module.id} |->
    (IF i \in DOMAIN groups THEN groups[i] ELSE {}) \cup (IF i = module.id THEN {d} ELSE {})]

Wanted(module) == module.id # NoIdentity /\ ~module.system /\ module.id \notin store

GroupDump(groups, d) ==
  IF rows[d].phase # "available" THEN groups
  ELSE FoldLeft(LAMBDA g, module : IF Wanted(module) THEN Group(g, d, module) ELSE g, groups, rows[d].facts)

\* The groups in the order of their identities, the dumps of each sorted.
MissingSymbolsFor ==
  LET groups == FoldLeft(GroupDump, [i \in {} |-> {}], SetToSortSeq(Dumps, <))
      order == SetToSortSeq(DOMAIN groups, <)
  IN  [n \in DOMAIN order |-> [id |-> order[n], dumps |-> SetToSortSeq(groups[order[n]], <)]]

-----------------------------------------------------------------------------
CoverageInit ==
  /\ rows = [d \in Dumps |-> [phase |-> "quarantined", error |-> FALSE, facts |-> <<>>]]
  /\ store = {}

AcceptDump(d) ==
  /\ rows[d].phase = "quarantined"
  /\ \E facts \in FactLists : rows' = [rows EXCEPT ![d] = [phase |-> "available", error |-> FALSE, facts |-> facts]]
  /\ UNCHANGED store

RejectDump(d) ==
  /\ rows[d].phase = "quarantined"
  /\ rows' = [rows EXCEPT ![d].phase = "rejected", ![d].error = TRUE]
  /\ UNCHANGED store

\* BeginPurge and FinishPurge leave the facts in the row.
Purge(d) ==
  /\ rows[d].phase \in {"available", "rejected"}
  /\ rows' = [rows EXCEPT ![d].phase = "deleted"]
  /\ UNCHANGED store

Ingest(i) == i \notin store /\ store' = store \cup {i} /\ UNCHANGED rows
PurgeSymbol(i) == i \in store /\ store' = store \ {i} /\ UNCHANGED rows

CoverageNext ==
  \/ \E d \in Dumps : AcceptDump(d) \/ RejectDump(d) \/ Purge(d)
  \/ \E i \in Identities : Ingest(i) \/ PurgeSymbol(i)

CoverageSpec == CoverageInit /\ [][CoverageNext]_coverageVars

-----------------------------------------------------------------------------
(* Properties.                                                             *)

\* The counts of the catalog are those of the rows the dump detail shows, for
\* purged and rejected dumps too, although the two read the facts under
\* different conditions (catalogEntryOf, dumpDetail).
CountsMatchDetail ==
  \A d \in Dumps, s \in {"present", "missing", "unidentified"} :
    CatalogSymbolCoverage(d)[s] =
      Cardinality({i \in DOMAIN rows[d].facts : SymbolCoverageFor(rows[d].facts)[i].status = s})

\* The case page names an identity exactly when some available dump shows it
\* missing in a module outside the system's directories, and then names all
\* such dumps once, in order (missingSymbolsFor).
MissingIsExact ==
  LET lacking(i) == {d \in Dumps : /\ rows[d].phase = "available"
                                   /\ \E n \in DOMAIN rows[d].facts :
                                        /\ ~rows[d].facts[n].system
                                        /\ SymbolCoverageFor(rows[d].facts)[n] = [id |-> i, status |-> "missing"]}
  IN  /\ {MissingSymbolsFor[n].id : n \in DOMAIN MissingSymbolsFor} = {i \in Identities : lacking(i) # {}}
      /\ \A n \in DOMAIN MissingSymbolsFor :
           LET entry == MissingSymbolsFor[n]
           IN  /\ ToSet(entry.dumps) = lacking(entry.id)
               /\ Len(entry.dumps) = Cardinality(lacking(entry.id))
               /\ n > 1 => MissingSymbolsFor[n - 1].id < entry.id

\* The three views of the symbols a dump needs agree.
ViewsAgree == CountsMatchDetail /\ MissingIsExact
=============================================================================
