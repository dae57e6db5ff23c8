---------------------------- MODULE AcceptedFiles ----------------------------
(***************************************************************************)
(* The files that clients bring and the service takes on their own word:   *)
(* symbol files, kept under the identity in their bytes (SymbolStore), and *)
(* minidumps, taken on the inspector's verdict (MinidumpInspector).  They  *)
(* share no state.                                                         *)
(***************************************************************************)
EXTENDS SymbolStore

CONSTANTS
  Shapes, Sizes, UInt64Max, MaxCount,     \* see MinidumpInspector
  MaxString, MaxRecord, MaxMetadata,
  MaxReadFaults

VARIABLES dump, dumpDamage, phase, at, budget, captured, modules, outcome, readFaults

Inspector == INSTANCE MinidumpInspector WITH
  MaxFaults <- MaxReadFaults, file <- dump, damage <- dumpDamage, faults <- readFaults

ASSUME InspectorAssumption == Inspector!InspectorBounds

dumpVars == <<dump, dumpDamage, phase, at, budget, captured, modules, outcome, readFaults>>

\* A minidump that is accepted holds what it declares, and one that is sound is
\* accepted unless a read failed (minidump-inspector.ts).
VerdictIsSound == Inspector!VerdictIsSound

\* What no step does: replace bytes that are served under an identity
\* (sealSymbolArtifact), or let a CodeView record that cannot be read cost more
\* than its module's identity (inspectModules).
StepsAreContained == [][ServedKept /\ Inspector!NotTheRecord]_<<symbolVars, dumpVars>>
=============================================================================
