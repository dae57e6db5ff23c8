-------------------------------- MODULE MCApi --------------------------------
(***************************************************************************)
(* The requests of the HTTP API for TLC: who is let through, what a        *)
(* mutation answers, what lists and views show, what a download sends and  *)
(* what the wire carries.  These models share no state, so a behaviour     *)
(* follows one of them, chosen at the start, and the others rest.          *)
(***************************************************************************)
EXTENDS ApiModels, TLC

VARIABLES
  topic,                                                     \* the model that moves
  coverageRows, store,                                       \* SymbolCoverage
  ledger, wireRows, imported, asked, refused, writes         \* WireContracts

\* One identity loaded twice, from a system path and from elsewhere, and
\* modules without a usable identity.
Mod(id, system) == [id |-> id, system |-> system]
MCFacts ==
  { <<>>, <<Mod(1, FALSE)>>, <<Mod(1, TRUE), Mod(2, FALSE)>>,
    <<Mod(2, FALSE), Mod(1, FALSE), Mod(2, FALSE)>>, <<Mod(0, FALSE), Mod(1, TRUE), Mod(1, FALSE)>> }

Coverage == INSTANCE SymbolCoverage WITH
  Dumps <- {1, 2, 3}, Identities <- {1, 2}, FactLists <- MCFacts, rows <- coverageRows

\* Each bound of a decoder or of the engine, and one more.
Wire == INSTANCE WireContracts WITH
  Lengths <- {0, 1, 64, 65, 128, 129, 200, 201, 255, 256, 300, 301, 500, 501, 1024, 1025, 2000, 2001},
  Counts <- {0, 20, 50, 64, 65, 100, 101, 200, 201, 4096, 4097}, MaxWrites <- 2, rows <- wireRows

ASSUME TopicsAssumption ==
  Coverage!CoverageBounds /\ Wire!WireBounds

\* Sessions, and the clients of the limiter, differ in nothing but their name.
TokenSymmetry == Permutations(Tokens) \cup Permutations(Addresses)

-----------------------------------------------------------------------------
(* One of them moves.                                                      *)

viewVars == <<coverageRows, store>>
wireVars == <<ledger, wireRows, imported, asked, refused, writes>>
guardVars == <<accessVars, limiterVars>>
readVars == <<listVars, viewVars, downloadVars>>
writeVars == <<mutationVars, wireVars>>
topicVars == <<topic, guardVars, readVars, writeVars>>

Topics == {"access", "limiter", "mutations", "catalog", "case list", "feed", "views", "downloads", "wire"}

TopicsInit ==
  /\ topic \in Topics
  /\ AccessInit
  /\ DownloadInit /\ (topic # "downloads" => phase = "available")
  /\ Catalog!ScanInit /\ (topic # "feed" => poll.allowed = {})
  /\ Api!ApiInit /\ Coverage!CoverageInit /\ LimiterInit /\ Wire!WireInit

On(t) == topic = t /\ UNCHANGED topic

TopicsNext ==
  \/ On("access") /\ AccessNext /\ UNCHANGED <<limiterVars, readVars, writeVars>>
  \/ On("limiter") /\ LimiterNext /\ UNCHANGED <<accessVars, readVars, writeVars>>
  \/ On("catalog") /\ Catalog!CatalogNext /\ UNCHANGED <<guardVars, viewVars, downloadVars, writeVars>>
  \/ On("case list") /\ Catalog!CaseListNext /\ UNCHANGED <<guardVars, viewVars, downloadVars, writeVars>>
  \/ On("feed") /\ Catalog!FeedNext /\ UNCHANGED <<guardVars, viewVars, downloadVars, writeVars>>
  \/ On("views") /\ Coverage!CoverageNext /\ UNCHANGED <<guardVars, listVars, downloadVars, writeVars>>
  \/ On("downloads") /\ DownloadNext /\ UNCHANGED <<guardVars, listVars, viewVars, writeVars>>
  \/ On("mutations") /\ Api!ApiNext /\ UNCHANGED <<guardVars, readVars, wireVars>>
  \/ On("wire") /\ Wire!WireNext /\ UNCHANGED <<guardVars, readVars, mutationVars>>

TopicsSpec == TopicsInit /\ [][TopicsNext]_topicVars

-----------------------------------------------------------------------------
(* The properties, by what they are about.                                 *)

\* Client, routes and engine agree: on every bound of the wire, on what may be
\* repeated, on the next step of a case and on the symbols a dump needs
\* (http-contracts, allowedActionsFor, missingSymbolsFor).
ContractsAgree ==
  /\ topic = "wire" => Wire!ContractsAgree
  /\ topic = "mutations" => Api!AdviceIsGood
  /\ topic = "views" => Coverage!ViewsAgree
=============================================================================
