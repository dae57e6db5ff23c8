---------------------------- MODULE RateLimiter ----------------------------
(***************************************************************************)
(* The fixed-window limiter in front of login and grant checks: one entry  *)
(* per client address in a table of bounded size.  When the table is full  *)
(* the entry seen longest ago makes room, and its client starts afresh.    *)
(*                                                                         *)
(* The code keeps a Map and, of several entries seen longest ago, gives up *)
(* the one inserted first; here it may be any of them.                     *)
(***************************************************************************)
EXTENDS Integers, FiniteSets, Sequences

CONSTANTS
  Addresses, \* request.ip
  Limit,     \* options.limit
  Window,    \* options.windowMs
  MaxKeys,   \* options.maxKeys
  MaxNow,    \* bound on the clock
  MaxTakes   \* bound on the calls

ASSUME LimiterAssumption ==
  Limit \in Nat \ {0} /\ Window \in Nat \ {0} /\ MaxKeys \in Nat \ {0} /\ MaxNow \in Nat /\ MaxTakes \in Nat

VARIABLES
  now,
  entries,  \* #entries: a function on the addresses that have one
  history   \* every call, with its answer

limiterVars == <<now, entries, history>>

WindowEntry == [startedAt : 0..MaxNow, attempts : Nat \ {0}, lastSeenAt : 0..MaxNow]

LimiterInit == now = 0 /\ entries = <<>> /\ history = <<>>

\* Seeded fault: an entry outlives its window by a tick.
PruneLate(table) ==
  [a \in {a \in DOMAIN table : now - table[a].startedAt <= Window} |-> table[a]]

\* #prune
Prune(table) ==
  [a \in {a \in DOMAIN table : now - table[a].startedAt < Window} |-> table[a]]

SeenLongestAgo(table) ==
  {a \in DOMAIN table : \A b \in DOMAIN table : table[a].lastSeenAt <= table[b].lastSeenAt}

\* #evictOldest, called when the table is full: the addresses that may be kept.
EvictOldest(table) ==
  IF Cardinality(DOMAIN table) < MaxKeys
  THEN {DOMAIN table}
  ELSE {DOMAIN table \ {a} : a \in SeenLongestAgo(table)}

Answered(a, granted) == history' = Append(history, [key |-> a, at |-> now, granted |-> granted])

Take(a) ==
  LET table == Prune(entries) IN
  /\ Len(history) < MaxTakes
  /\ \/ /\ a \in DOMAIN table
        /\ entries' = [table EXCEPT ![a] = [startedAt |-> @.startedAt, attempts |-> @.attempts + 1, lastSeenAt |-> now]]
        /\ Answered(a, table[a].attempts < Limit)
     \/ /\ a \notin DOMAIN table
        /\ \E kept \in EvictOldest(table) :
             entries' = [b \in kept \cup {a} |->
                           IF b = a THEN [startedAt |-> now, attempts |-> 1, lastSeenAt |-> now] ELSE table[b]]
        /\ Answered(a, TRUE)
  /\ UNCHANGED now

TimePasses ==
  /\ now < MaxNow
  /\ now' = now + 1
  /\ UNCHANGED <<entries, history>>

LimiterNext == TimePasses \/ \E a \in Addresses : Take(a)
LimiterSpec == LimiterInit /\ [][LimiterNext]_limiterVars

-----------------------------------------------------------------------------
(* Properties.                                                             *)

\* However many addresses call, the table keeps its bound (take, #evictOldest).
TableIsBounded ==
  /\ DOMAIN entries \subseteq Addresses /\ Cardinality(DOMAIN entries) <= MaxKeys
  /\ \A a \in DOMAIN entries : entries[a] \in WindowEntry

CallsIn(t) == {i \in 1..Len(history) : history[i].at >= t /\ history[i].at < t + Window}
GrantedTo(a, t) == {i \in CallsIn(t) : history[i].key = a /\ history[i].granted}
OthersIn(a, t) == {history[i].key : i \in CallsIn(t)} \ {a}

\* Whatever the interleaving of clients, one client gets at most twice the limit
\* in any span of a window's length, unless as many other clients as the table
\* has room for were seen in that span (take, #evictOldest).
BurstIsBounded ==
  \A a \in Addresses, t \in 0..now :
    Cardinality(OthersIn(a, t)) < MaxKeys => Cardinality(GrantedTo(a, t)) <= 2 * Limit

\* A refusal is earned: the client called at least Limit times before, within
\* the window that ends now.  Calling while refused does not prolong it.
RefusalIsEarned ==
  \A i \in 1..Len(history) :
    ~history[i].granted =>
      Cardinality({j \in 1..(i - 1) :
        history[j].key = history[i].key /\ history[j].at > history[i].at - Window}) >= Limit

\* The limiter refuses what it must and nothing else, in bounded space.
LimiterIsFair == TableIsBounded /\ BurstIsBounded /\ RefusalIsEarned
=============================================================================
