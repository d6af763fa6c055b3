--------------------------- MODULE TargetsProofs ---------------------------
(***************************************************************************)
(* Proofs about the scraping of targets.  The invariant is a conjunction   *)
(* of five parts, one for each thing the tasks share: the rate limiter,    *)
(* the circuits, the browser permits, the request budget, and the locals   *)
(* of a task.  The limiter's part needs nothing but the limiter: every     *)
(* step of the program is one of its operations or leaves it alone.        *)
(***************************************************************************)
EXTENDS Targets, FiniteSetTheorems, TLAPS

(* The limiter.                                                            *)

\* A queued or pacing caller uses the lock the table has for its host, and
\* nobody else has a lock.
LockIsEntry ==
    \A c \in Targets :
        IF at[c] \in {"queue", "queueC", "pace"}
        THEN entry[host[c]] # 0 /\ lockOf[c] = entry[host[c]]
        ELSE lockOf[c] = 0

\* No two hosts share a lock.
EntriesDiffer ==
    \A g, h \in Domains : entry[g] # 0 /\ entry[g] = entry[h] => g = h

\* Every caller that goes on to give up its use is counted, and only hosts
\* with an entry have a count.
UsersOf(h) == {c \in Targets : host[c] = h /\ at[c] \in {"queue", "queueC", "pace", "drop"}}
UsesAreCounted ==
    \A h \in Domains :
        Cardinality(UsersOf(h)) <= users[h] /\ (entry[h] = 0 => users[h] = 0)

\* The callers ahead of a caller are queued for the same lock, and whoever
\* is ahead of them is ahead of it.
QueueIsOrdered ==
    \A c \in Targets : \A x \in ahead[c] :
        /\ x # c
        /\ {c, x} \subseteq QueuedFor(lockOf[c])
        /\ ahead[x] \subseteq ahead[c]

LimiterInv ==
    /\ LimiterTypeOK
    /\ LockIsEntry
    /\ EntriesDiffer
    /\ UsesAreCounted
    /\ QueueIsOrdered
    /\ OnePacerPerDomain

(* The circuits.                                                           *)

\* A probe is held by a target that was admitted, and a half-open circuit
\* has a generation.
ProbeInv ==
    /\ circuits \in [Domains -> CircuitType]
    /\ probe \in [Targets -> Nat]
    /\ ProbeIsHeld
    /\ \A t \in Targets : probe[t] # 0 => pc[t] # "start"
    /\ \A d \in Domains : circuits[d].state = "half_open" => circuits[d].generation # 0

(* The permits.                                                            *)

\* A browser target past its permit holds one; a page is open during a
\* fetch or its cancellation; nothing of a run is left when it is over.
PermitInv ==
    /\ run \in [Runs -> {"over", "running", "cancelled", "exhausted"}]
    /\ pc \in [Targets -> Steps]
    /\ slots \subseteq Targets
    /\ Cardinality(slots) <= Slots
    /\ \A t \in Targets :
        /\ t \in Browsers /\ pc[t] \in {"attempt", "rate", "fetch", "closing"} => t \in slots
        /\ run[RunOf[t]] = "over" => pc[t] = "done"
    /\ \A t \in live : t \in Browsers /\ pc[t] \in {"fetch", "closing"}

(* The budget.                                                             *)
BudgetInv ==
    /\ requests \in [Runs -> Nat]
    /\ issued \in [Runs -> Nat]
    /\ phase \in [Chains -> Phases]
    /\ hops \in [Chains -> 0 .. MaxRedirects + 1]
    /\ BudgetCoversRequests

(* The rest of a task.                                                     *)
TaskInv ==
    /\ launches \in [Runs -> Nat] /\ \A r \in Runs : launches[r] <= MaxLaunches[r]
    /\ round \in [Targets -> 1 .. 2]
    /\ attempt \in [Targets -> Nat] /\ got \in [Targets -> Nat]
    /\ \A t \in Targets : attempt[t] \in 1 .. MaxAttempts[RunOf[t]] /\ got[t] < MaxPages[t]
    /\ observed \in [Targets -> BOOLEAN]

ScrapeInv == LimiterInv /\ ProbeInv /\ PermitInv /\ BudgetInv /\ TaskInv

-----------------------------------------------------------------------------
(* The limiter's operations, whoever calls them.                           *)
LimiterNext ==
    \/ \E c \in Targets, h \in Domains : Acquire(c, h)
    \/ \E c \in Targets : GetsCondition(c) \/ GetsLock(c) \/ Paced(c)
                          \/ Drops(c) \/ CancelAcquire(c)
    \/ \E h \in Domains : PruneStale(h)
    \/ UNCHANGED limiterVars

(* The counts of users are numbers.                                        *)
LEMMA UsersAreFinite ==
  ASSUME NEW h
  PROVE  IsFiniteSet(UsersOf(h)) /\ Cardinality(UsersOf(h)) \in Nat
<1>1. UsersOf(h) \subseteq Targets
  BY DEF UsersOf
<1> QED BY <1>1, FiniteAssumption, FS_Subset, FS_CardinalityType

LEMMA UsersAreFinite2 ==
  ASSUME NEW h
  PROVE  IsFiniteSet(UsersOf(h)') /\ Cardinality(UsersOf(h)') \in Nat
<1>1. UsersOf(h)' \subseteq Targets
  BY DEF UsersOf
<1> QED BY <1>1, FiniteAssumption, FS_Subset, FS_CardinalityType

(* A use nobody counts any more is given up without a trace.               *)
LEMMA FewerUsers ==
  ASSUME NEW h, UsersOf(h)' \subseteq UsersOf(h)
  PROVE  Cardinality(UsersOf(h)') <= Cardinality(UsersOf(h))
BY UsersAreFinite, FS_Subset

LEMMA OneUserMore ==
  ASSUME NEW h, NEW c, UsersOf(h)' \subseteq UsersOf(h) \cup {c}
  PROVE  Cardinality(UsersOf(h)') <= Cardinality(UsersOf(h)) + 1
<1>1. /\ IsFiniteSet(UsersOf(h) \cup {c})
      /\ Cardinality(UsersOf(h) \cup {c}) \in {Cardinality(UsersOf(h)), Cardinality(UsersOf(h)) + 1}
  BY UsersAreFinite, FS_AddElement
<1>2. Cardinality(UsersOf(h)') <= Cardinality(UsersOf(h) \cup {c})
  BY <1>1, FS_Subset
<1> QED BY <1>1, <1>2, UsersAreFinite, UsersAreFinite2

LEMMA OneUserLess ==
  ASSUME NEW h, NEW c \in UsersOf(h), UsersOf(h)' \subseteq UsersOf(h) \ {c}
  PROVE  Cardinality(UsersOf(h)') <= Cardinality(UsersOf(h)) - 1
<1>1. /\ IsFiniteSet(UsersOf(h) \ {c})
      /\ Cardinality(UsersOf(h) \ {c}) = Cardinality(UsersOf(h)) - 1
  BY UsersAreFinite, FS_RemoveElement
<1> QED BY <1>1, FS_Subset

(* A host nobody uses has no users.                                        *)
LEMMA UnusedHasNoUsers ==
  ASSUME LimiterInv, NEW h \in Domains, users[h] = 0
  PROVE  UsersOf(h) = {}
<1>1. Cardinality(UsersOf(h)) = 0
  BY UsersAreFinite DEF LimiterInv, UsesAreCounted
<1> QED BY <1>1, UsersAreFinite, FS_EmptySet

(* There is a lock that no host and no caller has: the pigeonhole          *)
(* principle, for a host that has none.                                    *)
LEMMA UnusedLockExists ==
  ASSUME LimiterInv, NEW h \in Domains, entry[h] = 0
  PROVE  /\ UnusedLock \in Locks
         /\ \A g \in Domains : entry[g] # UnusedLock
         /\ \A c \in Targets : lockOf[c] # UnusedLock
<1> DEFINE Entries == {entry[g] : g \in Domains}
           Known == {lockOf[c] : c \in Targets}
           n == Cardinality(Targets) + Cardinality(Domains)
<1>1. Cardinality(Targets) \in Nat /\ Cardinality(Domains) \in Nat
  BY FiniteAssumption, FS_CardinalityType
<1>2. IsFiniteSet(Entries) /\ Cardinality(Entries) <= Cardinality(Domains)
  <2>1. [g \in Domains |-> entry[g]] \in Surjection(Domains, Entries)
    BY DEF Surjection
  <2> QED BY <2>1, FiniteAssumption, FS_Surjection
<1>3. IsFiniteSet(Known) /\ Cardinality(Known) <= Cardinality(Targets)
  <2>1. [c \in Targets |-> lockOf[c]] \in Surjection(Targets, Known)
    BY DEF Surjection
  <2> QED BY <2>1, FiniteAssumption, FS_Surjection
<1>4. IsFiniteSet(Entries \cup Known) /\ Cardinality(Entries \cup Known) <= n
  <2>1. Cardinality(Entries \cap Known) \in Nat /\ Cardinality(Entries) \in Nat /\ Cardinality(Known) \in Nat
    BY <1>2, <1>3, FS_Intersection, FS_CardinalityType
  <2>2. /\ IsFiniteSet(Entries \cup Known)
        /\ Cardinality(Entries \cup Known) =
             Cardinality(Entries) + Cardinality(Known) - Cardinality(Entries \cap Known)
    BY <1>2, <1>3, FS_Union
  <2> HIDE DEF Entries, Known
  <2> QED BY <1>1, <1>2, <1>3, <2>1, <2>2
<1>5. IsFiniteSet(0 .. n) /\ Cardinality(0 .. n) = n + 1
  <2>1. n \in Int /\ ~ (0 > n) /\ n - 0 + 1 = n + 1
    BY <1>1
  <2> HIDE DEF n
  <2> QED BY <2>1, FS_Interval
<1>6. PICK l \in 0 .. n : l \notin Entries \cup Known
  <2>1. ASSUME 0 .. n \subseteq Entries \cup Known PROVE FALSE
    <3>1. Cardinality(0 .. n) <= Cardinality(Entries \cup Known)
      BY <1>4, <2>1, FS_Subset
    <3>2. Cardinality(Entries \cup Known) \in Nat
      BY <1>4, FS_CardinalityType
    <3> HIDE DEF Entries, Known
    <3> QED BY <1>1, <1>4, <1>5, <3>1, <3>2
  <2> QED BY <2>1
<1>7. l # 0
  BY <1>6
<1>8. l \in Locks /\ (\A g \in Domains : entry[g] # l) /\ (\A c \in Targets : lockOf[c] # l)
  BY <1>1, <1>6, <1>7 DEF Locks
<1> QED BY <1>8 DEF UnusedLock

(* A caller joins the users of the lock its host has.                      *)
LEMMA JoinKeepsLimiter ==
  ASSUME LimiterInv, NEW c \in Targets, at[c] \in {"out", "cond"},
         NEW h \in Domains, host' = [host EXCEPT ![c] = h], Join(c, h)
  PROVE  LimiterInv'
<1> USE DEF LimiterInv, Join
<1>1. LimiterTypeOK'
  <2>1. QueuedFor(entry[h]) \in SUBSET Targets /\ h \in Domains
    BY DomainAssumption DEF QueuedFor
  <2>2. ahead' \in [Targets -> SUBSET Targets]
    BY <2>1 DEF LimiterTypeOK
  <2>3. at' \in [Targets -> Waits]
    BY DEF LimiterTypeOK, Waits
  <2>4. users' \in [Domains -> Nat] /\ lockOf' \in [Targets -> Locks \cup {0}]
    BY <2>1 DEF LimiterTypeOK
  <2> QED BY <2>2, <2>3, <2>4 DEF LimiterTypeOK
<1>2. LockIsEntry'
  BY DomainAssumption DEF LockIsEntry, LimiterTypeOK, Locked
<1>3. EntriesDiffer'
  BY DEF EntriesDiffer, LimiterTypeOK
<1>4. UsesAreCounted'
  <2>1. ASSUME NEW g \in Domains, g # h PROVE UsersOf(g)' \subseteq UsersOf(g)
    BY <2>1 DEF UsersOf, LimiterTypeOK
  <2>2. UsersOf(h)' \subseteq UsersOf(h) \cup {c}
    BY DEF UsersOf, LimiterTypeOK
  <2>3. ASSUME NEW g \in Domains PROVE Cardinality(UsersOf(g)') <= users'[g]
    <3>1. CASE g = h
      <4>1. Cardinality(UsersOf(g)') <= Cardinality(UsersOf(g)) + 1
        BY <2>2, <3>1, OneUserMore
      <4> QED BY <3>1, <4>1, UsersAreFinite, UsersAreFinite2 DEF UsesAreCounted, LimiterTypeOK
    <3>2. CASE g # h
      <4>1. Cardinality(UsersOf(g)') <= Cardinality(UsersOf(g))
        BY <2>1, <3>2, FewerUsers
      <4> QED BY <3>2, <4>1, UsersAreFinite, UsersAreFinite2 DEF UsesAreCounted, LimiterTypeOK
    <3> QED BY <3>1, <3>2
  <2>4. \A g \in Domains : entry'[g] = 0 => users'[g] = 0
    BY DEF UsesAreCounted, LimiterTypeOK
  <2> QED BY <2>3, <2>4 DEF UsesAreCounted
<1>5. QueueIsOrdered'
  BY DEF QueueIsOrdered, QueuedFor, LimiterTypeOK, LockIsEntry
<1>6. OnePacerPerDomain'
  <2>1. ASSUME NEW u \in Targets, at[u] = "pace", host[u] = h PROVE Locked(entry[h])
    BY <2>1 DEF Locked, LockIsEntry
  <2> QED BY <2>1 DEF OnePacerPerDomain, LimiterTypeOK
<1> QED BY <1>1, <1>2, <1>3, <1>4, <1>5, <1>6

(* The table is full: the caller waits for a notification.                 *)
LEMMA SaturatedKeepsLimiter ==
  ASSUME LimiterInv, NEW c \in Targets, at[c] \in {"out", "cond"},
         NEW h \in Domains, host' = [host EXCEPT ![c] = h], Saturated(c, h)
  PROVE  LimiterInv'
<1> USE DEF LimiterInv, Saturated
<1>1. LimiterTypeOK'
  BY DomainAssumption DEF LimiterTypeOK, Waits
<1>2. LockIsEntry'
  BY DomainAssumption DEF LockIsEntry, LimiterTypeOK, Locked
<1>3. EntriesDiffer'
  BY DEF EntriesDiffer, LimiterTypeOK
<1>4. UsesAreCounted'
  <2>1. ASSUME NEW g \in Domains PROVE UsersOf(g)' \subseteq UsersOf(g)
    BY DEF UsersOf, LimiterTypeOK
  <2>2. users' = users
    OBVIOUS
  <2>3. \A g \in Domains : Cardinality(UsersOf(g)') <= Cardinality(UsersOf(g))
    BY <2>1, FewerUsers
  <2> QED BY <2>2, <2>3, UsersAreFinite, UsersAreFinite2 DEF UsesAreCounted, LimiterTypeOK
<1>5. QueueIsOrdered'
  BY DEF QueueIsOrdered, QueuedFor, LimiterTypeOK
<1>6. OnePacerPerDomain'
  BY DomainAssumption DEF OnePacerPerDomain, LimiterTypeOK
<1> QED BY <1>1, <1>2, <1>3, <1>4, <1>5, <1>6

(* The condition is taken: the caller waits for it.                        *)
LEMMA ConditionKeepsLimiter ==
  ASSUME LimiterInv, NEW c \in Targets, at[c] = "out",
         NEW h \in Domains, host' = [host EXCEPT ![c] = h],
         at' = [at EXCEPT ![c] = "cond"], UNCHANGED <<entry, users, lockOf, ahead>>
  PROVE  LimiterInv'
<1> USE DEF LimiterInv
<1>1. LimiterTypeOK'
  BY DomainAssumption DEF LimiterTypeOK, Waits
<1>2. LockIsEntry'
  BY DomainAssumption DEF LockIsEntry, LimiterTypeOK, Locked
<1>3. EntriesDiffer'
  BY DEF EntriesDiffer, LimiterTypeOK
<1>4. UsesAreCounted'
  <2>1. ASSUME NEW g \in Domains PROVE UsersOf(g)' \subseteq UsersOf(g)
    BY DEF UsersOf, LimiterTypeOK
  <2>2. users' = users
    OBVIOUS
  <2>3. \A g \in Domains : Cardinality(UsersOf(g)') <= Cardinality(UsersOf(g))
    BY <2>1, FewerUsers
  <2> QED BY <2>2, <2>3, UsersAreFinite, UsersAreFinite2 DEF UsesAreCounted, LimiterTypeOK
<1>5. QueueIsOrdered'
  BY DEF QueueIsOrdered, QueuedFor, LimiterTypeOK
<1>6. OnePacerPerDomain'
  BY DomainAssumption DEF OnePacerPerDomain, LimiterTypeOK
<1> QED BY <1>1, <1>2, <1>3, <1>4, <1>5, <1>6

(* A host gets a lock, in the place of one nobody uses.                    *)
LEMMA CreateKeepsLimiter ==
  ASSUME LimiterInv, NEW c \in Targets, at[c] \in {"out", "cond"},
         NEW h \in Domains, host' = [host EXCEPT ![c] = h], Create(c, h)
  PROVE  LimiterInv'
<1> USE DEF LimiterInv, Create
<1>a. h \in Domains /\ entry[h] = 0
  OBVIOUS
<1>b. /\ UnusedLock \in Locks /\ \A g \in Domains : entry[g] # UnusedLock
      /\ \A x \in Targets : lockOf[x] # UnusedLock
  BY <1>a, UnusedLockExists
<1>c. UnusedLock # 0
  BY <1>b, FiniteAssumption, FS_CardinalityType DEF Locks
<1>d. PICK gone \in IF Full THEN {{x} : x \in {y \in Domains : Idle(y)}} ELSE {{}} :
        /\ entry' = [x \in Domains |-> CASE x = h -> UnusedLock
                                       [] x \in gone -> 0
                                       [] OTHER -> entry[x]]
        /\ users' = [x \in Domains |-> CASE x = h -> 1
                                       [] x \in gone -> 0
                                       [] OTHER -> users[x]]
  OBVIOUS
<1>e. gone \subseteq {y \in Domains : Idle(y)}
  BY <1>d
<1>f. /\ lockOf' = [lockOf EXCEPT ![c] = UnusedLock] /\ at' = [at EXCEPT ![c] = "pace"]
      /\ ahead' = ahead /\ host'[c] = h /\ \A x \in Targets : x # c => host'[x] = host[x]
      /\ host' \in [Targets -> Domains]
  BY DEF LimiterTypeOK
<1>g. ASSUME NEW g \in gone PROVE users[g] = 0 /\ UsersOf(g) = {} /\ g # h
  BY <1>a, <1>e, UnusedHasNoUsers DEF Idle
<1>h. users[h] = 0 /\ UsersOf(h) = {}
  BY <1>a, UnusedHasNoUsers DEF UsesAreCounted
<1>i. /\ entry'[h] = UnusedLock /\ users'[h] = 1
      /\ \A g \in Domains : g # h =>
            /\ entry'[g] = IF g \in gone THEN 0 ELSE entry[g]
            /\ users'[g] = users[g]
  BY <1>a, <1>d, <1>g
<1> HIDE DEF Create
<1>1. LimiterTypeOK'
  <2>1. entry' \in [Domains -> Locks \cup {0}] /\ users' \in [Domains -> Nat]
    BY <1>b, <1>d DEF LimiterTypeOK
  <2> QED BY <1>b, <1>f, <2>1 DEF LimiterTypeOK, Waits
<1>2. LockIsEntry'
  <2>1. ASSUME NEW x \in Targets, x # c, at[x] \in {"queue", "queueC", "pace"}
        PROVE  entry'[host[x]] = entry[host[x]]
    <3>1. x \in UsersOf(host[x]) /\ host[x] \in Domains
      BY <2>1 DEF UsersOf, LimiterTypeOK
    <3> QED BY <1>g, <1>h, <1>i, <3>1
  <2>2. ASSUME NEW x \in Targets, x # c
        PROVE  at'[x] = at[x] /\ lockOf'[x] = lockOf[x]
    BY <1>f, <2>2 DEF LimiterTypeOK
  <2>3. at'[c] = "pace" /\ lockOf'[c] = UnusedLock /\ host'[c] = h
    BY <1>f DEF LimiterTypeOK
  <2>4. ASSUME NEW x \in Targets, x # c PROVE host'[x] = host[x]
    BY <1>f, <2>4
  <2> QED BY <1>c, <1>i, <2>1, <2>2, <2>3, <2>4 DEF LockIsEntry
<1>3. EntriesDiffer'
  BY <1>b, <1>i DEF EntriesDiffer
<1>4. UsesAreCounted'
  <2>1. UsersOf(h)' \subseteq UsersOf(h) \cup {c}
    BY <1>f DEF UsersOf, LimiterTypeOK
  <2>2. ASSUME NEW g \in Domains, g # h PROVE UsersOf(g)' \subseteq UsersOf(g)
    BY <1>f, <2>2 DEF UsersOf, LimiterTypeOK
  <2>3. Cardinality(UsersOf(h)') <= users'[h]
    BY <1>h, <1>i, <2>1, OneUserMore, UsersAreFinite, UsersAreFinite2, FS_EmptySet
  <2>4. ASSUME NEW g \in Domains, g # h PROVE Cardinality(UsersOf(g)') <= users'[g]
    BY <1>i, <2>2, <2>4, FewerUsers, UsersAreFinite, UsersAreFinite2 DEF UsesAreCounted, LimiterTypeOK
  <2>5. \A g \in Domains : entry'[g] = 0 => users'[g] = 0
    BY <1>c, <1>g, <1>i DEF UsesAreCounted
  <2> QED BY <2>3, <2>4, <2>5 DEF UsesAreCounted
<1>5. QueueIsOrdered'
  BY <1>f DEF QueueIsOrdered, QueuedFor, LimiterTypeOK, LockIsEntry
<1>6. OnePacerPerDomain'
  <2>1. ASSUME NEW u \in Targets, at[u] = "pace", host[u] = h PROVE FALSE
    BY <1>a, <2>1 DEF LockIsEntry
  <2> QED BY <1>f, <2>1 DEF OnePacerPerDomain, LimiterTypeOK
<1> QED BY <1>1, <1>2, <1>3, <1>4, <1>5, <1>6

(* The next caller of a free lock takes it.                                *)
LEMMA GetsLockKeepsLimiter ==
  ASSUME LimiterInv, NEW c \in Targets, GetsLock(c)
  PROVE  LimiterInv'
<1> USE DEF LimiterInv, GetsLock
<1>1. LimiterTypeOK'
  BY DEF LimiterTypeOK, Waits, Without
<1>2. LockIsEntry'
  BY DomainAssumption DEF LockIsEntry, LimiterTypeOK, Locked
<1>3. EntriesDiffer'
  BY DEF EntriesDiffer, LimiterTypeOK
<1>4. UsesAreCounted'
  <2>1. ASSUME NEW g \in Domains PROVE UsersOf(g)' \subseteq UsersOf(g)
    BY DEF UsersOf, LimiterTypeOK
  <2>2. users' = users
    OBVIOUS
  <2>3. \A g \in Domains : Cardinality(UsersOf(g)') <= Cardinality(UsersOf(g))
    BY <2>1, FewerUsers
  <2> QED BY <2>2, <2>3, UsersAreFinite, UsersAreFinite2 DEF UsesAreCounted, LimiterTypeOK
<1>5. QueueIsOrdered'
  BY DEF QueueIsOrdered, QueuedFor, LimiterTypeOK, Without, FirstFor
<1>6. OnePacerPerDomain'
  <2>1. ASSUME NEW u \in Targets, at[u] = "pace", host[u] = host[c] PROVE Locked(lockOf[c])
    BY <2>1 DEF Locked, LockIsEntry
  <2> QED BY <2>1 DEF OnePacerPerDomain, LimiterTypeOK
<1> QED BY <1>1, <1>2, <1>3, <1>4, <1>5, <1>6

(* A use count is given up.                                                *)
LEMMA GiveUpUseKeepsLimiter ==
  ASSUME LimiterInv, NEW c \in Targets, at[c] \in {"queue", "pace", "drop"}, GiveUpUse(c)
  PROVE  LimiterInv'
<1> USE DEF LimiterInv, GiveUpUse
<1>a. PICK h \in Domains : h = host[c]
  BY DEF LimiterTypeOK
<1>b. c \in UsersOf(h) /\ users[h] # 0
  <2>1. c \in UsersOf(h)
    BY <1>a DEF UsersOf
  <2> QED BY <1>a, <2>1, UnusedHasNoUsers
<1>c. /\ users' = [users EXCEPT ![h] = @ - 1] /\ at'[c] = "out"
      /\ \A x \in Targets : x # c => host'[x] = host[x]
      /\ host' \in [Targets -> Domains]
  BY <1>a, DomainAssumption DEF LimiterTypeOK
<1>1. LimiterTypeOK'
  <2>1. users' \in [Domains -> Nat]
    BY <1>b, <1>c DEF LimiterTypeOK
  <2> QED BY <1>c, <2>1 DEF LimiterTypeOK, Waits, Without
<1>2. LockIsEntry'
  BY <1>c DEF LockIsEntry, LimiterTypeOK, Locked
<1>3. EntriesDiffer'
  BY DEF EntriesDiffer, LimiterTypeOK
<1>4. UsesAreCounted'
  <2>1. ASSUME NEW g \in Domains, g # h PROVE UsersOf(g)' \subseteq UsersOf(g)
    BY <1>c, <2>1 DEF UsersOf
  <2>2. UsersOf(h)' \subseteq UsersOf(h) \ {c}
    BY <1>c DEF UsersOf
  <2>3. Cardinality(UsersOf(h)') <= Cardinality(UsersOf(h)) - 1
    BY <1>b, <2>2, OneUserLess
  <2>4. ASSUME NEW g \in Domains PROVE Cardinality(UsersOf(g)') <= users'[g]
    <3>1. CASE g = h
      BY <1>c, <2>3, <3>1, UsersAreFinite, UsersAreFinite2 DEF UsesAreCounted, LimiterTypeOK
    <3>2. CASE g # h
      <4>1. Cardinality(UsersOf(g)') <= Cardinality(UsersOf(g))
        BY <2>1, <3>2, FewerUsers
      <4> QED BY <1>c, <3>2, <4>1, UsersAreFinite, UsersAreFinite2 DEF UsesAreCounted, LimiterTypeOK
    <3> QED BY <3>1, <3>2
  <2>5. entry[h] # 0
    BY <1>b DEF UsesAreCounted
  <2>6. \A g \in Domains : entry'[g] = 0 => users'[g] = 0
    BY <1>c, <2>5 DEF UsesAreCounted, LimiterTypeOK
  <2> QED BY <2>4, <2>6 DEF UsesAreCounted
<1>5. QueueIsOrdered'
  BY DEF QueueIsOrdered, QueuedFor, LimiterTypeOK, Without
<1>6. OnePacerPerDomain'
  BY DomainAssumption DEF OnePacerPerDomain, LimiterTypeOK
<1> QED BY <1>1, <1>2, <1>3, <1>4, <1>5, <1>6

(* A lock is let go of before the use count.                               *)
LEMMA DropKeepsLimiter ==
  ASSUME LimiterInv, NEW c \in Targets, at[c] \in {"queue", "pace"},
         at' = [at EXCEPT ![c] = "drop"], lockOf' = [lockOf EXCEPT ![c] = 0],
         ahead' = Without(c), UNCHANGED <<entry, users, host>>
  PROVE  LimiterInv'
<1> USE DEF LimiterInv, Without
<1>1. LimiterTypeOK'
  BY DomainAssumption DEF LimiterTypeOK, Waits
<1>2. LockIsEntry'
  BY DomainAssumption DEF LockIsEntry, LimiterTypeOK, Locked
<1>3. EntriesDiffer'
  BY DEF EntriesDiffer, LimiterTypeOK
<1>4. UsesAreCounted'
  <2>1. ASSUME NEW g \in Domains PROVE UsersOf(g)' \subseteq UsersOf(g)
    BY DEF UsersOf, LimiterTypeOK
  <2>2. users' = users
    OBVIOUS
  <2>3. \A g \in Domains : Cardinality(UsersOf(g)') <= Cardinality(UsersOf(g))
    BY <2>1, FewerUsers
  <2> QED BY <2>2, <2>3, UsersAreFinite, UsersAreFinite2 DEF UsesAreCounted, LimiterTypeOK
<1>5. QueueIsOrdered'
  BY DEF QueueIsOrdered, QueuedFor, LimiterTypeOK
<1>6. OnePacerPerDomain'
  BY DomainAssumption DEF OnePacerPerDomain, LimiterTypeOK
<1> QED BY <1>1, <1>2, <1>3, <1>4, <1>5, <1>6

(* A cancelled caller leaves its use count behind.                         *)
LEMMA LeavesKeepsLimiter ==
  ASSUME LimiterInv, NEW c \in Targets, Leaves(c)
  PROVE  LimiterInv'
<1> USE DEF LimiterInv, Leaves, Without
<1>1. LimiterTypeOK'
  BY DomainAssumption DEF LimiterTypeOK, Waits
<1>2. LockIsEntry'
  BY DomainAssumption DEF LockIsEntry, LimiterTypeOK, Locked
<1>3. EntriesDiffer'
  BY DEF EntriesDiffer, LimiterTypeOK
<1>4. UsesAreCounted'
  <2>1. ASSUME NEW g \in Domains PROVE UsersOf(g)' \subseteq UsersOf(g)
    BY DEF UsersOf, LimiterTypeOK
  <2>2. users' = users
    OBVIOUS
  <2>3. \A g \in Domains : Cardinality(UsersOf(g)') <= Cardinality(UsersOf(g))
    BY <2>1, FewerUsers
  <2> QED BY <2>2, <2>3, UsersAreFinite, UsersAreFinite2 DEF UsesAreCounted, LimiterTypeOK
<1>5. QueueIsOrdered'
  BY DEF QueueIsOrdered, QueuedFor, LimiterTypeOK
<1>6. OnePacerPerDomain'
  BY DomainAssumption DEF OnePacerPerDomain, LimiterTypeOK
<1> QED BY <1>1, <1>2, <1>3, <1>4, <1>5, <1>6

(* An unused entry expires.                                                *)
LEMMA PruneStaleKeepsLimiter ==
  ASSUME LimiterInv, NEW h \in Domains, PruneStale(h)
  PROVE  LimiterInv'
<1> USE DEF LimiterInv, PruneStale
<1>1. LimiterTypeOK'
  BY DEF LimiterTypeOK
<1>2. LockIsEntry'
  <2>1. UsersOf(h) = {}
    BY UnusedHasNoUsers DEF Idle
  <2>2. ASSUME NEW x \in Targets, at[x] \in {"queue", "queueC", "pace"} PROVE host[x] # h
    BY <2>1, <2>2 DEF UsersOf
  <2> QED BY <2>2, DomainAssumption DEF LockIsEntry, LimiterTypeOK
<1>3. EntriesDiffer'
  BY DEF EntriesDiffer, LimiterTypeOK
<1>4. UsesAreCounted'
  <2>1. \A g \in Domains : UsersOf(g)' = UsersOf(g)
    BY DEF UsersOf
  <2> QED BY <2>1 DEF UsesAreCounted, LimiterTypeOK, Idle
<1>5. QueueIsOrdered'
  BY DEF QueueIsOrdered, QueuedFor
<1>6. OnePacerPerDomain'
  BY DEF OnePacerPerDomain
<1> QED BY <1>1, <1>2, <1>3, <1>4, <1>5, <1>6

(* Every operation of the limiter keeps its invariant.                     *)
LEMMA LimiterKeepsInv ==
  ASSUME LimiterInv, LimiterNext
  PROVE  LimiterInv'
<1>1. ASSUME NEW c \in Targets, at[c] \in {"out", "cond"}, NEW h \in Domains, Enter(c, h),
             host' = [host EXCEPT ![c] = h]
      PROVE  LimiterInv'
  <2>1. Join(c, h) \/ Saturated(c, h) \/ Create(c, h)
    BY <1>1 DEF Enter
  <2>2. CASE Join(c, h)
    BY <1>1, <2>2, JoinKeepsLimiter
  <2>3. CASE Saturated(c, h)
    BY <1>1, <2>3, SaturatedKeepsLimiter
  <2>4. CASE Create(c, h)
    BY <1>1, <2>4, CreateKeepsLimiter
  <2> QED BY <2>1, <2>2, <2>3, <2>4
<1>2. ASSUME NEW c \in Targets, at[c] \in {"queue", "pace"}, LetGo(c) PROVE LimiterInv'
  BY <1>2, GiveUpUseKeepsLimiter, DropKeepsLimiter DEF LetGo
<1>3. ASSUME NEW c \in Targets, NEW h \in Domains, Acquire(c, h) PROVE LimiterInv'
  BY <1>1, <1>3, ConditionKeepsLimiter DEF Acquire
<1>4. ASSUME NEW c \in Targets, GetsCondition(c) PROVE LimiterInv'
  <2>1. host' = [host EXCEPT ![c] = host[c]] /\ host[c] \in Domains
    BY <1>4 DEF GetsCondition, LimiterInv, LimiterTypeOK
  <2> QED BY <1>1, <1>4, <2>1 DEF GetsCondition
<1>5. ASSUME NEW c \in Targets, Paced(c) \/ Drops(c) PROVE LimiterInv'
  BY <1>2, <1>5, GiveUpUseKeepsLimiter DEF Paced, Drops
<1>6. ASSUME NEW c \in Targets, CancelAcquire(c) PROVE LimiterInv'
  BY <1>2, <1>6, LeavesKeepsLimiter DEF CancelAcquire
<1>7. CASE UNCHANGED limiterVars
  BY <1>7 DEF limiterVars, LimiterInv, LimiterTypeOK, LockIsEntry, EntriesDiffer, UsesAreCounted,
      UsersOf, QueueIsOrdered, QueuedFor, OnePacerPerDomain
<1> QED BY <1>3, <1>4, <1>5, <1>6, <1>7, GetsLockKeepsLimiter, PruneStaleKeepsLimiter DEF LimiterNext

(* Of the callers queued for a lock, one has nobody ahead of it.           *)
LEMMA SomebodyIsFirst ==
  ASSUME LimiterInv, NEW l, QueuedFor(l) # {}
  PROVE  \E c \in QueuedFor(l) : FirstFor(c)
<1> DEFINE S == {ahead[c] : c \in QueuedFor(l)}
<1>1. S \subseteq SUBSET Targets /\ S # {}
  BY DEF LimiterInv, LimiterTypeOK, QueuedFor
<1>2. IsWellFoundedOn(StrictSubsetOrdering(Targets), SUBSET Targets)
  BY FiniteAssumption, FS_StrictSubsetOrderingWellFounded, FS_FiniteSubsetsOfFinite
<1>3. PICK A \in S : \A B \in S : ~ (<<B, A>> \in StrictSubsetOrdering(Targets))
  <2> HIDE DEF S
  <2> QED BY <1>1, <1>2, WFMin
<1>4. PICK c \in QueuedFor(l) : A = ahead[c]
  BY <1>3
<1>5. ASSUME NEW x \in ahead[c] PROVE FALSE
  <2>1. /\ x \in QueuedFor(l) /\ x \in Targets /\ c \in Targets
        /\ ahead[x] \subseteq ahead[c] /\ x \notin ahead[x]
    BY DEF LimiterInv, QueueIsOrdered, QueuedFor, LimiterTypeOK
  <2>2. ahead[x] \in S /\ ahead[x] \subseteq Targets /\ ahead[c] \subseteq Targets
    BY <1>1, <2>1 DEF LimiterInv, LimiterTypeOK
  <2>3. <<ahead[x], ahead[c]>> \in StrictSubsetOrdering(Targets)
    BY <2>1, <2>2 DEF StrictSubsetOrdering
  <2> QED BY <1>3, <1>4, <2>2, <2>3
<1> QED BY <1>5 DEF FirstFor

(* A caller in a queue is moved on by somebody.                            *)
LEMMA QueueMoves ==
  ASSUME LimiterInv, NEW c \in Targets, at[c] \in {"queue", "queueC"}
  PROVE  \E x \in Targets : Moves(x)
<1>1. lockOf[c] # 0 /\ c \in QueuedFor(lockOf[c])
  BY DEF LimiterInv, LockIsEntry, QueuedFor
<1>2. CASE Locked(lockOf[c])
  <2>1. PICK x \in Targets : at[x] \in {"pace", "drop"} /\ lockOf[x] = lockOf[c]
    BY <1>2 DEF Locked
  <2>2. at[x] = "pace"
    BY <1>1, <2>1 DEF LimiterInv, LockIsEntry
  <2> QED BY <2>1, <2>2 DEF Moves
<1>3. CASE ~ Locked(lockOf[c])
  <2>1. PICK x \in QueuedFor(lockOf[c]) : FirstFor(x)
    BY <1>1, SomebodyIsFirst
  <2> QED BY <1>3, <2>1 DEF Moves, QueuedFor
<1> QED BY <1>2, <1>3

LEMMA LimiterMovesOn ==
  ASSUME LimiterInv
  PROVE  LimiterNeverDeadlocks
<1>1. ASSUME NEW c \in Targets, at[c] \in {"cond", "drop"} PROVE \E x \in Targets : Moves(x)
  <2>1. CASE ConditionFree
    BY <1>1, <2>1 DEF Moves
  <2>2. CASE ~ ConditionFree
    BY <2>2, QueueMoves DEF ConditionFree
  <2> QED BY <2>1, <2>2
<1> QED BY <1>1, QueueMoves DEF LimiterNeverDeadlocks

(* Every step of the program is an operation of the limiter or leaves it   *)
(* alone.                                                                  *)
LEMMA EngineCallsLimiter ==
  ASSUME [Next]_vars
  PROVE  LimiterNext
<1> USE DEF LimiterNext
<1>1. CASE UNCHANGED vars
  BY <1>1 DEF vars, limiterVars
<1>2. ASSUME NEW r \in Runs, Launch(r) \/ RunEnds(r) \/ Cancel(r) \/ Deadline(r) \/ Ceiling(r)
      PROVE  LimiterNext
  BY <1>2 DEF Launch, RunEnds, Cancel, Deadline, Ceiling, Exhausts
<1>3. ASSUME NEW t \in Targets, TaskStep(t) PROVE LimiterNext
  <2>1. CASE Begin(t) \/ TakeSlot(t) \/ FetchEnds(t) \/ BrowserStops(t)
    BY <2>1 DEF Begin, TakeSlot, FetchEnds, BrowserStops
  <2>2. CASE Attempt(t) \/ BasicHop(t)
    BY <2>2, DomainAssumption DEF Attempt, BasicHop
  <2> QED BY <1>3, <2>1, <2>2 DEF TaskStep
<1>4. ASSUME NEW c \in Chains, ChainStep(c) PROVE LimiterNext
  BY <1>4 DEF ChainStep, Route, RouteRefused, Reserve, Redirected, ChainSettles, ChainEnds, OnlyChains
<1>5. ASSUME NEW t \in Targets, LimiterStep(t) PROVE LimiterNext
  BY <1>5 DEF LimiterStep, LimiterMoves, LimiterReturns
<1>6. ASSUME NEW t \in Targets, Unwind(t) PROVE LimiterNext
  BY <1>6 DEF Unwind
<1>7. ASSUME NEW d \in Domains, Time(d) PROVE LimiterNext
  BY <1>7 DEF Time, CircuitTime, LimiterTime
<1> QED BY <1>1, <1>2, <1>3, <1>4, <1>5, <1>6, <1>7 DEF Next

-----------------------------------------------------------------------------
(* What a verdict does to the table of circuits: the circuit whose probe   *)
(* it brings is half open no more, and every other half-open circuit stays *)
(* as it is.                                                               *)
Decides(table, d, p) ==
    /\ table \in [Domains -> CircuitType]
    /\ \A e \in Domains :
        IF e = d /\ ProbeMatches(circuits[d], p)
        THEN table[e].state # "half_open"
        ELSE "half_open" \in {table[e].state, circuits[e].state} => table[e] = circuits[e]

LEMMA RecordSuccessDecides ==
  ASSUME circuits \in [Domains -> CircuitType], NEW d \in Domains, NEW p \in Nat
  PROVE  Decides(RecordSuccess(circuits, d, p), d, p)
<1>1. NoCircuit \in CircuitType /\ NoCircuit.state = "none"
  BY FailuresAssumption DEF NoCircuit, CircuitType
<1> QED BY <1>1 DEF RecordSuccess, Decides, ProbeMatches

LEMMA AbortProbeDecides ==
  ASSUME circuits \in [Domains -> CircuitType], NEW d \in Domains, NEW p \in Nat
  PROVE  Decides(AbortProbe(circuits, d, p), d, p)
<1>1. CASE ProbeMatches(circuits[d], p)
  BY <1>1 DEF AbortProbe, Decides, ProbeMatches, CircuitType
<1>2. CASE ~ ProbeMatches(circuits[d], p)
  BY <1>2 DEF AbortProbe, Decides
<1> QED BY <1>1, <1>2

(* A counted circuit is closed or open.                                    *)
LEMMA CountedType ==
  ASSUME NEW c \in CircuitType
  PROVE  /\ Reopened(c) \in CircuitType /\ Reopened(c).state = "open"
         /\ c.state = "closed" => Counted(c) \in CircuitType /\ Counted(c).state # "half_open"
<1>1. Reopened(c) \in CircuitType /\ Reopened(c).state = "open"
  <2>1. MaxFailures \in 0 .. MaxFailures
    BY FailuresAssumption
  <2> QED BY <2>1, Zenon DEF Reopened, CircuitType
<1>2. ASSUME c.failures + 1 < MaxFailures
      PROVE  [c EXCEPT !.failures = @ + 1] \in CircuitType
  BY <1>2, FailuresAssumption DEF CircuitType
<1>3. c.failures + 1 >= MaxFailures \/ c.failures + 1 < MaxFailures
  BY FailuresAssumption DEF CircuitType
<1>4. c.state = "closed" => [c EXCEPT !.failures = @ + 1].state = "closed"
  BY DEF CircuitType
<1> QED BY <1>1, <1>2, <1>3, <1>4 DEF Counted

LEMMA RecordFailureDecides ==
  ASSUME circuits \in [Domains -> CircuitType], NEW d \in Domains, NEW p \in Nat,
         NEW table \in RecordFailure(circuits, d, p)
  PROVE  Decides(table, d, p)
<1> USE DEF ProbeMatches
<1>1. circuits[d] \in CircuitType
  OBVIOUS
<1>2. CASE circuits[d].state = "none"
  <2>1. /\ NewCircuit \in CircuitType /\ NewCircuit.state = "closed"
        /\ NoCircuit \in CircuitType /\ NoCircuit.state = "none"
    <3>1. 0 \in 0 .. MaxFailures /\ 0 \in Nat
      BY FailuresAssumption
    <3>2. NoCircuit \in CircuitType /\ NoCircuit.state = "none"
      BY <3>1 DEF NoCircuit, CircuitType
    <3> QED BY <3>2, Zenon DEF NewCircuit, CircuitType
  <2>2. PICK roomy \in MakeRoom(circuits) :
          table = IF Cardinality(Remembered(roomy)) < MaxCircuits
                  THEN [roomy EXCEPT ![d] = Counted(NewCircuit)] ELSE roomy
    BY <1>2 DEF RecordFailure
  <2>3. Decides(roomy, d, p)
    <3>1. CASE roomy = circuits
      BY <1>2, <3>1 DEF Decides
    <3>2. CASE \E e \in Domains : circuits[e].state = "closed" /\ roomy = [circuits EXCEPT ![e] = NoCircuit]
      BY <1>2, <2>1, <3>2 DEF Decides
    <3> QED BY <2>2, <3>1, <3>2 DEF MakeRoom
  <2>4. Counted(NewCircuit) \in CircuitType /\ Counted(NewCircuit).state # "half_open"
    BY <2>1, CountedType
  <2> QED BY <1>2, <2>2, <2>3, <2>4 DEF Decides
<1>3. CASE circuits[d].state = "half_open"
  <2>1. table = IF ProbeMatches(circuits[d], p) THEN [circuits EXCEPT ![d] = Reopened(@)] ELSE circuits
    BY <1>3 DEF RecordFailure
  <2> QED BY <1>1, <1>3, <2>1, CountedType DEF Decides
<1>4. CASE circuits[d].state = "open"
  <2>1. table = circuits
    BY <1>4 DEF RecordFailure
  <2> QED BY <1>4, <2>1 DEF Decides
<1>5. CASE circuits[d].state = "closed"
  <2>1. table = [circuits EXCEPT ![d] = Counted(@)]
    BY <1>5 DEF RecordFailure
  <2> QED BY <1>1, <1>5, <2>1, CountedType DEF Decides
<1> QED BY <1>1, <1>2, <1>3, <1>4, <1>5 DEF CircuitType

(* Every verdict, and every way to unwind, decides for the probe.          *)
LEMMA VerdictDecides ==
  ASSUME ProbeInv, NEW t \in Targets, NEW o \in {"ok", "stopped", "transient", "failed"},
         NEW table \in Verdicts(t, o)
  PROVE  Decides(table, DomainOf[t], probe[t])
<1>1. /\ circuits \in [Domains -> CircuitType] /\ DomainOf[t] \in Domains /\ probe[t] \in Nat
  BY DomainAssumption DEF ProbeInv
<1>2. Decides(circuits, DomainOf[t], 0)
  BY <1>1 DEF Decides, ProbeMatches
<1>3. CASE o = "ok"
  BY <1>1, <1>3, RecordSuccessDecides DEF Verdicts
<1>4. CASE o = "stopped"
  BY <1>1, <1>4, AbortProbeDecides DEF Verdicts
<1>5. CASE o = "transient"
  BY <1>1, <1>5, RecordFailureDecides DEF Verdicts
<1>6. CASE o = "failed"
  BY <1>1, <1>2, <1>6, RecordSuccessDecides DEF Verdicts
<1> QED BY <1>3, <1>4, <1>5, <1>6

LEMMA UnwoundDecides ==
  ASSUME ProbeInv, NEW t \in Targets, NEW table \in Unwound(t)
  PROVE  Decides(table, DomainOf[t], probe[t])
<1>1. /\ circuits \in [Domains -> CircuitType] /\ DomainOf[t] \in Domains /\ probe[t] \in Nat
  BY DomainAssumption DEF ProbeInv
<1>2. table \in {AbortProbe(circuits, DomainOf[t], probe[t]), RecordSuccess(circuits, DomainOf[t], probe[t])}
  BY DEF Unwound
<1> QED BY <1>1, <1>2, RecordSuccessDecides, AbortProbeDecides

(* A target that brings its verdict gives its probe away.                  *)
LEMMA DecidedKeepsProbes ==
  ASSUME ProbeInv, PermitInv, NEW t \in Targets, Decides(circuits', DomainOf[t], probe[t]),
         probe' = [probe EXCEPT ![t] = 0], NEW step, pc' = [pc EXCEPT ![t] = step]
  PROVE  ProbeInv'
<1> DEFINE d == DomainOf[t]
<1>0. d \in Domains /\ probe'[t] = 0 /\ probe' \in [Targets -> Nat]
  BY DomainAssumption DEF ProbeInv
<1>1. ASSUME NEW u \in Targets, u # t PROVE probe'[u] = probe[u] /\ pc'[u] = pc[u]
  BY <1>1 DEF ProbeInv, PermitInv
<1>2. ASSUME NEW u \in Targets, u # t, probe[u] # 0
      PROVE  ~ (DomainOf[u] = d /\ ProbeMatches(circuits[d], probe[t]))
  BY <1>2 DEF ProbeInv, ProbeIsHeld, ProbeMatches
<1>3. ASSUME NEW e \in Domains, circuits'[e].state = "half_open"
      PROVE  /\ circuits'[e] = circuits[e] /\ circuits[e].generation # 0
             /\ \E u \in Targets : DomainOf[u] = e /\ probe'[u] = circuits'[e].generation
  <2>1. circuits'[e] = circuits[e] /\ ~ (e = d /\ ProbeMatches(circuits[d], probe[t]))
    BY <1>3 DEF Decides
  <2>2. PICK u \in Targets : DomainOf[u] = e /\ probe[u] = circuits[e].generation
    BY <1>3, <2>1 DEF ProbeInv, ProbeIsHeld
  <2>3. circuits[e].generation # 0
    BY <1>3, <2>1 DEF ProbeInv
  <2>4. u # t
    BY <1>3, <2>1, <2>2, <2>3 DEF ProbeMatches
  <2> QED BY <1>1, <2>1, <2>2, <2>3, <2>4
<1>4. ASSUME NEW u \in Targets, probe'[u] # 0
      PROVE  /\ ProbeMatches(circuits[DomainOf[u]], probe[u])' /\ pc'[u] \notin {"start", "done"}
             /\ \A w \in Targets : probe'[w] # 0 /\ DomainOf[w] = DomainOf[u] => w = u
  <2>1. u # t /\ probe[u] # 0
    BY <1>0, <1>1, <1>4
  <2>2. ProbeMatches(circuits[DomainOf[u]], probe[u]) /\ pc[u] \notin {"start", "done"}
    BY <2>1 DEF ProbeInv, ProbeIsHeld
  <2>3. circuits'[DomainOf[u]] = circuits[DomainOf[u]]
    BY <1>2, <2>1, <2>2, DomainAssumption DEF Decides, ProbeMatches
  <2>4. ASSUME NEW w \in Targets, probe'[w] # 0, DomainOf[w] = DomainOf[u] PROVE w = u
    BY <1>0, <1>1, <2>1, <2>4 DEF ProbeInv, ProbeIsHeld
  <2> QED BY <1>1, <2>1, <2>2, <2>3, <2>4 DEF ProbeMatches
<1>5. circuits' \in [Domains -> CircuitType]
  BY DEF Decides
<1> QED BY <1>0, <1>3, <1>4, <1>5 DEF ProbeInv, ProbeIsHeld

(* A target that moves on keeps its probe.                                 *)
LEMMA MovingKeepsProbes ==
  ASSUME ProbeInv, PermitInv, NEW t \in Targets, UNCHANGED <<circuits, probe>>, NEW step,
         pc' = [pc EXCEPT ![t] = step], step \notin {"start", "done"} \/ probe[t] = 0
  PROVE  ProbeInv'
BY DEF ProbeInv, ProbeIsHeld, ProbeMatches, PermitInv

-----------------------------------------------------------------------------
(* How one attempt of a page ends, whatever it was.                        *)
PageEnds(t) ==
    \/ \E o \in {"ok", "stopped", "transient", "failed"} : Result(t, o)
    \/ \E answered \in {TRUE, observed[t]} : Retries(t, "transient", answered)
    \/ NextPage(t)

(* The page ends, or its next request waits for the limiter.               *)
AwaitsLimiter(t) ==
    /\ pc' = [pc EXCEPT ![t] = "rate"]
    /\ UNCHANGED <<circuits, slots, round, attempt, got, probe>>
    /\ observed' \in {observed, [observed EXCEPT ![t] = TRUE]}

LEMMA AttemptEnds ==
  ASSUME NEW t \in Targets, Attempt(t) \/ BasicHop(t)
  PROVE  /\ PageEnds(t) \/ AwaitsLimiter(t)
         /\ pc[t] \in {"attempt", "fetch"} /\ Active(t) /\ (pc[t] = "fetch" => t \notin Browsers)
         /\ UNCHANGED <<runVars, live, phase, hops>>
<1>1. ASSUME NEW o \in {"transient", "failed"}, NEW answered \in {TRUE, observed[t]}, Fails(t, o, answered)
      PROVE  PageEnds(t)
  BY <1>1 DEF Fails, PageEnds, Retries
<1>2. CASE Attempt(t)
  <2>1. NotAdmitted(t) => PageEnds(t)
    BY DEF NotAdmitted, Stops, PageEnds
  <2>2. UrlRefused(t) => PageEnds(t)
    BY <1>1 DEF UrlRefused
  <2>3. Goto(t, "rate") /\ UNCHANGED <<circuits, slots>> => AwaitsLimiter(t)
    BY DEF Goto, AwaitsLimiter
  <2> QED BY <1>2, <2>1, <2>2, <2>3 DEF Attempt
<1>3. CASE BasicHop(t)
  BY <1>1, <1>3 DEF BasicHop, AwaitsLimiter
<1> QED BY <1>2, <1>3

LEMMA FetchReturnsEnds ==
  ASSUME NEW t \in Targets, FetchReturns(t) \/ FetchFails(t)
  PROVE  PageEnds(t)
BY DEF FetchReturns, FetchFails, PageDone, Fails, PageEnds, Retries

(* A request of a page touches no task but for what it observed, and no    *)
(* run but to exhaust it.                                                  *)
LEMMA ChainStepIsQuiet ==
  ASSUME NEW c \in Chains, ChainStep(c)
  PROVE  /\ UNCHANGED <<circuits, pc, round, attempt, got, probe, slots, live, launches>>
         /\ \/ run' = run
            \/ run[RunOf[c[1]]] = "running" /\ run' = [run EXCEPT ![RunOf[c[1]]] = "exhausted"]
         /\ \/ observed' = observed
            \/ \E b \in BOOLEAN : observed' = [observed EXCEPT ![c[1]] = @ \/ b]
<1>1. CASE Route(c) \/ RouteRefused(c) \/ Reserve(c) \/ Redirected(c) \/ ChainSettles(c)
  BY <1>1 DEF Route, RouteRefused, Reserve, Redirected, ChainSettles, OnlyChains, taskVars
<1>2. ASSUME NEW answered \in BOOLEAN, ChainEnds(c, answered)
      PROVE  /\ UNCHANGED <<circuits, pc, round, attempt, got, probe, slots, live, launches, run>>
             /\ \E b \in BOOLEAN : observed' = [observed EXCEPT ![c[1]] = @ \/ b]
  <2>1. (answered /\ pc[c[1]] = "fetch") \in BOOLEAN
    OBVIOUS
  <2> QED BY <1>2, <2>1, Zenon DEF ChainEnds, runVars
<1> QED BY <1>1, <1>2 DEF ChainStep

(* The circuits and the probes, step by step.                              *)
LEMMA PageEndsKeepsProbes ==
  ASSUME ProbeInv, PermitInv, NEW t \in Targets, PageEnds(t)
  PROVE  ProbeInv'
<1>1. ASSUME NEW o \in {"ok", "stopped", "transient", "failed"}, Result(t, o) PROVE ProbeInv'
  <2>1. Decides(circuits', DomainOf[t], probe[t])
    BY <1>1, VerdictDecides DEF Result
  <2>2. CASE Closes(t)
    BY <2>1, <2>2, DecidedKeepsProbes DEF Closes, Over
  <2>3. CASE ScrapedAgain(t)
    BY <2>1, <2>3, DecidedKeepsProbes DEF ScrapedAgain
  <2> QED BY <1>1, <2>2, <2>3 DEF Result, Validated
<1>2. ASSUME NEW answered, Retries(t, "transient", answered) PROVE ProbeInv'
  BY <1>2, MovingKeepsProbes DEF Retries
<1>3. CASE NextPage(t)
  BY <1>3, MovingKeepsProbes DEF NextPage
<1> QED BY <1>1, <1>2, <1>3 DEF PageEnds

LEMMA LeaveKeepsProbes ==
  ASSUME ProbeInv, PermitInv, NEW t \in Targets, Leave(t)
  PROVE  ProbeInv'
<1>1. probe' = [probe EXCEPT ![t] = 0] /\ pc' = [pc EXCEPT ![t] = "done"]
  BY DEF Leave, Over
<1>2. CASE pc[t] = "start"
  <2>1. probe[t] = 0 /\ probe' = probe /\ circuits' = circuits
    BY <1>1, <1>2 DEF ProbeInv, Leave
  <2> QED BY <1>1, <2>1, MovingKeepsProbes
<1>3. CASE pc[t] # "start"
  BY <1>1, <1>3, UnwoundDecides, DecidedKeepsProbes DEF Leave
<1> QED BY <1>2, <1>3

LEMMA BeginKeepsProbes ==
  ASSUME ProbeInv, PermitInv, NEW t \in Targets, Begin(t)
  PROVE  ProbeInv'
<1> DEFINE d == DomainOf[t]
<1>0. d \in Domains /\ probe[t] = 0 /\ circuits[d] \in CircuitType /\ circuits[d].generation \in Nat
  BY DomainAssumption DEF Begin, ProbeInv, CircuitType
<1>1. CASE Over(t) /\ UNCHANGED circuits
  <2>1. probe' = probe
    BY <1>0, <1>1 DEF Over, ProbeInv
  <2> QED BY <1>0, <1>1, <2>1, MovingKeepsProbes DEF Over
<1>2. ASSUME NEW step \in {"slot", "attempt"}, pc' = [pc EXCEPT ![t] = step],
             ~ Refused(d), circuits' = Check(d), probe' = [probe EXCEPT ![t] = Granted(d)]
      PROVE  ProbeInv'
  <2>1. CASE ~ MayProbe(d)
    <3>1. circuits' = circuits /\ probe' = probe
      BY <1>0, <1>2, <2>1 DEF Check, Granted, ProbeInv
    <3> QED BY <1>2, <3>1, MovingKeepsProbes
  <2>2. CASE MayProbe(d)
    <3>1. /\ circuits[d].state = "open"
          /\ circuits' = [circuits EXCEPT ![d].state = "half_open", ![d].generation = @ + 1]
          /\ probe' = [probe EXCEPT ![t] = circuits[d].generation + 1]
      BY <1>2, <2>2 DEF Check, Granted, MayProbe
    <3>2. /\ circuits'[d] \in CircuitType /\ circuits'[d].state = "half_open"
          /\ circuits'[d].generation = circuits[d].generation + 1
          /\ \A e \in Domains : e # d => circuits'[e] = circuits[e]
      BY <1>0, <3>1 DEF ProbeInv, CircuitType
    <3>3. circuits' \in [Domains -> CircuitType]
      BY <1>0, <3>1, <3>2 DEF ProbeInv
    <3>4. /\ probe' \in [Targets -> Nat] /\ probe'[t] = circuits[d].generation + 1
          /\ \A u \in Targets : u # t => probe'[u] = probe[u]
      BY <1>0, <3>1 DEF ProbeInv
    <3>5. ASSUME NEW u \in Targets, probe[u] # 0 PROVE u # t /\ DomainOf[u] # d
      BY <1>0, <3>1, <3>5 DEF ProbeInv, ProbeIsHeld, ProbeMatches
    <3>6. pc'[t] = step /\ \A u \in Targets : u # t => pc'[u] = pc[u]
      BY <1>2 DEF PermitInv
    <3>7. ASSUME NEW e \in Domains, circuits'[e].state = "half_open"
          PROVE  /\ circuits'[e].generation # 0
                 /\ \E u \in Targets : DomainOf[u] = e /\ probe'[u] = circuits'[e].generation
      <4>1. CASE e = d
        BY <1>0, <3>2, <3>4, <4>1
      <4>2. CASE e # d
        <5>1. circuits'[e] = circuits[e] /\ circuits[e].generation # 0
          BY <3>2, <3>7, <4>2 DEF ProbeInv
        <5>2. PICK u \in Targets : DomainOf[u] = e /\ probe[u] = circuits[e].generation
          BY <3>7, <5>1 DEF ProbeInv, ProbeIsHeld
        <5> QED BY <3>4, <4>2, <5>1, <5>2
      <4> QED BY <4>1, <4>2
    <3>8. ASSUME NEW u \in Targets, probe'[u] # 0
          PROVE  /\ ProbeMatches(circuits[DomainOf[u]], probe[u])' /\ pc'[u] \notin {"start", "done"}
                 /\ \A w \in Targets : probe'[w] # 0 /\ DomainOf[w] = DomainOf[u] => w = u
      <4>1. CASE u = t
        BY <1>0, <1>2, <3>2, <3>4, <3>5, <3>6, <4>1 DEF ProbeMatches
      <4>2. CASE u # t
        <5>1. probe[u] # 0 /\ DomainOf[u] # d /\ probe'[u] = probe[u] /\ pc'[u] = pc[u]
          BY <3>4, <3>5, <3>6, <3>8, <4>2
        <5>2. circuits'[DomainOf[u]] = circuits[DomainOf[u]]
          BY <3>2, <5>1, DomainAssumption
        <5>3. /\ ProbeMatches(circuits[DomainOf[u]], probe[u]) /\ pc[u] \notin {"start", "done"}
              /\ \A w \in Targets : probe[w] # 0 /\ DomainOf[w] = DomainOf[u] => w = u
          BY <5>1 DEF ProbeInv, ProbeIsHeld
        <5> QED BY <3>4, <5>1, <5>2, <5>3 DEF ProbeMatches
      <4> QED BY <4>1, <4>2
    <3> QED BY <3>3, <3>4, <3>7, <3>8 DEF ProbeInv, ProbeIsHeld
  <2> QED BY <2>1, <2>2
<1> QED BY <1>1, <1>2 DEF Begin

LEMMA CircuitTimeKeepsProbes ==
  ASSUME ProbeInv, NEW d \in Domains, CoolsDown(d) \/ PruneInactiveClosed(d), UNCHANGED <<pc, probe>>
  PROVE  ProbeInv'
<1>1. NoCircuit \in CircuitType /\ NoCircuit.state = "none"
  BY FailuresAssumption DEF NoCircuit, CircuitType
<1>2. /\ circuits' \in [Domains -> CircuitType] /\ circuits'[d].state # "half_open"
      /\ circuits[d].state # "half_open" /\ \A e \in Domains : e # d => circuits'[e] = circuits[e]
  <2>1. CASE CoolsDown(d)
    <3>1. [circuits[d] EXCEPT !.cooled = TRUE] \in CircuitType
          /\ [circuits[d] EXCEPT !.cooled = TRUE].state = circuits[d].state
      BY DEF ProbeInv, CircuitType
    <3> QED BY <2>1, <3>1 DEF CoolsDown, ProbeInv
  <2>2. CASE PruneInactiveClosed(d)
    BY <1>1, <2>2 DEF PruneInactiveClosed, ProbeInv
  <2> QED BY <2>1, <2>2
<1>3. \A t \in Targets : probe[t] # 0 => DomainOf[t] # d /\ DomainOf[t] \in Domains
  BY <1>2, DomainAssumption DEF ProbeInv, ProbeIsHeld, ProbeMatches
<1> QED BY <1>2, <1>3 DEF ProbeInv, ProbeIsHeld, ProbeMatches

(* Every step keeps the probes.                                            *)
LEMMA StepKeepsProbes ==
  ASSUME ProbeInv, PermitInv, [Next]_vars
  PROVE  ProbeInv'
<1>0. ASSUME UNCHANGED <<circuits, probe, pc>> PROVE ProbeInv'
  BY <1>0 DEF ProbeInv, ProbeIsHeld, ProbeMatches
<1>1. CASE UNCHANGED vars
  BY <1>0, <1>1 DEF vars, taskVars
<1>2. ASSUME NEW r \in Runs, Launch(r) PROVE ProbeInv'
  <2>1. \A t \in Targets : RunOf[t] = r => probe[t] = 0
    BY <1>2 DEF Launch, ProbeInv, ProbeIsHeld, PermitInv
  <2> QED BY <1>2, <2>1 DEF Launch, ProbeInv, ProbeIsHeld, ProbeMatches
<1>3. ASSUME NEW r \in Runs, RunEnds(r) \/ Cancel(r) \/ Deadline(r) \/ Ceiling(r) PROVE ProbeInv'
  BY <1>0, <1>3 DEF RunEnds, Cancel, Deadline, Ceiling, Exhausts, taskVars
<1>4. ASSUME NEW t \in Targets, TaskStep(t) PROVE ProbeInv'
  <2>1. CASE TakeSlot(t)
    BY <2>1, MovingKeepsProbes DEF TakeSlot, Goto
  <2>2. CASE Attempt(t) \/ BasicHop(t)
    <3>1. CASE AwaitsLimiter(t)
      BY <3>1, MovingKeepsProbes DEF AwaitsLimiter
    <3> QED BY <2>2, <3>1, AttemptEnds, PageEndsKeepsProbes
  <2>3. CASE FetchEnds(t)
    BY <2>3, FetchReturnsEnds, PageEndsKeepsProbes DEF FetchEnds
  <2>4. CASE BrowserStops(t)
    BY <1>0, <2>4, LeaveKeepsProbes DEF BrowserStops, taskVars
  <2> QED BY <1>4, <2>1, <2>2, <2>3, <2>4, BeginKeepsProbes DEF TaskStep
<1>5. ASSUME NEW c \in Chains, ChainStep(c) PROVE ProbeInv'
  BY <1>0, <1>5, ChainStepIsQuiet
<1>6. ASSUME NEW t \in Targets, LimiterStep(t) PROVE ProbeInv'
  <2>1. CASE LimiterMoves(t)
    BY <1>0, <2>1 DEF LimiterMoves, taskVars
  <2>2. CASE LimiterReturns(t)
    <3>1. circuits' = circuits
      BY <2>2 DEF LimiterReturns
    <3>2. CASE UNCHANGED taskVars
      BY <1>0, <3>1, <3>2 DEF taskVars
    <3>3. CASE Goto(t, "fetch")
      BY <3>1, <3>3, MovingKeepsProbes DEF Goto
    <3> QED BY <2>2, <3>2, <3>3 DEF LimiterReturns, BasicRequest, OpenPage, Exceeds
  <2> QED BY <1>6, <2>1, <2>2 DEF LimiterStep
<1>7. ASSUME NEW t \in Targets, Unwind(t) PROVE ProbeInv'
  <2>1. CASE Goto(t, "closing") /\ UNCHANGED circuits
    BY <2>1, MovingKeepsProbes DEF Goto
  <2>2. CASE Leave(t)
    BY <2>2, LeaveKeepsProbes
  <2> QED BY <1>7, <2>1, <2>2 DEF Unwind
<1>8. ASSUME NEW d \in Domains, Time(d) PROVE ProbeInv'
  BY <1>0, <1>8, CircuitTimeKeepsProbes DEF Time, CircuitTime, LimiterTime, taskVars
<1> QED BY <1>1, <1>2, <1>3, <1>4, <1>5, <1>6, <1>7, <1>8 DEF Next

-----------------------------------------------------------------------------
(* The permits, step by step.  A target moves on, holding what it holds.   *)
LEMMA MovingKeepsPermits ==
  ASSUME PermitInv, NEW t \in Targets, NEW step \in Steps, pc' = [pc EXCEPT ![t] = step],
         UNCHANGED <<run, slots>>, live' \subseteq live \cup {t},
         run[RunOf[t]] # "over",
         t \in Browsers /\ step \in {"attempt", "rate", "fetch", "closing"} => t \in slots,
         t \in live' => t \in Browsers /\ step \in {"fetch", "closing"}
  PROVE  PermitInv'
BY DEF PermitInv

(* A target is over, and so is its page.                                   *)
LEMMA LeavingKeepsPermits ==
  ASSUME PermitInv, NEW t \in Targets, pc' = [pc EXCEPT ![t] = "done"],
         slots' = slots \ {t}, live' = live \ {t}, run' = run
  PROVE  PermitInv'
<1>1. IsFiniteSet(slots) /\ Cardinality(slots) \in Nat
  BY FiniteAssumption, FS_Subset, FS_CardinalityType DEF PermitInv
<1>2. Cardinality(slots') <= Cardinality(slots) /\ Cardinality(slots') \in Nat
  BY <1>1, FS_Subset, FS_CardinalityType
<1>3. Cardinality(slots') <= Slots
  BY <1>1, <1>2, LimitsAssumption DEF PermitInv
<1>4. slots' \subseteq Targets /\ run' \in [Runs -> {"over", "running", "cancelled", "exhausted"}]
      /\ pc' \in [Targets -> Steps]
  BY DEF PermitInv, Steps
<1>5. ASSUME NEW u \in Targets
      PROVE  /\ u \in Browsers /\ pc'[u] \in {"attempt", "rate", "fetch", "closing"} => u \in slots'
             /\ run'[RunOf[u]] = "over" => pc'[u] = "done"
  BY DEF PermitInv
<1>6. ASSUME NEW u \in live' PROVE u \in Browsers /\ pc'[u] \in {"fetch", "closing"}
  BY DEF PermitInv
<1> QED BY <1>3, <1>4, <1>5, <1>6 DEF PermitInv

(* A run that is not over has a status of its own.                         *)
LEMMA StoppingKeepsPermits ==
  ASSUME PermitInv, NEW r \in Runs, run[r] # "over", NEW status \in {"cancelled", "exhausted"},
         run' = [run EXCEPT ![r] = status], UNCHANGED <<pc, slots, live>>
  PROVE  PermitInv'
BY RunAssumption DEF PermitInv

LEMMA PageEndsKeepsPermits ==
  ASSUME PermitInv, NEW t \in Targets, pc[t] \in {"attempt", "fetch"}, PageEnds(t),
         live' = live \ {t}, run' = run
  PROVE  PermitInv'
<1>1. run[RunOf[t]] # "over" /\ (t \in Browsers => t \in slots) /\ t \notin live' /\ "attempt" \in Steps
  BY DEF PermitInv, Steps
<1>2. CASE Closes(t)
  BY <1>2, LeavingKeepsPermits DEF Closes, Over
<1>3. CASE pc' = [pc EXCEPT ![t] = "attempt"] /\ slots' = slots
  BY <1>1, <1>3, MovingKeepsPermits
<1>4. ASSUME \/ ScrapedAgain(t) \/ NextPage(t)
             \/ \E answered \in {TRUE, observed[t]} : Retries(t, "transient", answered)
      PROVE  pc' = [pc EXCEPT ![t] = "attempt"] /\ slots' = slots
  BY <1>4 DEF ScrapedAgain, NextPage, Retries
<1> QED BY <1>2, <1>3, <1>4 DEF PageEnds, Result, Validated

LEMMA StepKeepsPermits ==
  ASSUME PermitInv, [Next]_vars
  PROVE  PermitInv'
<1>0. ASSUME UNCHANGED <<run, pc, slots, live>> PROVE PermitInv'
  BY <1>0 DEF PermitInv
<1>a. \A t \in Targets : run[RunOf[t]] = "over" => pc[t] = "done"
  BY DEF PermitInv
<1>1. CASE UNCHANGED vars
  BY <1>0, <1>1 DEF vars, taskVars, runVars, browserVars
<1>2. ASSUME NEW r \in Runs, Launch(r) PROVE PermitInv'
  BY <1>2, RunAssumption DEF Launch, PermitInv, Steps, browserVars
<1>3. ASSUME NEW r \in Runs, RunEnds(r) PROVE PermitInv'
  BY <1>3, RunAssumption DEF RunEnds, TargetsOf, PermitInv, taskVars, browserVars
<1>4. ASSUME NEW r \in Runs, Cancel(r) \/ Deadline(r) \/ Ceiling(r) PROVE PermitInv'
  BY <1>4, StoppingKeepsPermits DEF Cancel, Deadline, Ceiling, Exhausts, taskVars, browserVars
<1>5. ASSUME NEW t \in Targets, TaskStep(t) PROVE PermitInv'
  <2>1. CASE Begin(t)
    <3>1. t \notin live
      BY <2>1 DEF Begin, PermitInv
    <3>2. CASE Over(t)
      <4>1. pc' = [pc EXCEPT ![t] = "done"] /\ UNCHANGED <<run, slots, live>>
        BY <2>1, <3>2 DEF Begin, Over, runVars, browserVars
      <4> QED BY <2>1, <3>1, <4>1, MovingKeepsPermits, <1>a DEF Begin, Steps
    <3>3. CASE pc' = [pc EXCEPT ![t] = IF t \in Browsers THEN "slot" ELSE "attempt"]
      <4>1. UNCHANGED <<run, slots, live>>
        BY <2>1 DEF Begin, runVars, browserVars
      <4> QED BY <2>1, <3>1, <3>3, <4>1, MovingKeepsPermits, <1>a DEF Begin, Steps
    <3> QED BY <2>1, <3>2, <3>3 DEF Begin
  <2>2. CASE TakeSlot(t)
    <3>1. IsFiniteSet(slots) /\ Cardinality(slots) \in Nat
      BY FiniteAssumption, FS_Subset, FS_CardinalityType DEF PermitInv
    <3>2. Cardinality(slots') \in Nat /\ Cardinality(slots') <= Cardinality(slots) + 1
      <4>1. slots' = slots \cup {t}
        BY <2>2 DEF TakeSlot
      <4>2. /\ IsFiniteSet(slots \cup {t})
            /\ Cardinality(slots \cup {t}) \in {Cardinality(slots), Cardinality(slots) + 1}
        BY <3>1, FS_AddElement
      <4> QED BY <3>1, <4>1, <4>2
    <3>3. Cardinality(slots') <= Slots
      BY <2>2, <3>1, <3>2, LimitsAssumption DEF TakeSlot
    <3>4. /\ pc' = [pc EXCEPT ![t] = "attempt"] /\ slots' = slots \cup {t} /\ UNCHANGED <<run, live>>
          /\ t \notin live
      BY <2>2 DEF TakeSlot, Goto, runVars, PermitInv
    <3> QED BY <2>2, <3>3, <3>4 DEF TakeSlot, PermitInv, Steps
  <2>3. CASE Attempt(t) \/ BasicHop(t)
    <3>1. /\ t \notin live /\ pc[t] \in {"attempt", "fetch"} /\ UNCHANGED <<run, live>>
          /\ t \in Browsers => t \in slots
      BY <2>3, AttemptEnds DEF PermitInv, runVars
    <3>2. CASE PageEnds(t)
      BY <3>1, <3>2, PageEndsKeepsPermits
    <3>3. CASE AwaitsLimiter(t)
      BY <1>a, <3>1, <3>3, MovingKeepsPermits DEF AwaitsLimiter, Steps
    <3> QED BY <2>3, <3>2, <3>3, AttemptEnds
  <2>4. CASE FetchEnds(t)
    BY <2>4, FetchReturnsEnds, PageEndsKeepsPermits DEF FetchEnds
  <2>5. CASE BrowserStops(t)
    <3>1. CASE pc[t] = "closing"
      BY <2>5, <3>1, LeavingKeepsPermits DEF BrowserStops, Leave, Over
    <3>2. CASE pc[t] # "closing"
      BY <2>5, <3>2 DEF BrowserStops, PermitInv, taskVars
    <3> QED BY <3>1, <3>2
  <2> QED BY <1>5, <2>1, <2>2, <2>3, <2>4, <2>5 DEF TaskStep
<1>6. ASSUME NEW c \in Chains, ChainStep(c) PROVE PermitInv'
  <2>1. RunOf[c[1]] \in Runs
    BY RunAssumption DEF Chains
  <2>2. CASE run' = run
    BY <1>0, <1>6, <2>2, ChainStepIsQuiet
  <2>3. CASE run[RunOf[c[1]]] = "running" /\ run' = [run EXCEPT ![RunOf[c[1]]] = "exhausted"]
    BY <1>6, <2>1, <2>3, ChainStepIsQuiet, StoppingKeepsPermits
  <2> QED BY <1>6, <2>2, <2>3, ChainStepIsQuiet
<1>7. ASSUME NEW t \in Targets, LimiterStep(t) PROVE PermitInv'
  <2>1. CASE LimiterMoves(t)
    BY <1>0, <2>1 DEF LimiterMoves, taskVars, runVars, browserVars
  <2>2. CASE LimiterReturns(t) /\ UNCHANGED <<taskVars, runVars, browserVars>>
    BY <1>0, <2>2 DEF taskVars, runVars, browserVars
  <2>3. CASE pc[t] = "rate" /\ Active(t) /\ (BasicRequest(t) \/ OpenPage(t))
    <3>1. (t \in Browsers => t \in slots) /\ run[RunOf[t]] # "over" /\ t \notin live /\ RunOf[t] \in Runs
          /\ "fetch" \in Steps
      BY <2>3, RunAssumption DEF PermitInv, Active, Steps
    <3>2. CASE OpenPage(t)
      BY <3>1, <3>2, MovingKeepsPermits DEF OpenPage, Goto, runVars
    <3>3. CASE BasicRequest(t)
      <4>1. UNCHANGED <<slots, live>>
        BY <3>3 DEF BasicRequest, browserVars
      <4>2. CASE Goto(t, "fetch") /\ UNCHANGED run
        BY <3>1, <4>1, <4>2, MovingKeepsPermits DEF Goto
      <4>3. CASE Exceeds(t)
        BY <3>1, <4>1, <4>3, StoppingKeepsPermits DEF Exceeds, taskVars
      <4> QED BY <3>3, <4>2, <4>3 DEF BasicRequest
    <3> QED BY <2>3, <3>2, <3>3
  <2> QED BY <1>7, <2>1, <2>2, <2>3 DEF LimiterStep, LimiterReturns
<1>8. ASSUME NEW t \in Targets, Unwind(t) PROVE PermitInv'
  <2>1. CASE t \in live
    <3>1. /\ pc' = [pc EXCEPT ![t] = "closing"] /\ UNCHANGED <<run, slots, live>>
          /\ t \in Browsers /\ t \in slots /\ run[RunOf[t]] # "over" /\ "closing" \in Steps
      BY <1>8, <2>1 DEF Unwind, Goto, runVars, PermitInv, Steps
    <3> QED BY <2>1, <3>1, MovingKeepsPermits
  <2>2. CASE t \notin live
    <3>1. Leave(t) /\ live' = live \ {t} /\ run' = run
      BY <1>8, <2>2 DEF Unwind, runVars
    <3> QED BY <3>1, LeavingKeepsPermits DEF Leave, Over
  <2> QED BY <2>1, <2>2
<1>9. ASSUME NEW d \in Domains, Time(d) PROVE PermitInv'
  BY <1>0, <1>9 DEF Time, CircuitTime, LimiterTime, taskVars, runVars, browserVars
<1> QED BY <1>1, <1>2, <1>3, <1>4, <1>5, <1>6, <1>7, <1>8, <1>9 DEF Next

-----------------------------------------------------------------------------
(* The locals of the tasks.                                                *)
LEMMA OverKeepsTasks ==
  ASSUME TaskInv, NEW t \in Targets, Over(t), launches' = launches
  PROVE  TaskInv'
<1>1. MaxAttempts[RunOf[t]] \in Nat \ {0} /\ MaxPages[t] \in Nat \ {0}
  BY RunAssumption, LimitsAssumption
<1>2. /\ round' \in [Targets -> 1 .. 2] /\ attempt' \in [Targets -> Nat] /\ got' \in [Targets -> Nat]
      /\ observed' \in [Targets -> BOOLEAN]
  BY DEF TaskInv, Over
<1>3. ASSUME NEW u \in Targets
      PROVE  attempt'[u] \in 1 .. MaxAttempts[RunOf[u]] /\ got'[u] < MaxPages[u]
  <2>1. CASE u = t
    BY <1>1, <2>1 DEF TaskInv, Over
  <2>2. CASE u # t
    BY <2>2 DEF TaskInv, Over
  <2> QED BY <2>1, <2>2
<1> QED BY <1>2, <1>3 DEF TaskInv

LEMMA PageEndsKeepsTasks ==
  ASSUME TaskInv, NEW t \in Targets, PageEnds(t), launches' = launches
  PROVE  TaskInv'
<1>0. MaxAttempts[RunOf[t]] \in Nat \ {0} /\ MaxPages[t] \in Nat \ {0}
  BY RunAssumption, LimitsAssumption
<1>1. CASE Closes(t)
  BY <1>1, OverKeepsTasks DEF Closes
<1>2. CASE ScrapedAgain(t)
  BY <1>0, <1>2 DEF ScrapedAgain, TaskInv
<1>3. ASSUME NEW answered \in {TRUE, observed[t]}, Retries(t, "transient", answered) PROVE TaskInv'
  <2>1. attempt' \in [Targets -> Nat] /\ \A u \in Targets : attempt'[u] \in 1 .. MaxAttempts[RunOf[u]]
    BY <1>0, <1>3 DEF Retries, TaskInv
  <2>2. answered \in BOOLEAN
    BY DEF TaskInv
  <2>3. observed' \in [Targets -> BOOLEAN]
    BY <1>3, <2>2 DEF Retries, TaskInv
  <2> QED BY <1>3, <2>1, <2>3 DEF Retries, TaskInv
<1>4. CASE NextPage(t)
  BY <1>0, <1>4 DEF NextPage, TaskInv
<1> QED BY <1>1, <1>2, <1>3, <1>4 DEF PageEnds, Result, Validated

LEMMA StepKeepsTasks ==
  ASSUME TaskInv, [Next]_vars
  PROVE  TaskInv'
<1>0. ASSUME UNCHANGED <<launches, round, attempt, got, observed>> PROVE TaskInv'
  BY <1>0 DEF TaskInv
<1>1. CASE UNCHANGED vars
  BY <1>0, <1>1 DEF vars, taskVars, runVars
<1>2. ASSUME NEW r \in Runs, Launch(r) PROVE TaskInv'
  <2>1. launches' \in [Runs -> Nat] /\ \A q \in Runs : launches'[q] <= MaxLaunches[q]
    <3>1. launches[r] < MaxLaunches[r] /\ launches' = [launches EXCEPT ![r] = @ + 1]
      BY <1>2 DEF Launch
    <3>2. launches \in [Runs -> Nat] /\ MaxLaunches \in [Runs -> Nat]
          /\ \A q \in Runs : launches[q] <= MaxLaunches[q]
      BY LimitsAssumption DEF TaskInv
    <3> QED BY <3>1, <3>2
  <2> QED BY <1>2, <2>1 DEF Launch, TaskInv
<1>3. ASSUME NEW r \in Runs, RunEnds(r) \/ Cancel(r) \/ Deadline(r) \/ Ceiling(r) PROVE TaskInv'
  BY <1>0, <1>3 DEF RunEnds, Cancel, Deadline, Ceiling, Exhausts, taskVars
<1>4. ASSUME NEW t \in Targets, TaskStep(t) PROVE TaskInv'
  <2>1. CASE Begin(t)
    BY <1>0, <2>1, OverKeepsTasks DEF Begin, runVars
  <2>2. CASE TakeSlot(t)
    BY <1>0, <2>2 DEF TakeSlot, Goto, runVars
  <2>3. CASE Attempt(t) \/ BasicHop(t)
    <3>1. launches' = launches
      BY <2>3, AttemptEnds DEF runVars
    <3>2. CASE AwaitsLimiter(t)
      BY <3>1, <3>2 DEF AwaitsLimiter, TaskInv
    <3> QED BY <2>3, <3>1, <3>2, AttemptEnds, PageEndsKeepsTasks
  <2>4. CASE FetchEnds(t)
    BY <2>4, FetchReturnsEnds, PageEndsKeepsTasks DEF FetchEnds
  <2>5. CASE BrowserStops(t)
    BY <1>0, <2>5, OverKeepsTasks DEF BrowserStops, Leave, taskVars
  <2> QED BY <1>4, <2>1, <2>2, <2>3, <2>4, <2>5 DEF TaskStep
<1>5. ASSUME NEW c \in Chains, ChainStep(c) PROVE TaskInv'
  <2>1. CASE observed' = observed
    BY <1>0, <1>5, <2>1, ChainStepIsQuiet
  <2>2. ASSUME NEW b \in BOOLEAN, observed' = [observed EXCEPT ![c[1]] = @ \/ b] PROVE TaskInv'
    <3>1. observed' \in [Targets -> BOOLEAN]
      BY <2>2 DEF TaskInv
    <3> QED BY <1>5, <3>1, ChainStepIsQuiet DEF TaskInv
  <2> QED BY <1>5, <2>1, <2>2, ChainStepIsQuiet
<1>6. ASSUME NEW t \in Targets, LimiterStep(t) PROVE TaskInv'
  BY <1>0, <1>6 DEF LimiterStep, LimiterMoves, LimiterReturns, BasicRequest, OpenPage, Exceeds, Goto,
      taskVars, runVars
<1>7. ASSUME NEW t \in Targets, Unwind(t) PROVE TaskInv'
  BY <1>0, <1>7, OverKeepsTasks DEF Unwind, Leave, Goto, runVars
<1>8. ASSUME NEW d \in Domains, Time(d) PROVE TaskInv'
  BY <1>0, <1>8 DEF Time, CircuitTime, LimiterTime, taskVars, runVars
<1> QED BY <1>1, <1>2, <1>3, <1>4, <1>5, <1>6, <1>7, <1>8 DEF Next

-----------------------------------------------------------------------------
(* The budget.  What the chains hold back is a finite set, counted as they *)
(* open, move on and settle.                                               *)
LEMMA HeldIsFinite ==
  ASSUME NEW r
  PROVE  /\ IsFiniteSet(Held(r)) /\ Cardinality(Held(r)) \in Nat
         /\ IsFiniteSet(Held(r)') /\ Cardinality(Held(r)') \in Nat
<1>1. IsFiniteSet(Chains)
  BY FiniteAssumption, LimitsAssumption, FS_Product DEF Chains
<1>2. IsFiniteSet(1 .. MaxRedirects + 1)
  BY LimitsAssumption, FS_Interval
<1>3. IsFiniteSet(Chains \X (1 .. MaxRedirects + 1))
  BY <1>1, <1>2, FS_Product
<1>4. /\ Held(r) \subseteq Chains \X (1 .. MaxRedirects + 1)
      /\ Held(r)' \subseteq Chains \X (1 .. MaxRedirects + 1)
  BY DEF Held, Unused
<1> QED BY <1>3, <1>4, FS_Subset, FS_CardinalityType

(* A part of it comes back, or more is held.                               *)
LEMMA HeldShrinks ==
  ASSUME NEW r, NEW X, X \subseteq Held(r), Held(r)' = Held(r) \ X
  PROVE  Cardinality(X) \in Nat /\ Cardinality(Held(r)') = Cardinality(Held(r)) - Cardinality(X)
<1>1. IsFiniteSet(X) /\ Cardinality(X) \in Nat
  BY HeldIsFinite, FS_Subset, FS_CardinalityType
<1>2. Cardinality(Held(r) \ X) = Cardinality(Held(r)) - Cardinality(Held(r) \cap X)
  BY HeldIsFinite, FS_Difference
<1>3. Held(r) \cap X = X
  OBVIOUS
<1> QED BY <1>1, <1>2, <1>3

LEMMA HeldGrows ==
  ASSUME NEW r, NEW X, IsFiniteSet(X), X \cap Held(r) = {}, Held(r)' = Held(r) \cup X
  PROVE  Cardinality(Held(r)') = Cardinality(Held(r)) + Cardinality(X)
<1>1. Cardinality(X) \in Nat
  BY FS_CardinalityType
<1>2. Cardinality(Held(r) \cup X) =
        Cardinality(Held(r)) + Cardinality(X) - Cardinality(Held(r) \cap X)
  BY HeldIsFinite, FS_Union
<1>3. Cardinality(Held(r) \cap X) = 0
  BY FS_EmptySet
<1> QED BY <1>1, <1>2, <1>3, HeldIsFinite

(* What a chain of k requests has left.                                    *)
RestOf(c, k) == {c} \X (k + 1 .. MaxRedirects + 1)

LEMMA RestCounts ==
  ASSUME NEW c, NEW k \in 0 .. MaxRedirects + 1
  PROVE  IsFiniteSet(RestOf(c, k)) /\ Cardinality(RestOf(c, k)) = MaxRedirects + 1 - k
<1>1. MaxRedirects \in Nat
  BY LimitsAssumption
<1>2. /\ IsFiniteSet(k + 1 .. MaxRedirects + 1)
      /\ Cardinality(k + 1 .. MaxRedirects + 1) = MaxRedirects + 1 - k
  <2>1. k + 1 \in Int /\ MaxRedirects + 1 \in Int
    BY <1>1
  <2>2. /\ IsFiniteSet(k + 1 .. MaxRedirects + 1)
        /\ Cardinality(k + 1 .. MaxRedirects + 1) =
             IF k + 1 > MaxRedirects + 1 THEN 0 ELSE (MaxRedirects + 1) - (k + 1) + 1
    BY <2>1, FS_Interval
  <2> QED BY <1>1, <2>2
<1>3. IsFiniteSet({c}) /\ Cardinality({c}) = 1
  BY FS_Singleton
<1>4. /\ IsFiniteSet(RestOf(c, k))
      /\ Cardinality(RestOf(c, k)) = Cardinality({c}) * Cardinality(k + 1 .. MaxRedirects + 1)
  BY <1>2, <1>3, FS_Product DEF RestOf
<1> QED BY <1>1, <1>2, <1>3, <1>4

(* Chains that hold what they held.                                        *)
LEMMA SameChainsSameHeld ==
  ASSUME NEW q,
         \A c \in Chains : RunOf[c[1]] = q =>
            /\ phase'[c] \in Holding <=> phase[c] \in Holding
            /\ phase[c] \in Holding => hops'[c] = hops[c]
  PROVE  Held(q)' = Held(q)
BY DEF Held, Unused

(* The account of one run is in order, the others are as they were.        *)
LEMMA AccountKeepsBudget ==
  ASSUME BudgetInv, NEW r \in Runs,
         phase' \in [Chains -> Phases], hops' \in [Chains -> 0 .. MaxRedirects + 1],
         NEW n \in Nat, NEW m \in Nat,
         requests' = [requests EXCEPT ![r] = n], issued' = [issued EXCEPT ![r] = m],
         n = m + Cardinality(Held(r)'), n <= MaxRequests,
         \A q \in Runs : q # r => Held(q)' = Held(q)
  PROVE  BudgetInv'
<1>1. requests' \in [Runs -> Nat] /\ issued' \in [Runs -> Nat]
  BY DEF BudgetInv
<1>2. ASSUME NEW q \in Runs
      PROVE  requests'[q] = issued'[q] + Cardinality(Held(q)') /\ requests'[q] <= MaxRequests
  <2>1. CASE q = r
    BY <2>1 DEF BudgetInv
  <2>2. CASE q # r
    BY <2>2 DEF BudgetInv, BudgetCoversRequests
  <2> QED BY <2>1, <2>2
<1> QED BY <1>1, <1>2 DEF BudgetInv, BudgetCoversRequests

(* Nothing is reserved, sent or given back.                                *)
LEMMA QuietKeepsBudget ==
  ASSUME BudgetInv, UNCHANGED <<requests, issued>>,
         phase' \in [Chains -> Phases], hops' \in [Chains -> 0 .. MaxRedirects + 1],
         \A c \in Chains :
            /\ phase'[c] \in Holding <=> phase[c] \in Holding
            /\ phase[c] \in Holding => hops'[c] = hops[c]
  PROVE  BudgetInv'
<1>1. \A q \in Runs : Held(q)' = Held(q)
  BY SameChainsSameHeld
<1> QED BY <1>1 DEF BudgetInv, BudgetCoversRequests

(* The chains of S settle what they did not use, and only that.            *)
LEMMA SettlingKeepsBudget ==
  ASSUME BudgetInv, NEW r \in Runs, NEW S \in SUBSET Chains, \A c \in S : RunOf[c[1]] = r,
         requests' = [requests EXCEPT ![r] = @ - Cardinality(Unused(S))], issued' = issued,
         phase' \in [Chains -> Phases], hops' \in [Chains -> 0 .. MaxRedirects + 1],
         \A c \in S : phase'[c] \notin Holding,
         \A c \in Chains \ S :
            /\ phase'[c] \in Holding <=> phase[c] \in Holding
            /\ phase[c] \in Holding => hops'[c] = hops[c]
  PROVE  BudgetInv'
<1>1. /\ requests[r] \in Nat /\ issued[r] \in Nat /\ MaxRequests \in Nat
      /\ requests[r] = issued[r] + Cardinality(Held(r)) /\ requests[r] <= MaxRequests
  BY LimitsAssumption DEF BudgetInv, BudgetCoversRequests
<1>2. Unused(S) \subseteq Held(r)
  BY DEF Unused, Held
<1>3. Held(r)' = Held(r) \ Unused(S)
  BY DEF Unused, Held
<1>4. /\ Cardinality(Unused(S)) \in Nat
      /\ Cardinality(Held(r)') = Cardinality(Held(r)) - Cardinality(Unused(S))
  BY <1>2, <1>3, HeldShrinks
<1>5. \A q \in Runs : q # r => Held(q)' = Held(q)
  BY SameChainsSameHeld
<1> DEFINE n == requests[r] - Cardinality(Unused(S))
<1>6. n \in Nat /\ n = issued[r] + Cardinality(Held(r)') /\ n <= MaxRequests
  BY <1>1, <1>4, HeldIsFinite
<1>7. requests' = [requests EXCEPT ![r] = n] /\ issued' = [issued EXCEPT ![r] = issued[r]]
  BY DEF BudgetInv
<1> HIDE DEF n
<1> QED BY <1>1, <1>5, <1>6, <1>7, AccountKeepsBudget

(* A chain reserves all it may need; of that k requests leave at once.     *)
LEMMA ReservingKeepsBudget ==
  ASSUME BudgetInv, NEW c \in Chains, phase[c] \notin Holding, NEW k \in 0 .. 1,
         NEW step \in Holding, ChainGoes(c, step, k),
         requests[RunOf[c[1]]] + MaxRedirects + 1 <= MaxRequests,
         requests' = [requests EXCEPT ![RunOf[c[1]]] = @ + MaxRedirects + 1],
         issued' = [issued EXCEPT ![RunOf[c[1]]] = @ + k]
  PROVE  BudgetInv'
<1> DEFINE r == RunOf[c[1]]
<1>1. /\ r \in Runs /\ MaxRedirects \in Nat /\ MaxRequests \in Nat
      /\ requests[r] \in Nat /\ issued[r] \in Nat
      /\ requests[r] = issued[r] + Cardinality(Held(r))
  BY RunAssumption, LimitsAssumption DEF BudgetInv, BudgetCoversRequests, Chains
<1>2. /\ phase' \in [Chains -> Phases] /\ hops' \in [Chains -> 0 .. MaxRedirects + 1]
      /\ phase'[c] \in Holding /\ hops'[c] = k
      /\ \A d \in Chains : d # c => phase'[d] = phase[d] /\ hops'[d] = hops[d]
  BY <1>1 DEF ChainGoes, BudgetInv, Holding, Phases
<1>3. RestOf(c, k) \cap Held(r) = {}
  BY DEF RestOf, Held, Unused
<1>4. Held(r)' = Held(r) \cup RestOf(c, k)
  BY <1>1, <1>2 DEF RestOf, Held, Unused
<1>5. Cardinality(Held(r)') = Cardinality(Held(r)) + (MaxRedirects + 1 - k)
  <2>1. k \in 0 .. MaxRedirects + 1
    BY <1>1
  <2>2. IsFiniteSet(RestOf(c, k)) /\ Cardinality(RestOf(c, k)) = MaxRedirects + 1 - k
    BY <2>1, RestCounts
  <2> QED BY <1>3, <1>4, <2>2, HeldGrows
<1>6. \A q \in Runs : q # r => Held(q)' = Held(q)
  BY <1>2, SameChainsSameHeld
<1> DEFINE n == requests[r] + MaxRedirects + 1
           m == issued[r] + k
<1>7. n \in Nat /\ m \in Nat /\ n = m + Cardinality(Held(r)') /\ n <= MaxRequests
  BY <1>1, <1>5, HeldIsFinite
<1>8. requests' = [requests EXCEPT ![r] = n] /\ issued' = [issued EXCEPT ![r] = m]
  BY DEF BudgetInv
<1> HIDE DEF n, m, r
<1> QED BY <1>1, <1>2, <1>6, <1>7, <1>8, AccountKeepsBudget

LEMMA RedirectingKeepsBudget ==
  ASSUME BudgetInv, NEW c \in Chains, Redirected(c)
  PROVE  BudgetInv'
<1> DEFINE r == RunOf[c[1]]
           p == <<c, hops[c] + 1>>
<1>1. /\ r \in Runs /\ MaxRedirects \in Nat /\ hops[c] \in 0 .. MaxRedirects
      /\ requests[r] \in Nat /\ issued[r] \in Nat
      /\ requests[r] = issued[r] + Cardinality(Held(r)) /\ requests[r] <= MaxRequests
  BY RunAssumption, LimitsAssumption DEF BudgetInv, BudgetCoversRequests, Chains, Redirected
<1>2. /\ phase' = phase /\ hops' \in [Chains -> 0 .. MaxRedirects + 1] /\ hops'[c] = hops[c] + 1
      /\ \A d \in Chains : d # c => hops'[d] = hops[d]
      /\ phase[c] \in Holding /\ phase' \in [Chains -> Phases]
  BY <1>1 DEF Redirected, ChainGoes, BudgetInv, Holding
<1>3. p \in Held(r)
  BY <1>1, <1>2 DEF Held, Unused
<1>4. Held(r)' = Held(r) \ {p}
  BY <1>1, <1>2 DEF Held, Unused
<1>5. Cardinality(Held(r)') = Cardinality(Held(r)) - 1
  <2> HIDE DEF p
  <2>1. Cardinality(Held(r) \ {p}) = Cardinality(Held(r)) - 1
    BY <1>3, HeldIsFinite, FS_RemoveElement
  <2> QED BY <1>4, <2>1
<1>6. \A q \in Runs : q # r => Held(q)' = Held(q)
  BY <1>2, SameChainsSameHeld
<1> DEFINE m == issued[r] + 1
<1>7. m \in Nat /\ requests[r] = m + Cardinality(Held(r)')
  BY <1>1, <1>5, HeldIsFinite
<1>8. requests' = [requests EXCEPT ![r] = requests[r]] /\ issued' = [issued EXCEPT ![r] = m]
  BY DEF BudgetInv, Redirected
<1> HIDE DEF m, r
<1> QED BY <1>1, <1>2, <1>6, <1>7, <1>8, AccountKeepsBudget

(* A page is closed: its chains settle, or what they hold is lost.         *)
LEMMA ClosingKeepsBudget ==
  ASSUME BudgetInv, NEW t \in Targets, PageSettles(t) \/ PageForfeits(t), issued' = issued
  PROVE  BudgetInv'
<1>1. CASE PageSettles(t)
  <2> DEFINE open == {c \in ChainsOf(t) : phase[c] = "open"}
  <2>1. /\ RunOf[t] \in Runs /\ open \subseteq Chains /\ \A c \in open : RunOf[c[1]] = RunOf[t]
    BY RunAssumption DEF ChainsOf, Chains
  <2>2. /\ requests' = [requests EXCEPT ![RunOf[t]] = @ - Cardinality(Unused(open))]
        /\ phase' = [c \in Chains |-> CASE c \in open -> "idle"
                                      [] c \in ChainsOf(t) /\ phase[c] = "guard" -> "late"
                                      [] OTHER -> phase[c]]
        /\ hops' = [c \in Chains |-> IF c \in open THEN 0 ELSE hops[c]]
    BY <1>1 DEF PageSettles
  <2>3. 0 \in 0 .. MaxRedirects + 1
    BY LimitsAssumption
  <2> HIDE DEF open
  <2>4. phase' \in [Chains -> Phases] /\ hops' \in [Chains -> 0 .. MaxRedirects + 1]
    BY <2>2, <2>3 DEF BudgetInv, Phases
  <2>5. \A c \in open : phase'[c] \notin Holding
    BY <2>1, <2>2 DEF Holding
  <2>6. \A c \in Chains \ open :
           /\ phase'[c] \in Holding <=> phase[c] \in Holding
           /\ phase[c] \in Holding => hops'[c] = hops[c]
    BY <2>2 DEF Holding
  <2> QED BY <2>1, <2>2, <2>4, <2>5, <2>6, SettlingKeepsBudget
<1>2. CASE PageForfeits(t)
  <2>1. phase' \in [Chains -> Phases]
    BY <1>2 DEF PageForfeits, BudgetInv, Phases
  <2>2. \A c \in Chains : phase'[c] \in Holding <=> phase[c] \in Holding
    BY <1>2 DEF PageForfeits, Holding
  <2> QED BY <1>2, <2>1, <2>2, QuietKeepsBudget DEF PageForfeits, BudgetInv
<1> QED BY <1>1, <1>2

(* A request of a page, step by step.                                      *)
LEMMA ChainStepKeepsBudget ==
  ASSUME BudgetInv, NEW c \in Chains, ChainStep(c)
  PROVE  BudgetInv'
<1>0. /\ RunOf[c[1]] \in Runs /\ MaxRedirects \in Nat /\ 0 \in 0 .. MaxRedirects + 1
      /\ phase \in [Chains -> Phases] /\ hops \in [Chains -> 0 .. MaxRedirects + 1]
  BY RunAssumption, LimitsAssumption DEF Chains, BudgetInv
<1>1. ASSUME NEW step \in {"idle", "guard"}, ChainGoes(c, step, 0), phase[c] \notin Holding,
             UNCHANGED <<requests, issued>>
      PROVE  BudgetInv'
  BY <1>0, <1>1, QuietKeepsBudget DEF ChainGoes, Phases, Holding
<1>2. CASE Route(c) \/ RouteRefused(c)
  BY <1>1, <1>2 DEF Route, RouteRefused, Holding
<1>3. CASE Reserve(c)
  <2>1. phase[c] \notin Holding
    BY <1>3 DEF Reserve, Holding
  <2>2. CASE /\ requests[RunOf[c[1]]] + MaxRedirects + 1 <= MaxRequests
             /\ requests' = [requests EXCEPT ![RunOf[c[1]]] = @ + MaxRedirects + 1]
    <3>1. CASE ChainGoes(c, "open", 1) /\ issued' = [issued EXCEPT ![RunOf[c[1]]] = @ + 1]
      <4>1. 1 \in 0 .. 1 /\ "open" \in Holding
        BY DEF Holding
      <4> QED BY <2>1, <2>2, <3>1, <4>1, ReservingKeepsBudget
    <3>2. CASE ChainGoes(c, "lost", 0) /\ issued' = issued
      <4>1. issued' = [issued EXCEPT ![RunOf[c[1]]] = @ + 0]
        BY <1>0, <3>2 DEF BudgetInv
      <4>2. 0 \in 0 .. 1 /\ "lost" \in Holding
        BY DEF Holding
      <4> QED BY <2>1, <2>2, <3>2, <4>1, <4>2, ReservingKeepsBudget
    <3>3. requests' # requests
      BY <1>0, <2>2 DEF BudgetInv
    <3> QED BY <1>3, <3>1, <3>2, <3>3 DEF Reserve
  <2>3. CASE ChainGoes(c, "idle", 0) /\ UNCHANGED <<requests, issued>>
    BY <1>1, <2>1, <2>3
  <2> QED BY <1>3, <2>2, <2>3 DEF Reserve
<1>4. CASE ChainSettles(c)
  <2>1. /\ requests' = [requests EXCEPT ![RunOf[c[1]]] = @ - Cardinality(Unused({c}))]
        /\ issued' = issued /\ ChainGoes(c, "idle", 0)
    BY <1>4 DEF ChainSettles
  <2>2. /\ phase' \in [Chains -> Phases] /\ hops' \in [Chains -> 0 .. MaxRedirects + 1]
        /\ phase'[c] = "idle"
        /\ \A d \in Chains : d # c => phase'[d] = phase[d] /\ hops'[d] = hops[d]
    BY <1>0, <2>1 DEF ChainGoes, Phases
  <2>3. PICK S \in SUBSET Chains : S = {c}
    OBVIOUS
  <2>4. \A d \in S : RunOf[d[1]] = RunOf[c[1]] /\ phase'[d] \notin Holding
    BY <2>2, <2>3 DEF Holding
  <2>5. requests' = [requests EXCEPT ![RunOf[c[1]]] = @ - Cardinality(Unused(S))]
    BY <2>1, <2>3
  <2>6. \A d \in Chains \ S :
           /\ phase'[d] \in Holding <=> phase[d] \in Holding
           /\ phase[d] \in Holding => hops'[d] = hops[d]
    BY <2>2, <2>3
  <2> QED BY <1>0, <2>1, <2>2, <2>4, <2>5, <2>6, SettlingKeepsBudget
<1>5. ASSUME NEW answered \in BOOLEAN, ChainEnds(c, answered) PROVE BudgetInv'
  <2>1. ChainGoes(c, "releasing", hops[c]) /\ phase[c] = "open" /\ UNCHANGED <<requests, issued>>
    BY <1>5 DEF ChainEnds, runVars
  <2> QED BY <1>0, <2>1, QuietKeepsBudget DEF ChainGoes, Phases, Holding
<1> QED BY <1>2, <1>3, <1>4, <1>5, RedirectingKeepsBudget DEF ChainStep

LEMMA StepKeepsBudget ==
  ASSUME BudgetInv, [Next]_vars
  PROVE  BudgetInv'
<1>0. ASSUME UNCHANGED <<requests, issued, phase, hops>> PROVE BudgetInv'
  BY <1>0 DEF BudgetInv, BudgetCoversRequests, Held, Unused
<1>1. CASE UNCHANGED vars
  BY <1>0, <1>1 DEF vars, runVars, browserVars
<1>2. ASSUME NEW r \in Runs, Launch(r) \/ Cancel(r) \/ Deadline(r) \/ Ceiling(r) PROVE BudgetInv'
  BY <1>0, <1>2 DEF Launch, Cancel, Deadline, Ceiling, Exhausts, browserVars
<1>3. ASSUME NEW r \in Runs, RunEnds(r) PROVE BudgetInv'
  <2>1. /\ requests' = [requests EXCEPT ![r] = 0] /\ issued' = [issued EXCEPT ![r] = 0]
        /\ phase' = [c \in Chains |-> IF RunOf[c[1]] = r THEN "idle" ELSE phase[c]]
        /\ hops' = [c \in Chains |-> IF RunOf[c[1]] = r THEN 0 ELSE hops[c]]
    BY <1>3 DEF RunEnds
  <2>2. phase' \in [Chains -> Phases] /\ hops' \in [Chains -> 0 .. MaxRedirects + 1]
    BY <2>1, LimitsAssumption DEF BudgetInv, Phases
  <2>3. Held(r)' = {}
    BY <2>1 DEF Held, Unused, Holding
  <2>4. Cardinality(Held(r)') = 0
    BY <2>3, FS_EmptySet
  <2>5. \A q \in Runs : q # r => Held(q)' = Held(q)
    BY <2>1, SameChainsSameHeld
  <2>6. 0 \in Nat /\ 0 = 0 + Cardinality(Held(r)') /\ 0 <= MaxRequests
    BY <2>4, LimitsAssumption
  <2> QED BY <2>1, <2>2, <2>5, <2>6, AccountKeepsBudget
<1>4. ASSUME NEW t \in Targets, TaskStep(t) PROVE BudgetInv'
  <2>1. CASE Begin(t) \/ TakeSlot(t) \/ Attempt(t) \/ BasicHop(t)
    BY <1>0, <2>1 DEF Begin, TakeSlot, Attempt, BasicHop, runVars, browserVars
  <2>2. CASE FetchEnds(t) \/ BrowserStops(t)
    BY <2>2, ClosingKeepsBudget DEF FetchEnds, BrowserStops
  <2> QED BY <1>4, <2>1, <2>2 DEF TaskStep
<1>5. ASSUME NEW c \in Chains, ChainStep(c) PROVE BudgetInv'
  BY <1>5, ChainStepKeepsBudget
<1>6. ASSUME NEW t \in Targets, LimiterStep(t) PROVE BudgetInv'
  <2>1. CASE UNCHANGED <<runVars, browserVars>>
    BY <1>0, <2>1 DEF runVars, browserVars
  <2>2. CASE OpenPage(t)
    BY <1>0, <2>2 DEF OpenPage, runVars
  <2>3. CASE BasicRequest(t)
    <3>1. CASE Exceeds(t)
      BY <1>0, <2>3, <3>1 DEF BasicRequest, Exceeds, browserVars
    <3>2. ASSUME requests[RunOf[t]] < MaxRequests,
                 requests' = [requests EXCEPT ![RunOf[t]] = @ + 1],
                 issued' = [issued EXCEPT ![RunOf[t]] = @ + 1]
          PROVE  BudgetInv'
      <4>1. UNCHANGED <<phase, hops>> /\ RunOf[t] \in Runs /\ MaxRequests \in Nat
        BY <2>3, RunAssumption, LimitsAssumption DEF BasicRequest, browserVars
      <4>2. \A q \in Runs : Held(q)' = Held(q)
        BY <4>1 DEF Held, Unused
      <4>3. requests' \in [Runs -> Nat] /\ issued' \in [Runs -> Nat]
        BY <3>2, <4>1 DEF BudgetInv
      <4>4. ASSUME NEW q \in Runs
            PROVE  requests'[q] = issued'[q] + Cardinality(Held(q)') /\ requests'[q] <= MaxRequests
        <5>1. /\ requests[q] \in Nat /\ issued[q] \in Nat /\ Cardinality(Held(q)) \in Nat
              /\ requests[q] = issued[q] + Cardinality(Held(q)) /\ requests[q] <= MaxRequests
          BY HeldIsFinite DEF BudgetInv, BudgetCoversRequests
        <5> QED BY <3>2, <4>1, <4>2, <5>1 DEF BudgetInv
      <4> QED BY <4>1, <4>3, <4>4 DEF BudgetInv, BudgetCoversRequests
    <3> QED BY <2>3, <3>1, <3>2 DEF BasicRequest
  <2> QED BY <1>6, <2>1, <2>2, <2>3 DEF LimiterStep, LimiterMoves, LimiterReturns
<1>7. ASSUME NEW t \in Targets, Unwind(t) PROVE BudgetInv'
  BY <1>0, <1>7 DEF Unwind, runVars
<1>8. ASSUME NEW d \in Domains, Time(d) PROVE BudgetInv'
  BY <1>0, <1>8 DEF Time, CircuitTime, LimiterTime, runVars, browserVars
<1> QED BY <1>1, <1>2, <1>3, <1>4, <1>5, <1>6, <1>7, <1>8 DEF Next

-----------------------------------------------------------------------------
(* The process starts with nothing in use.                                 *)
LEMMA InitScrapes ==
  ASSUME Init
  PROVE  ScrapeInv
<1> USE DEF Init
<1>1. LimiterInv
  <2>1. \A h \in Domains : UsersOf(h) = {}
    BY DEF LimiterInit, UsersOf
  <2>2. UsesAreCounted
    <3>1. \A h \in Domains : Cardinality(UsersOf(h)) = 0 /\ users[h] = 0
      BY <2>1, FS_EmptySet DEF LimiterInit
    <3> QED BY <3>1 DEF UsesAreCounted
  <2> QED BY <2>2, DomainAssumption DEF LimiterInv, LimiterInit, LimiterTypeOK, Waits, LockIsEntry, EntriesDiffer,
          QueueIsOrdered, OnePacerPerDomain
<1>2. ProbeInv
  <2>1. NoCircuit \in CircuitType /\ NoCircuit.state = "none"
    BY FailuresAssumption DEF NoCircuit, CircuitType
  <2> QED BY <2>1 DEF ProbeInv, ProbeIsHeld
<1>3. PermitInv
  BY FS_EmptySet, LimitsAssumption DEF PermitInv, Steps
<1>4. BudgetInv
  <2>1. MaxRedirects \in Nat /\ MaxRequests \in Nat
    BY LimitsAssumption
  <2>2. \A r \in Runs : Held(r) = {}
    BY DEF Held, Unused, Holding
  <2>3. \A r \in Runs : requests[r] = 0 /\ issued[r] = 0 /\ Cardinality(Held(r)) = 0
    BY <2>2, FS_EmptySet
  <2>4. BudgetCoversRequests
    BY <2>1, <2>3 DEF BudgetCoversRequests
  <2> QED BY <2>1, <2>4 DEF BudgetInv, Phases
<1>5. TaskInv
  <2>1. ASSUME NEW t \in Targets PROVE MaxAttempts[RunOf[t]] \in Nat \ {0} /\ MaxPages[t] \in Nat \ {0}
    BY RunAssumption, LimitsAssumption
  <2>2. ASSUME NEW r \in Runs PROVE MaxLaunches[r] \in Nat
    BY LimitsAssumption
  <2>3. \A t \in Targets : attempt[t] \in 1 .. MaxAttempts[RunOf[t]] /\ got[t] < MaxPages[t]
    BY <2>1
  <2>4. \A r \in Runs : launches[r] <= MaxLaunches[r]
    BY <2>2
  <2> QED BY <2>3, <2>4 DEF TaskInv
<1> QED BY <1>1, <1>2, <1>3, <1>4, <1>5 DEF ScrapeInv

(* The invariant of the scraping engine.                                   *)
THEOREM ScrapeInvariant == Spec => []ScrapeInv
<1>1. Init => ScrapeInv
  BY InitScrapes
<1>2. ScrapeInv /\ [Next]_vars => ScrapeInv'
  <2> SUFFICES ASSUME ScrapeInv, [Next]_vars PROVE ScrapeInv'
    OBVIOUS
  <2>1. LimiterInv'
    BY EngineCallsLimiter, LimiterKeepsInv DEF ScrapeInv
  <2>2. ProbeInv'
    BY StepKeepsProbes DEF ScrapeInv
  <2>3. PermitInv'
    BY StepKeepsPermits DEF ScrapeInv
  <2>4. BudgetInv'
    BY StepKeepsBudget DEF ScrapeInv
  <2>5. TaskInv'
    BY StepKeepsTasks DEF ScrapeInv
  <2> QED BY <2>1, <2>2, <2>3, <2>4, <2>5 DEF ScrapeInv
<1> QED BY <1>1, <1>2, PTL DEF Spec

(* A circuit is half open exactly while one unfinished target holds the    *)
(* probe of its current generation (CircuitBreaker.check, record_success,  *)
(* record_failure and abort_probe), whatever order results, cancellations  *)
(* and evictions come in; and every variable has its type.                 *)
THEOREM EngineInvHolds == Spec => []EngineInv
<1>1. ScrapeInv => EngineInv
  <2> SUFFICES ASSUME ScrapeInv PROVE EngineInv
    OBVIOUS
  <2>1. requests \in [Runs -> 0 .. MaxRequests] /\ issued \in [Runs -> 0 .. MaxRequests]
    <3>1. ASSUME NEW r \in Runs PROVE requests[r] \in 0 .. MaxRequests /\ issued[r] \in 0 .. MaxRequests
      <4>1. /\ requests[r] \in Nat /\ issued[r] \in Nat /\ Cardinality(Held(r)) \in Nat
            /\ requests[r] = issued[r] + Cardinality(Held(r)) /\ requests[r] <= MaxRequests
        BY HeldIsFinite DEF ScrapeInv, BudgetInv, BudgetCoversRequests
      <4>2. MaxRequests \in Nat
        BY LimitsAssumption
      <4> QED BY <4>1, <4>2
    <3> QED BY <3>1 DEF ScrapeInv, BudgetInv
  <2>2. LimiterTypeOK /\ circuits \in [Domains -> CircuitType] /\ probe \in [Targets -> Nat] /\ ProbeIsHeld
    BY DEF ScrapeInv, LimiterInv, ProbeInv
  <2>3. /\ run \in [Runs -> {"over", "running", "cancelled", "exhausted"}] /\ pc \in [Targets -> Steps]
        /\ slots \subseteq Targets /\ live \subseteq Targets
    BY RunAssumption DEF ScrapeInv, PermitInv
  <2>4. phase \in [Chains -> Phases] /\ hops \in [Chains -> 0 .. MaxRedirects + 1] /\ TaskInv
    BY DEF ScrapeInv, BudgetInv
  <2> QED BY <2>1, <2>2, <2>3, <2>4 DEF EngineInv, EngineTypeOK, TaskInv
<1> QED BY <1>1, ScrapeInvariant, PTL

(* At most one caller at a time sleeps out the interval of a domain        *)
(* (LocalDomainRateLimiter.acquire), through eviction and expiry of the    *)
(* domain's lock, a full table and cancelled waits.                        *)
THEOREM OnePacerHolds == Spec => []OnePacerPerDomain
<1>1. ScrapeInv => OnePacerPerDomain
  BY DEF ScrapeInv, LimiterInv
<1> QED BY <1>1, ScrapeInvariant, PTL

(* The condition and the locks of LocalDomainRateLimiter never wait for    *)
(* each other, however many callers, domains and entries there are.        *)
THEOREM LimiterNeverDeadlocksHolds == Spec => []LimiterNeverDeadlocks
<1>1. ScrapeInv => LimiterNeverDeadlocks
  BY LimiterMovesOn DEF ScrapeInv
<1> QED BY <1>1, ScrapeInvariant, PTL

(* Every browser coroutine that runs is covered by a permit of             *)
(* BrowserExecutionLimiter, and no more than the permits are given out.    *)
THEOREM PermitCoversBrowserHolds == Spec => []PermitCoversBrowser
<1>1. ScrapeInv => PermitCoversBrowser
  BY RunAssumption DEF ScrapeInv, PermitInv, PermitCoversBrowser
<1> QED BY <1>1, ScrapeInvariant, PTL

(* The run's budget covers every request that left for the network, and    *)
(* besides holds back exactly what the redirect chains that are not        *)
(* settled yet, or never will be, did not use (reserve_requests and        *)
(* settle_requests of common/budgets.py, called by the route handlers,     *)
(* the settling futures and the end of a page in browser_session.py), for  *)
(* any number of requests a page handles at the same time.                 *)
THEOREM BudgetCoversRequestsHolds == Spec => []BudgetCoversRequests
<1>1. ScrapeInv => BudgetCoversRequests
  BY DEF ScrapeInv, BudgetInv
<1> QED BY <1>1, ScrapeInvariant, PTL
=============================================================================
