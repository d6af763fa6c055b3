---------------------------- MODULE RateLimiter ----------------------------
(***************************************************************************)
(* LocalDomainRateLimiter of engine/rate_limiter.py: one lock per domain   *)
(* in a bounded table, and one condition (_state_condition) that guards    *)
(* the table.  Only a caller that waits for a lock while it is inside the  *)
(* condition ("queueC") holds the condition across an await, so nobody     *)
(* else appears as its owner.                                              *)
(*                                                                         *)
(* A caller (a target) waits                                               *)
(*    cond    for the condition, on its way in                             *)
(*    sat     for a notification: the table is full of locks in use        *)
(*    queue   for a lock somebody holds, outside the condition             *)
(*    queueC  for a lock that is free but promised, inside the condition   *)
(*    pace    holds the lock and sleeps out the interval                   *)
(*    drop    for the condition, on its way out, to give up its use count  *)
(* A lock is a number, so that two locks of one domain can be told apart.  *)
(***************************************************************************)
EXTENDS Sites

CONSTANT MaxEntries    \* max_domains

ASSUME EntriesAssumption == MaxEntries \in Nat \ {0}

VARIABLES
    entry,     \* _locks: the lock of a host, 0 without
    users,     \* _domain_users
    at,        \* where a caller waits, "out" when it does not
    host,      \* the domain it called acquire for, its own when it is out
    lockOf,    \* the lock a caller waits for or holds, 0 without
    ahead      \* the callers queued earlier for the lock a caller is queued for

limiterVars == <<entry, users, at, host, lockOf, ahead>>

Waits == {"out", "cond", "sat", "queue", "queueC", "pace", "drop"}

Locks == 1 .. Cardinality(Targets) + Cardinality(Domains)

LimiterInit ==
    /\ entry = [h \in Domains |-> 0]
    /\ users = [h \in Domains |-> 0]
    /\ at = [c \in Targets |-> "out"]
    /\ host = DomainOf
    /\ lockOf = [c \in Targets |-> 0]
    /\ ahead = [c \in Targets |-> {}]

LimiterTypeOK ==
    /\ entry \in [Domains -> Locks \cup {0}]
    /\ users \in [Domains -> Nat]
    /\ at \in [Targets -> Waits]
    /\ host \in [Targets -> Domains]
    /\ lockOf \in [Targets -> Locks \cup {0}]
    /\ ahead \in [Targets -> SUBSET Targets]

ConditionFree == \A c \in Targets : at[c] # "queueC"
Locked(l) == \E c \in Targets : at[c] \in {"pace", "drop"} /\ lockOf[c] = l
QueuedFor(l) == {c \in Targets : at[c] \in {"queue", "queueC"} /\ lockOf[c] = l}
Promised(l) == QueuedFor(l) # {}
FirstFor(c) == ahead[c] = {}
Without(c) == [x \in Targets |-> IF x = c THEN {} ELSE ahead[x] \ {c}]

UnusedLock ==
    CHOOSE l \in Locks :
        /\ \A h \in Domains : entry[h] # l
        /\ \A c \in Targets : lockOf[c] # l

(* Mutant: eviction looks at the lock only, not at the callers queued.     *)
IdleUnlocked(h) == entry[h] # 0 /\ ~ Locked(entry[h])

(* Entries that eviction and expiry may take.                              *)
Idle(h) == entry[h] # 0 /\ ~ Locked(entry[h]) /\ users[h] = 0
Full == Cardinality({h \in Domains : entry[h] # 0}) >= MaxEntries

(* _acquire_domain_lock inside the condition.  The code evicts the idle    *)
(* entry with the oldest request; here any idle one.                       *)
Join(c, h) ==
    /\ entry[h] # 0
    /\ users' = [users EXCEPT ![h] = @ + 1]
    /\ lockOf' = [lockOf EXCEPT ![c] = entry[h]]
    /\ at' = [at EXCEPT ![c] = IF Locked(entry[h]) THEN "queue"
                               ELSE IF Promised(entry[h]) THEN "queueC" ELSE "pace"]
    /\ ahead' = IF Locked(entry[h]) \/ Promised(entry[h])
                THEN [ahead EXCEPT ![c] = QueuedFor(entry[h])] ELSE ahead
    /\ UNCHANGED entry

Saturated(c, h) ==
    /\ entry[h] = 0
    /\ Full
    /\ \A x \in Domains : ~ Idle(x)
    /\ at' = [at EXCEPT ![c] = "sat"]
    /\ UNCHANGED <<entry, users, lockOf, ahead>>

Create(c, h) ==
    /\ entry[h] = 0
    /\ \E gone \in IF Full THEN {{x} : x \in {y \in Domains : Idle(y)}} ELSE {{}} :
        /\ entry' = [x \in Domains |-> CASE x = h -> UnusedLock
                                       [] x \in gone -> 0
                                       [] OTHER -> entry[x]]
        /\ users' = [x \in Domains |-> CASE x = h -> 1
                                       [] x \in gone -> 0
                                       [] OTHER -> users[x]]
    /\ lockOf' = [lockOf EXCEPT ![c] = UnusedLock]
    /\ at' = [at EXCEPT ![c] = "pace"]
    /\ UNCHANGED ahead

Enter(c, h) == Join(c, h) \/ Saturated(c, h) \/ Create(c, h)

(* acquire(domain) with an interval to keep: a caller that finds the       *)
(* condition taken waits for it.  A caller with no interval to keep        *)
(* returns at once and is none of the limiter's.                           *)
Acquire(c, h) ==
    /\ at[c] = "out"
    /\ host' = [host EXCEPT ![c] = h]
    /\ \/ ConditionFree /\ Enter(c, h)
       \/ /\ ~ ConditionFree
          /\ at' = [at EXCEPT ![c] = "cond"]
          /\ UNCHANGED <<entry, users, lockOf, ahead>>

GetsCondition(c) ==
    /\ at[c] = "cond"
    /\ ConditionFree
    /\ Enter(c, host[c])
    /\ UNCHANGED host

(* The oldest waiter of a free lock takes it.                              *)
GetsLock(c) ==
    /\ at[c] \in {"queue", "queueC"}
    /\ ~ Locked(lockOf[c])
    /\ FirstFor(c)
    /\ at' = [at EXCEPT ![c] = "pace"]
    /\ ahead' = Without(c)
    /\ UNCHANGED <<entry, users, host, lockOf>>

(* The use count is given up inside the condition, and everybody who found *)
(* the table full looks again.                                             *)
GiveUpUse(c) ==
    /\ users' = [users EXCEPT ![host[c]] = @ - 1]
    /\ at' = [x \in Targets |-> IF x = c THEN "out"
                                ELSE IF at[x] = "sat" THEN "cond" ELSE at[x]]
    /\ host' = [host EXCEPT ![c] = DomainOf[c]]
    /\ lockOf' = [lockOf EXCEPT ![c] = 0]
    /\ ahead' = Without(c)
    /\ UNCHANGED entry

(* Mutant: the use count is given up first, the lock afterwards.           *)
LetGoLast(c) ==
    \/ ConditionFree /\ GiveUpUse(c)
    \/ /\ ~ ConditionFree
       /\ at' = [at EXCEPT ![c] = "drop"]
       /\ UNCHANGED <<entry, users, host, lockOf, ahead>>

(* The finally of acquire, and the handler of a cancelled wait: the lock   *)
(* is let go of first.                                                     *)
LetGo(c) ==
    \/ ConditionFree /\ GiveUpUse(c)
    \/ /\ ~ ConditionFree
       /\ at' = [at EXCEPT ![c] = "drop"]
       /\ lockOf' = [lockOf EXCEPT ![c] = 0]
       /\ ahead' = Without(c)
       /\ UNCHANGED <<entry, users, host>>

(* The interval has passed: the caller goes on with its request.           *)
Paced(c) == at[c] = "pace" /\ LetGo(c)

Drops(c) == at[c] = "drop" /\ ConditionFree /\ GiveUpUse(c)

(* acquire is cancelled.  Inside the condition (queueC), and on the way    *)
(* out (drop), nothing gives the use count back.                           *)
Leaves(c) ==
    /\ at' = [at EXCEPT ![c] = "out"]
    /\ host' = [host EXCEPT ![c] = DomainOf[c]]
    /\ lockOf' = [lockOf EXCEPT ![c] = 0]
    /\ ahead' = Without(c)
    /\ UNCHANGED <<entry, users>>

CancelAcquire(c) ==
    \/ at[c] \in {"cond", "sat", "queueC", "drop"} /\ Leaves(c)
    \/ at[c] \in {"queue", "pace"} /\ LetGo(c)

(* _prune_stale_domains: an entry nobody used for the retention time.      *)
PruneStale(h) ==
    /\ Idle(h)
    /\ entry' = [entry EXCEPT ![h] = 0]
    /\ UNCHANGED <<users, at, host, lockOf, ahead>>
=============================================================================
