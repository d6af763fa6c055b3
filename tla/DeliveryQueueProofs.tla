------------------------- MODULE DeliveryQueueProofs -------------------------
(***************************************************************************)
(* What TLAPS proves of DeliveryQueue.tla for any finite set of runs, any  *)
(* priorities, slots and orphan limit and any number of faults: the safety *)
(* of the queue under cancellation, shutdown and death, the bound of the   *)
(* weighted policy, and that the pool implements the contract of           *)
(* Delivery.tla.                                                           *)
(*                                                                         *)
(* The inductive invariant ties the Redis keys of a run together: a result *)
(* excludes every other key, a payload is in a queue, and a start that has *)
(* checked its run finds it without a task however long it takes.          *)
(***************************************************************************)
EXTENDS DeliveryQueue, FiniteSetTheorems, TLAPS

(* Each intake queue holds runs of its priority, in a total order.         *)
IntakeIsOrdered ==
    \A p \in PRIORITIES :
        /\ \A r \in intake[p] : p = PriorityOf[r]
        /\ \A r, s \in intake[p] : r = s \/ r \in ahead[s] \/ s \in ahead[r]

(* A result excludes the other keys; a payload and its member go together. *)
KeysAgree(r) ==
    /\ result[r] # "none" => r \notin payload /\ r \notin exec /\ r \notin progress
    /\ r \in payload => InQueue(r)
    /\ r \in exec => ~InIntake(r)

(* A task keeps its key, and one that was checked has not started.         *)
TaskIsSound(r) ==
    /\ task[r] # "none" => r \in progress /\ result[r] = "none"
    /\ r \in poll.checked => task[r] = "none" /\ result[r] = "none"

(* What cancel_run concluded stays so until the run is enqueued again.     *)
CancelIsSound(r) ==
    /\ cancel[r] \in Quiescent => r \notin payload /\ task[r] \in {"none", "starting"}
    /\ cancel[r] = "cancelled" => result[r] # "none"

(* The room an admission counted is still there, and so is the slot of a   *)
(* start; there is no poll and no task where there is no process.          *)
PollHasRoom ==
    /\ Cardinality(exec) <= MaxJobs
    /\ poll.pc = "admit" => poll.room >= 1 /\ Cardinality(exec) + poll.room <= MaxJobs
SlotIsFree ==
    /\ Cardinality(Live) <= MaxJobs
    /\ poll.pc = "set" => Cardinality(Live) < MaxJobs
StopIsSound ==
    /\ poll.pc # "set" => poll.checked = {}
    /\ mode \in {"closing", "closed", "stuck", "down"} => poll = Idle
    /\ mode = "down" => Live = {}

(* Turns since the policy last preferred the watched priority.             *)
Since ==
    [high |-> <<3, 0, 0, 0, 0, 1, 2>>, normal |-> <<1, 2, 3, 4, 5, 0, 0>>,
     low |-> <<0, 1, 2, 3, 4, 5, 6>>][Watched][cursor]
TurnsAreCounted == bypassed <= Since

RunInv(r) == KeysAgree(r) /\ TaskIsSound(r) /\ CancelIsSound(r)

PoolInv ==
    /\ QueueTypeOK /\ IntakeIsOrdered /\ PollHasRoom /\ SlotIsFree /\ StopIsSound
    /\ TurnsAreCounted
    /\ \A r \in Runs : RunInv(r)

-----------------------------------------------------------------------------
(* Facts about counts and types that the actions share.                    *)

(* The sets that are counted are finite.                                   *)
LEMMA CountsAreNumbers ==
  ASSUME QueueTypeOK
  PROVE  /\ IsFiniteSet(exec) /\ Cardinality(exec) \in Nat
         /\ IsFiniteSet(Live) /\ Cardinality(Live) \in Nat
<1>1. IsFiniteSet(exec) /\ IsFiniteSet(Live)
  BY RunsAssumption, FS_Subset DEF QueueTypeOK, Live
<1> QED BY <1>1, FS_CardinalityType

(* Members that leave the execution queue make room.                       *)
LEMMA ExecShrinks ==
  ASSUME QueueTypeOK, exec' \subseteq exec
  PROVE  Cardinality(exec') \in Nat /\ Cardinality(exec') <= Cardinality(exec)
<1>1. IsFiniteSet(exec)
  BY CountsAreNumbers
<1>2. IsFiniteSet(exec') /\ Cardinality(exec') <= Cardinality(exec)
  BY <1>1, FS_Subset
<1> QED BY <1>2, FS_CardinalityType

(* Tasks that end free their slots.                                        *)
LEMMA LiveShrinks ==
  ASSUME QueueTypeOK, Live' \subseteq Live
  PROVE  Cardinality(Live') \in Nat /\ Cardinality(Live') <= Cardinality(Live)
<1>1. IsFiniteSet(Live)
  BY CountsAreNumbers
<1>2. IsFiniteSet(Live') /\ Cardinality(Live') <= Cardinality(Live)
  BY <1>1, FS_Subset
<1> QED BY <1>2, FS_CardinalityType

(* Only an admission and the count before it change the room of a poll.    *)
LEMMA RoomIsKept ==
  ASSUME QueueTypeOK, QueueTypeOK', PollHasRoom, exec' \subseteq exec,
         poll'.pc = "admit" => poll.pc = "admit" /\ poll'.room = poll.room
  PROVE  PollHasRoom'
<1>1. Cardinality(exec') \in Nat /\ Cardinality(exec') <= Cardinality(exec)
  BY ExecShrinks
<1>2. Cardinality(exec) \in Nat /\ poll.room \in Nat
  BY CountsAreNumbers, JobsAssumption DEF QueueTypeOK, PollState
<1> QED BY <1>1, <1>2, JobsAssumption DEF PollHasRoom

(* Only a start takes a slot, and it has looked for one.                   *)
LEMMA SlotIsKept ==
  ASSUME QueueTypeOK, SlotIsFree, Live' \subseteq Live,
         poll'.pc = "set" => poll.pc = "set" \/ Cardinality(Live) < MaxJobs
  PROVE  SlotIsFree'
<1>1. Cardinality(Live') \in Nat /\ Cardinality(Live') <= Cardinality(Live)
  BY LiveShrinks
<1> QED BY <1>1, CountsAreNumbers, JobsAssumption DEF SlotIsFree

-----------------------------------------------------------------------------
(* One lemma per action.                                                   *)

(* A delivery is enqueued.                                                 *)
LEMMA EnqueueKeepsInv ==
  ASSUME PoolInv, NEW r \in Runs, Enqueue(r)
  PROVE  PoolInv'
<1> USE DEF PoolInv, Enqueue, PutLast, workerVars, stopVars
<1>1. QueueTypeOK'
  BY FaultsAssumption, JobsAssumption, PriorityAssumption DEF QueueTypeOK, PollState, CancelState, Quiescent
<1>2. IntakeIsOrdered'
  BY PriorityAssumption DEF IntakeIsOrdered, QueueTypeOK
<1>3. PollHasRoom'
  <2>1. exec' \subseteq exec /\ (poll'.pc = "admit" => poll.pc = "admit" /\ poll'.room = poll.room)
    BY DEF QueueTypeOK, PollState
  <2> QED BY <1>1, <2>1, RoomIsKept
<1>4. SlotIsFree'
  <2>1. Live' \subseteq Live /\ (poll'.pc = "set" => poll.pc = "set" \/ Cardinality(Live) < MaxJobs)
    BY CountsAreNumbers, JobsAssumption DEF Live, QueueTypeOK, PollState
  <2> QED BY <1>1, <2>1, SlotIsKept
<1>5. StopIsSound'
  BY DEF StopIsSound, QueueTypeOK, PollState, Live, Idle
<1>6. TurnsAreCounted'
  BY DEF TurnsAreCounted, Since
<1>7. ASSUME NEW q \in Runs PROVE RunInv(q)'
  BY PriorityAssumption, ZenonT(60) DEF RunInv, KeysAgree, TaskIsSound, CancelIsSound, QueueTypeOK,
      PollState, InQueue, InIntake, Quiescent
<1> QED BY <1>1, <1>2, <1>3, <1>4, <1>5, <1>6, <1>7

(* A payload expires.                                                      *)
LEMMA ExpirePayloadKeepsInv ==
  ASSUME PoolInv, NEW r \in Runs, ExpirePayload(r)
  PROVE  PoolInv'
<1> USE DEF PoolInv, ExpirePayload, Fault, ExpireFrame, workerVars, stopVars
<1>1. QueueTypeOK'
  BY FaultsAssumption, JobsAssumption, PriorityAssumption DEF QueueTypeOK, PollState, CancelState, Quiescent
<1>2. IntakeIsOrdered'
  BY PriorityAssumption DEF IntakeIsOrdered, QueueTypeOK
<1>3. PollHasRoom'
  <2>1. exec' \subseteq exec /\ (poll'.pc = "admit" => poll.pc = "admit" /\ poll'.room = poll.room)
    BY DEF QueueTypeOK, PollState
  <2> QED BY <1>1, <2>1, RoomIsKept
<1>4. SlotIsFree'
  <2>1. Live' \subseteq Live /\ (poll'.pc = "set" => poll.pc = "set" \/ Cardinality(Live) < MaxJobs)
    BY CountsAreNumbers, JobsAssumption DEF Live, QueueTypeOK, PollState
  <2> QED BY <1>1, <2>1, SlotIsKept
<1>5. StopIsSound'
  BY DEF StopIsSound, QueueTypeOK, PollState, Live, Idle
<1>6. TurnsAreCounted'
  BY DEF TurnsAreCounted, Since
<1>7. ASSUME NEW q \in Runs PROVE RunInv(q)'
  BY PriorityAssumption DEF RunInv, KeysAgree, TaskIsSound, CancelIsSound, QueueTypeOK,
      PollState, InQueue, InIntake, Quiescent
<1> QED BY <1>1, <1>2, <1>3, <1>4, <1>5, <1>6, <1>7

(* A result expires.                                                       *)
LEMMA ExpireResultKeepsInv ==
  ASSUME PoolInv, NEW r \in Runs, ExpireResult(r)
  PROVE  PoolInv'
<1> USE DEF PoolInv, ExpireResult, ExpireFrame, workerVars, stopVars
<1>1. QueueTypeOK'
  BY FaultsAssumption, JobsAssumption, PriorityAssumption DEF QueueTypeOK, PollState, CancelState, Quiescent
<1>2. IntakeIsOrdered'
  BY PriorityAssumption DEF IntakeIsOrdered, QueueTypeOK
<1>3. PollHasRoom'
  <2>1. exec' \subseteq exec /\ (poll'.pc = "admit" => poll.pc = "admit" /\ poll'.room = poll.room)
    BY DEF QueueTypeOK, PollState
  <2> QED BY <1>1, <2>1, RoomIsKept
<1>4. SlotIsFree'
  <2>1. Live' \subseteq Live /\ (poll'.pc = "set" => poll.pc = "set" \/ Cardinality(Live) < MaxJobs)
    BY CountsAreNumbers, JobsAssumption DEF Live, QueueTypeOK, PollState
  <2> QED BY <1>1, <2>1, SlotIsKept
<1>5. StopIsSound'
  BY DEF StopIsSound, QueueTypeOK, PollState, Live, Idle
<1>6. TurnsAreCounted'
  BY DEF TurnsAreCounted, Since
<1>7. ASSUME NEW q \in Runs PROVE RunInv(q)'
  BY PriorityAssumption DEF RunInv, KeysAgree, TaskIsSound, CancelIsSound, QueueTypeOK,
      PollState, InQueue, InIntake, Quiescent
<1> QED BY <1>1, <1>2, <1>3, <1>4, <1>5, <1>6, <1>7

(* An in-progress key expires.                                             *)
LEMMA ExpireProgressKeepsInv ==
  ASSUME PoolInv, NEW r \in Runs, ExpireProgress(r)
  PROVE  PoolInv'
<1> USE DEF PoolInv, ExpireProgress, ExpireFrame, workerVars, stopVars
<1>1. QueueTypeOK'
  BY FaultsAssumption, JobsAssumption, PriorityAssumption DEF QueueTypeOK, PollState, CancelState, Quiescent
<1>2. IntakeIsOrdered'
  BY PriorityAssumption DEF IntakeIsOrdered, QueueTypeOK
<1>3. PollHasRoom'
  <2>1. exec' \subseteq exec /\ (poll'.pc = "admit" => poll.pc = "admit" /\ poll'.room = poll.room)
    BY DEF QueueTypeOK, PollState
  <2> QED BY <1>1, <2>1, RoomIsKept
<1>4. SlotIsFree'
  <2>1. Live' \subseteq Live /\ (poll'.pc = "set" => poll.pc = "set" \/ Cardinality(Live) < MaxJobs)
    BY CountsAreNumbers, JobsAssumption DEF Live, QueueTypeOK, PollState
  <2> QED BY <1>1, <2>1, SlotIsKept
<1>5. StopIsSound'
  BY DEF StopIsSound, QueueTypeOK, PollState, Live, Idle
<1>6. TurnsAreCounted'
  BY DEF TurnsAreCounted, Since
<1>7. ASSUME NEW q \in Runs PROVE RunInv(q)'
  BY PriorityAssumption DEF RunInv, KeysAgree, TaskIsSound, CancelIsSound, QueueTypeOK,
      PollState, InQueue, InIntake, Quiescent
<1> QED BY <1>1, <1>2, <1>3, <1>4, <1>5, <1>6, <1>7

(* A poll begins.                                                          *)
LEMMA PollBeginKeepsInv ==
  ASSUME PoolInv, NEW memory \in BOOLEAN, PollBegin(memory)
  PROVE  PoolInv'
<1> USE DEF PoolInv, PollBegin, Idle, PollFrame, stopVars
<1>1. QueueTypeOK'
  <2>1. PICK pc \in {"count", "read"} : poll' = [Idle EXCEPT !.pc = pc, !.memory = memory]
    OBVIOUS
  <2>2. poll' \in PollState
    <3>1. poll' = [pc |-> pc, memory |-> memory, room |-> 0, ids |-> {}, checked |-> {}]
      BY <2>1
    <3>2. 0 \in 0..MaxJobs
      BY JobsAssumption
    <3> QED BY <3>1, <3>2 DEF PollState
  <2> QED BY <2>2 DEF QueueTypeOK
<1>2. IntakeIsOrdered'
  BY PriorityAssumption DEF IntakeIsOrdered, QueueTypeOK
<1>3. PollHasRoom'
  <2>1. exec' \subseteq exec /\ (poll'.pc = "admit" => poll.pc = "admit" /\ poll'.room = poll.room)
    BY DEF QueueTypeOK, PollState
  <2> QED BY <1>1, <2>1, RoomIsKept
<1>4. SlotIsFree'
  <2>1. Live' \subseteq Live /\ (poll'.pc = "set" => poll.pc = "set" \/ Cardinality(Live) < MaxJobs)
    BY CountsAreNumbers, JobsAssumption DEF Live, QueueTypeOK, PollState
  <2> QED BY <1>1, <2>1, SlotIsKept
<1>5. StopIsSound'
  BY DEF StopIsSound, QueueTypeOK, PollState, Live, Idle
<1>6. TurnsAreCounted'
  BY DEF TurnsAreCounted, Since
<1>7. ASSUME NEW q \in Runs PROVE RunInv(q)'
  BY PriorityAssumption DEF RunInv, KeysAgree, TaskIsSound, CancelIsSound, QueueTypeOK,
      PollState, InQueue, InIntake, Quiescent
<1> QED BY <1>1, <1>2, <1>3, <1>4, <1>5, <1>6, <1>7

(* A poll counts its room.                                                 *)
LEMMA PollCountKeepsInv ==
  ASSUME PoolInv, PollCount
  PROVE  PoolInv'
<1> USE DEF PoolInv, PollCount, PollFrame, stopVars
<1>1. QueueTypeOK'
  <2>1. poll' \in PollState
    <3> DEFINE room == IF Cardinality(exec) < MaxJobs THEN MaxJobs - Cardinality(exec) ELSE 0
    <3>1. room \in 0..MaxJobs
      BY CountsAreNumbers, JobsAssumption
    <3>2. poll' = [poll EXCEPT !.pc = IF room = 0 THEN "read" ELSE "admit", !.room = room]
      OBVIOUS
    <3> HIDE DEF room
    <3> QED BY <3>1, <3>2 DEF QueueTypeOK, PollState
  <2> QED BY <2>1 DEF QueueTypeOK
<1>2. IntakeIsOrdered'
  BY PriorityAssumption DEF IntakeIsOrdered, QueueTypeOK
<1>3. PollHasRoom'
  <2>1. Cardinality(exec') = Cardinality(exec) /\ Cardinality(exec) \in Nat
    BY CountsAreNumbers
  <2> QED BY <2>1, JobsAssumption DEF PollHasRoom, QueueTypeOK, PollState
<1>4. SlotIsFree'
  <2>1. Live' \subseteq Live /\ (poll'.pc = "set" => poll.pc = "set" \/ Cardinality(Live) < MaxJobs)
    BY CountsAreNumbers, JobsAssumption DEF Live, QueueTypeOK, PollState
  <2> QED BY <1>1, <2>1, SlotIsKept
<1>5. StopIsSound'
  BY DEF StopIsSound, QueueTypeOK, PollState, Live, Idle
<1>6. TurnsAreCounted'
  BY DEF TurnsAreCounted, Since
<1>7. ASSUME NEW q \in Runs PROVE RunInv(q)'
  BY PriorityAssumption DEF RunInv, KeysAgree, TaskIsSound, CancelIsSound, QueueTypeOK,
      PollState, InQueue, InIntake, Quiescent
<1> QED BY <1>1, <1>2, <1>3, <1>4, <1>5, <1>6, <1>7

(* A delivery is admitted, orphans are removed.                            *)
LEMMA AdmitOneKeepsInv ==
  ASSUME PoolInv, AdmitOne
  PROVE  PoolInv'
<1> USE DEF PoolInv, PollFrame, stopVars
<1> DEFINE seen == {r \in Runs : Reached(r)}
<1>a. poll.pc = "admit" /\ TakeOut(seen) /\ UNCHANGED task
  BY DEF AdmitOne
<1>b. \/ \E r \in seen \cap payload :
           /\ exec' = exec \cup {r} /\ cursor' = NextTurn /\ bypassed' = Bypassed(r)
           /\ poll' = [poll EXCEPT !.room = @ - 1, !.pc = IF poll.room = 1 THEN "read" ELSE @]
      \/ /\ seen \cap payload = {} /\ poll' = [poll EXCEPT !.pc = "read", !.room = 0]
         /\ UNCHANGED <<exec, cursor, bypassed>>
  BY DEF AdmitOne
<1>c. UNCHANGED <<payload, progress, result, abort, cancel, faults, mode, pending, dropped>>
  BY DEF AdmitOne
<1>d. /\ poll'.checked = poll.checked /\ poll'.pc \in {"admit", "read"} /\ poll' \in PollState
      /\ poll'.pc = "admit" => poll'.room = poll.room - 1 /\ poll'.room >= 1
  <2>1. poll \in PollState /\ poll.room \in 1..MaxJobs
    BY <1>a, JobsAssumption DEF QueueTypeOK, PollState, PollHasRoom
  <2>0. 0 \in 0..MaxJobs /\ "read" # "admit"
    BY JobsAssumption
  <2>2. CASE poll' = [poll EXCEPT !.pc = "read", !.room = 0]
    BY <2>0, <2>1, <2>2 DEF PollState
  <2>3. CASE poll.room = 1 /\ poll' = [poll EXCEPT !.room = 0, !.pc = "read"]
    BY <2>0, <2>1, <2>3 DEF PollState
  <2>4. CASE poll.room # 1 /\ poll' = [poll EXCEPT !.room = poll.room - 1, !.pc = "admit"]
    <3>1. poll.room - 1 \in 0..MaxJobs /\ poll.room - 1 >= 1
      BY <2>1, <2>4, JobsAssumption
    <3> QED BY <2>1, <2>4, <3>1 DEF PollState
  <2>5. ASSUME poll' = [poll EXCEPT !.room = @ - 1, !.pc = IF poll.room = 1 THEN "read" ELSE @]
        PROVE  \/ poll.room = 1 /\ poll' = [poll EXCEPT !.room = 0, !.pc = "read"]
               \/ poll.room # 1 /\ poll' = [poll EXCEPT !.room = poll.room - 1, !.pc = "admit"]
    <3>1. CASE poll.room = 1
      <4>1. poll.room - 1 = 0
        BY <3>1
      <4> QED BY <2>5, <3>1, <4>1
    <3>2. CASE poll.room # 1
      BY <1>a, <2>5, <3>2
    <3> QED BY <3>1, <3>2
  <2> QED BY <1>b, <2>2, <2>3, <2>4, <2>5
<1>e. (\A p \in PRIORITIES : intake'[p] = intake[p] \ seen)
      /\ \A q \in Runs : ahead'[q] = IF q \in seen THEN {} ELSE ahead[q] \ seen
  BY <1>a DEF TakeOut
<1> HIDE DEF seen
<1>1. QueueTypeOK'
  <2>1. intake' \in [PRIORITIES -> SUBSET Runs] /\ ahead' \in [Runs -> SUBSET Runs]
    BY <1>a DEF TakeOut, QueueTypeOK
  <2>2. exec' \subseteq Runs
    BY <1>b DEF QueueTypeOK
  <2>3. cursor' \in 1..Len(FAIR_ADMISSION_CYCLE) /\ bypassed' \in 0..Len(FAIR_ADMISSION_CYCLE)
    BY <1>b DEF QueueTypeOK, NextTurn, Bypassed, FAIR_ADMISSION_CYCLE
  <2> QED BY <1>a, <1>c, <1>d, <2>1, <2>2, <2>3 DEF QueueTypeOK
<1>2. IntakeIsOrdered'
  <2>1. ASSUME NEW p \in PRIORITIES, NEW r \in intake'[p], NEW s \in intake'[p]
        PROVE  p = PriorityOf[r] /\ (r = s \/ r \in ahead'[s] \/ s \in ahead'[r])
    <3>1. /\ r \in intake[p] /\ s \in intake[p] /\ r \notin seen /\ s \notin seen
          /\ r \in Runs /\ s \in Runs
      BY <1>e DEF QueueTypeOK
    <3> QED BY <1>e, <3>1, ZenonT(60) DEF IntakeIsOrdered
  <2> QED BY <2>1 DEF IntakeIsOrdered
<1>3. PollHasRoom'
  <2>0. Cardinality(exec) \in Nat /\ poll.room \in Nat /\ poll'.room \in Nat
    BY <1>d, CountsAreNumbers, JobsAssumption DEF QueueTypeOK, PollState
  <2>1. CASE exec' = exec
    BY <1>a, <1>d, <2>1, <2>0, JobsAssumption DEF PollHasRoom
  <2>2. ASSUME NEW r \in Runs, r \notin exec, exec' = exec \cup {r} PROVE PollHasRoom'
    <3>1. Cardinality(exec') = Cardinality(exec) + 1
      BY <2>2, CountsAreNumbers, FS_AddElement
    <3> QED
      BY <1>a, <1>d, <2>0, <3>1, JobsAssumption DEF PollHasRoom
  <2>3. seen \cap payload \subseteq Runs
    BY DEF QueueTypeOK
  <2> QED BY <1>b, <2>1, <2>2, <2>3
<1>4. SlotIsFree'
  <2>1. Live' = Live
    BY <1>a DEF Live
  <2> QED BY <1>d, <2>1 DEF SlotIsFree
<1>5. StopIsSound'
  <2>1. Live' = Live
    BY <1>a DEF Live
  <2> QED BY <1>a, <1>c, <1>d, <2>1 DEF StopIsSound, Idle
<1>6. TurnsAreCounted'
  <2>1. CASE UNCHANGED <<exec, cursor, bypassed>>
    BY <2>1 DEF TurnsAreCounted, Since
  <2>2. ASSUME NEW r \in seen \cap payload, cursor' = NextTurn, bypassed' = Bypassed(r)
        PROVE  TurnsAreCounted'
    <3>1. Turn = Watched => bypassed' = 0
      <4> SUFFICES ASSUME Turn = Watched, PriorityOf[r] # Watched, NEW q \in intake[Watched] \cap payload
                   PROVE  FALSE
        BY <2>2 DEF Bypassed
      <4>1. r \in Runs /\ Reached(r)
        BY DEF seen
      <4>2. q \in Preceding(r)
        BY <4>1, WatchedAssumption, PriorityAssumption DEF Preceding, Before, QueueTypeOK
      <4> QED BY <4>1, <4>2 DEF Reached
    <3>2. bypassed \in Nat /\ bypassed' \in {0, bypassed, bypassed + 1}
      BY <2>2 DEF Bypassed, QueueTypeOK
    <3>3. Watched \in {"high", "normal", "low"} /\ cursor \in 1..7
      BY WatchedAssumption DEF PRIORITIES, QueueTypeOK, FAIR_ADMISSION_CYCLE
    <3>4. cursor' = (cursor % 7) + 1
      BY <2>2 DEF NextTurn, FAIR_ADMISSION_CYCLE
    <3>5. Turn # Watched => Since' = Since + 1 /\ Since \in Nat
      BY <3>3, <3>4 DEF Turn, FAIR_ADMISSION_CYCLE, Since
    <3>6. Since' \in Nat
      BY <3>3, <3>4 DEF Since
    <3> QED BY <3>1, <3>2, <3>5, <3>6 DEF TurnsAreCounted
  <2> QED BY <1>b, <2>1, <2>2
<1>7. ASSUME NEW q \in Runs PROVE RunInv(q)'
  <2>1. InIntake(q)' <=> InIntake(q) /\ q \notin seen
    BY <1>e DEF InIntake
  <2>2. ASSUME NEW r \in seen \cap payload, q \in seen \cap payload PROVE q = r
    <3>1. /\ Reached(q) /\ Reached(r) /\ q \notin Preceding(r) /\ r \notin Preceding(q)
          /\ r \in Runs
      BY <2>2 DEF seen, Reached
    <3>2. q \in intake[PriorityOf[q]] /\ r \in intake[PriorityOf[r]]
      BY <3>1 DEF Reached, InIntake, IntakeIsOrdered
    <3>3. PriorityOf[q] \in PRIORITIES /\ PriorityOf[r] \in PRIORITIES
      BY <3>1, PriorityAssumption
    <3>4. ~Before(PriorityOf[q], PriorityOf[r]) /\ ~Before(PriorityOf[r], PriorityOf[q])
      BY <3>1, <3>2, <3>3 DEF Preceding
    <3>5. PriorityOf[q] = PriorityOf[r]
      BY <3>3, <3>4 DEF Before, PRIORITIES, Place
    <3> QED BY <3>1, <3>2, <3>3, <3>5 DEF IntakeIsOrdered, Preceding
  <2>3. q \in payload => InQueue(q)'
    BY <1>b, <2>1, <2>2 DEF RunInv, KeysAgree, InQueue
  <2>4. q \in exec' => ~InIntake(q)'
    BY <1>b, <2>1 DEF RunInv, KeysAgree, InQueue
  <2>5. result[q] # "none" => q \notin exec'
    BY <1>b DEF RunInv, KeysAgree
  <2> QED BY <1>a, <1>c, <1>d, <2>3, <2>4, <2>5 DEF RunInv, KeysAgree, TaskIsSound, CancelIsSound
<1> QED BY <1>1, <1>2, <1>3, <1>4, <1>5, <1>6, <1>7

(* A poll reads the execution queue.                                       *)
LEMMA PollReadKeepsInv ==
  ASSUME PoolInv, PollRead
  PROVE  PoolInv'
<1> USE DEF PoolInv, PollRead, PollFrame, stopVars
<1>1. QueueTypeOK'
  BY FaultsAssumption, JobsAssumption, PriorityAssumption DEF QueueTypeOK, PollState, CancelState, Quiescent
<1>2. IntakeIsOrdered'
  BY PriorityAssumption DEF IntakeIsOrdered, QueueTypeOK
<1>3. PollHasRoom'
  <2>1. exec' \subseteq exec /\ (poll'.pc = "admit" => poll.pc = "admit" /\ poll'.room = poll.room)
    BY DEF QueueTypeOK, PollState
  <2> QED BY <1>1, <2>1, RoomIsKept
<1>4. SlotIsFree'
  <2>1. Live' \subseteq Live /\ (poll'.pc = "set" => poll.pc = "set" \/ Cardinality(Live) < MaxJobs)
    BY CountsAreNumbers, JobsAssumption DEF Live, QueueTypeOK, PollState
  <2> QED BY <1>1, <2>1, SlotIsKept
<1>5. StopIsSound'
  BY DEF StopIsSound, QueueTypeOK, PollState, Live, Idle
<1>6. TurnsAreCounted'
  BY DEF TurnsAreCounted, Since
<1>7. ASSUME NEW q \in Runs PROVE RunInv(q)'
  BY PriorityAssumption DEF RunInv, KeysAgree, TaskIsSound, CancelIsSound, QueueTypeOK,
      PollState, InQueue, InIntake, Quiescent
<1> QED BY <1>1, <1>2, <1>3, <1>4, <1>5, <1>6, <1>7

(* A start looks at its run.                                               *)
LEMMA StartCheckKeepsInv ==
  ASSUME PoolInv, NEW r \in Runs, StartCheck(r)
  PROVE  PoolInv'
<1> USE DEF PoolInv, StartCheck, PollFrame, stopVars
<1>1. QueueTypeOK'
  BY FaultsAssumption, JobsAssumption, PriorityAssumption DEF QueueTypeOK, PollState, CancelState, Quiescent
<1>2. IntakeIsOrdered'
  BY PriorityAssumption DEF IntakeIsOrdered, QueueTypeOK
<1>3. PollHasRoom'
  <2>1. exec' \subseteq exec /\ (poll'.pc = "admit" => poll.pc = "admit" /\ poll'.room = poll.room)
    BY DEF QueueTypeOK, PollState
  <2> QED BY <1>1, <2>1, RoomIsKept
<1>4. SlotIsFree'
  <2>1. Live' \subseteq Live /\ (poll'.pc = "set" => poll.pc = "set" \/ Cardinality(Live) < MaxJobs)
    BY CountsAreNumbers, JobsAssumption DEF Live, QueueTypeOK, PollState
  <2> QED BY <1>1, <2>1, SlotIsKept
<1>5. StopIsSound'
  <2>1. mode \notin {"closing", "closed", "stuck", "down"}
    BY DEF StopIsSound, Idle
  <2>2. poll'.pc # "set" => poll'.checked = {}
    BY DEF StopIsSound, QueueTypeOK, PollState
  <2> QED BY <2>1, <2>2 DEF StopIsSound
<1>6. TurnsAreCounted'
  BY DEF TurnsAreCounted, Since
<1>7. ASSUME NEW q \in Runs PROVE RunInv(q)'
  BY PriorityAssumption DEF RunInv, KeysAgree, TaskIsSound, CancelIsSound, QueueTypeOK,
      PollState, InQueue, InIntake, Quiescent
<1> QED BY <1>1, <1>2, <1>3, <1>4, <1>5, <1>6, <1>7

(* A start sets the in-progress key.                                       *)
LEMMA StartJobKeepsInv ==
  ASSUME PoolInv, NEW r \in Runs, StartJob(r)
  PROVE  PoolInv'
<1> USE DEF PoolInv, StartJob, stopVars
<1>1. QueueTypeOK'
  BY FaultsAssumption, JobsAssumption, PriorityAssumption, ZenonT(60) DEF QueueTypeOK, PollState, CancelState, Quiescent
<1>2. IntakeIsOrdered'
  BY PriorityAssumption DEF IntakeIsOrdered, QueueTypeOK
<1>3. PollHasRoom'
  <2>1. exec' \subseteq exec /\ (poll'.pc = "admit" => poll.pc = "admit" /\ poll'.room = poll.room)
    BY DEF QueueTypeOK, PollState
  <2> QED BY <1>1, <2>1, RoomIsKept
<1>4. SlotIsFree'
  <2>1. Live' \subseteq Live \cup {r}
    BY DEF Live, QueueTypeOK
  <2>2. IsFiniteSet(Live \cup {r}) /\ Cardinality(Live \cup {r}) <= Cardinality(Live) + 1
    <3>1. IsFiniteSet(Live) /\ Cardinality(Live) \in Nat
      BY CountsAreNumbers
    <3>2. CASE r \in Live
      <4>1. Live \cup {r} = Live
        BY <3>2
      <4> QED BY <3>1, <4>1
    <3>3. CASE r \notin Live
      <4>1. IsFiniteSet(Live \cup {r}) /\ Cardinality(Live \cup {r}) = Cardinality(Live) + 1
        BY <3>1, <3>3, FS_AddElement
      <4> QED BY <3>1, <4>1
    <3> QED BY <3>2, <3>3
  <2>3. IsFiniteSet(Live') /\ Cardinality(Live') <= Cardinality(Live \cup {r})
    BY <2>1, <2>2, FS_Subset
  <2>4. Cardinality(Live') \in Nat /\ Cardinality(Live \cup {r}) \in Nat
    BY <2>2, <2>3, FS_CardinalityType
  <2>5. poll'.pc = "start"
    BY DEF QueueTypeOK, PollState
  <2> QED BY <2>2, <2>3, <2>4, <2>5, CountsAreNumbers, JobsAssumption DEF SlotIsFree
<1>5. StopIsSound'
  BY DEF StopIsSound, QueueTypeOK, PollState, Live, Idle
<1>6. TurnsAreCounted'
  BY DEF TurnsAreCounted, Since
<1>7. ASSUME NEW q \in Runs PROVE RunInv(q)'
  BY PriorityAssumption DEF RunInv, KeysAgree, TaskIsSound, CancelIsSound, QueueTypeOK,
      PollState, InQueue, InIntake, Quiescent
<1> QED BY <1>1, <1>2, <1>3, <1>4, <1>5, <1>6, <1>7

(* A poll ends with the aborted runs.                                      *)
LEMMA PollEndKeepsInv ==
  ASSUME PoolInv, PollEnd
  PROVE  PoolInv'
<1> USE DEF PoolInv, PollEnd, Idle, stopVars
<1>1. QueueTypeOK'
  BY FaultsAssumption, JobsAssumption, PriorityAssumption DEF QueueTypeOK, PollState, CancelState, Quiescent
<1>2. IntakeIsOrdered'
  BY PriorityAssumption DEF IntakeIsOrdered, QueueTypeOK
<1>3. PollHasRoom'
  <2>1. exec' \subseteq exec /\ (poll'.pc = "admit" => poll.pc = "admit" /\ poll'.room = poll.room)
    BY DEF QueueTypeOK, PollState
  <2> QED BY <1>1, <2>1, RoomIsKept
<1>4. SlotIsFree'
  <2>1. Live' \subseteq Live /\ (poll'.pc = "set" => poll.pc = "set" \/ Cardinality(Live) < MaxJobs)
    BY CountsAreNumbers, JobsAssumption DEF Live, QueueTypeOK, PollState
  <2> QED BY <1>1, <2>1, SlotIsKept
<1>5. StopIsSound'
  BY DEF StopIsSound, QueueTypeOK, PollState, Live, Idle
<1>6. TurnsAreCounted'
  BY DEF TurnsAreCounted, Since
<1>7. ASSUME NEW q \in Runs PROVE RunInv(q)'
  BY PriorityAssumption DEF RunInv, KeysAgree, TaskIsSound, CancelIsSound, QueueTypeOK,
      PollState, InQueue, InIntake, Quiescent
<1> QED BY <1>1, <1>2, <1>3, <1>4, <1>5, <1>6, <1>7

(* A task is over.                                                         *)
LEMMA FinishedKeepsInv ==
  ASSUME PoolInv, NEW r \in Runs, NEW how \in {"done", "cancelled"}, task[r] # "none", Finished(r, how)
  PROVE  PoolInv'
<1> USE DEF PoolInv, Finished, redisVars, stopVars
<1>1. QueueTypeOK'
  BY FaultsAssumption, JobsAssumption, PriorityAssumption DEF QueueTypeOK, PollState, CancelState, Quiescent
<1>2. IntakeIsOrdered'
  BY PriorityAssumption DEF IntakeIsOrdered, QueueTypeOK
<1>3. PollHasRoom'
  <2>1. exec' \subseteq exec /\ (poll'.pc = "admit" => poll.pc = "admit" /\ poll'.room = poll.room)
    BY DEF QueueTypeOK, PollState
  <2> QED BY <1>1, <2>1, RoomIsKept
<1>4. SlotIsFree'
  <2>1. Live' \subseteq Live /\ (poll'.pc = "set" => poll.pc = "set" \/ Cardinality(Live) < MaxJobs)
    BY CountsAreNumbers, JobsAssumption DEF Live, QueueTypeOK, PollState
  <2> QED BY <1>1, <2>1, SlotIsKept
<1>5. StopIsSound'
  BY DEF StopIsSound, QueueTypeOK, PollState, Live, Idle
<1>6. TurnsAreCounted'
  BY DEF TurnsAreCounted, Since
<1>7. ASSUME NEW q \in Runs PROVE RunInv(q)'
  BY PriorityAssumption DEF RunInv, KeysAgree, TaskIsSound, CancelIsSound, QueueTypeOK,
      PollState, InQueue, InIntake, Quiescent
<1> QED BY <1>1, <1>2, <1>3, <1>4, <1>5, <1>6, <1>7

(* A task loads its payload.                                               *)
LEMMA LoadJobKeepsInv ==
  ASSUME PoolInv, NEW r \in Runs, LoadJob(r)
  PROVE  PoolInv'
<1> USE DEF PoolInv, LoadJob
<1>1. CASE ~(r \in payload /\ r \notin abort)
  BY <1>1, FinishedKeepsInv
<1>2. CASE r \in payload /\ r \notin abort
  <2> USE <1>2 DEF redisVars, stopVars
  <2>1. QueueTypeOK' /\ Live' = Live
    BY DEF QueueTypeOK, Live
  <2>2. IntakeIsOrdered' /\ PollHasRoom' /\ SlotIsFree' /\ StopIsSound' /\ TurnsAreCounted'
    BY <2>1 DEF IntakeIsOrdered, PollHasRoom, SlotIsFree, StopIsSound, TurnsAreCounted, Since
  <2>3. ASSUME NEW q \in Runs PROVE RunInv(q)'
    BY PriorityAssumption DEF RunInv, KeysAgree, TaskIsSound, CancelIsSound,
        QueueTypeOK, PollState, InQueue, InIntake, Quiescent
  <2> QED BY <2>1, <2>2, <2>3
<1> QED BY <1>1, <1>2

(* A handler returns.                                                      *)
LEMMA FinishJobKeepsInv ==
  ASSUME PoolInv, NEW r \in Runs, FinishJob(r)
  PROVE  PoolInv'
  BY FinishedKeepsInv DEF FinishJob

(* A shutdown begins.                                                      *)
LEMMA StopBeginKeepsInv ==
  ASSUME PoolInv, StopBegin
  PROVE  PoolInv'
<1> USE DEF PoolInv, StopBegin, Fault, StopFrame, redisVars
<1>1. QueueTypeOK'
  BY FaultsAssumption DEF QueueTypeOK, Live
<1>2. IntakeIsOrdered'
  BY PriorityAssumption DEF IntakeIsOrdered, QueueTypeOK
<1>3. PollHasRoom'
  <2>1. exec' \subseteq exec /\ (poll'.pc = "admit" => poll.pc = "admit" /\ poll'.room = poll.room)
    BY DEF QueueTypeOK, PollState
  <2> QED BY <1>1, <2>1, RoomIsKept
<1>4. SlotIsFree'
  <2>1. Live' \subseteq Live /\ (poll'.pc = "set" => poll.pc = "set" \/ Cardinality(Live) < MaxJobs)
    BY CountsAreNumbers, JobsAssumption DEF Live, QueueTypeOK, PollState
  <2> QED BY <1>1, <2>1, SlotIsKept
<1>5. StopIsSound'
  BY DEF StopIsSound, QueueTypeOK, PollState, Live, Idle
<1>6. TurnsAreCounted'
  BY DEF TurnsAreCounted, Since
<1>7. ASSUME NEW q \in Runs PROVE RunInv(q)'
  BY PriorityAssumption DEF RunInv, KeysAgree, TaskIsSound, CancelIsSound, QueueTypeOK,
      PollState, InQueue, InIntake, Quiescent
<1> QED BY <1>1, <1>2, <1>3, <1>4, <1>5, <1>6, <1>7

(* A shutdown cancels what runs.                                           *)
LEMMA StopCancelKeepsInv ==
  ASSUME PoolInv, StopCancel
  PROVE  PoolInv'
<1> USE DEF PoolInv, StopCancel, StopFrame, redisVars, Cancelled
<1>1. QueueTypeOK'
  BY FaultsAssumption, JobsAssumption, PriorityAssumption DEF QueueTypeOK, PollState, CancelState, Quiescent
<1>2. IntakeIsOrdered'
  BY PriorityAssumption DEF IntakeIsOrdered, QueueTypeOK
<1>3. PollHasRoom'
  <2>1. exec' \subseteq exec /\ (poll'.pc = "admit" => poll.pc = "admit" /\ poll'.room = poll.room)
    BY DEF QueueTypeOK, PollState
  <2> QED BY <1>1, <2>1, RoomIsKept
<1>4. SlotIsFree'
  <2>1. Live' \subseteq Live /\ (poll'.pc = "set" => poll.pc = "set" \/ Cardinality(Live) < MaxJobs)
    BY CountsAreNumbers, JobsAssumption DEF Live, QueueTypeOK, PollState
  <2> QED BY <1>1, <2>1, SlotIsKept
<1>5. StopIsSound'
  BY DEF StopIsSound, QueueTypeOK, PollState, Live, Idle
<1>6. TurnsAreCounted'
  BY DEF TurnsAreCounted, Since
<1>7. ASSUME NEW q \in Runs PROVE RunInv(q)'
  <2>1. /\ task'[q] = "none" \/ (task[q] # "none" /\ task'[q] \in {task[q], "cancelling"})
        /\ task[q] \in {"none", "starting"} => task'[q] \in {"none", "starting"}
    BY DEF QueueTypeOK, Live
  <2> QED
    BY <2>1 DEF RunInv, KeysAgree, TaskIsSound, CancelIsSound, QueueTypeOK, PollState,
        InQueue, InIntake, Quiescent
<1> QED BY <1>1, <1>2, <1>3, <1>4, <1>5, <1>6, <1>7

(* A shutdown drops the connections.                                       *)
LEMMA StopDropKeepsInv ==
  ASSUME PoolInv, StopDrop
  PROVE  PoolInv'
<1> USE DEF PoolInv, StopDrop, StopFrame, redisVars
<1>1. QueueTypeOK'
  BY FaultsAssumption, JobsAssumption, PriorityAssumption DEF QueueTypeOK, PollState, CancelState, Quiescent
<1>2. IntakeIsOrdered'
  BY PriorityAssumption DEF IntakeIsOrdered, QueueTypeOK
<1>3. PollHasRoom'
  <2>1. exec' \subseteq exec /\ (poll'.pc = "admit" => poll.pc = "admit" /\ poll'.room = poll.room)
    BY DEF QueueTypeOK, PollState
  <2> QED BY <1>1, <2>1, RoomIsKept
<1>4. SlotIsFree'
  <2>1. Live' \subseteq Live /\ (poll'.pc = "set" => poll.pc = "set" \/ Cardinality(Live) < MaxJobs)
    BY CountsAreNumbers, JobsAssumption DEF Live, QueueTypeOK, PollState
  <2> QED BY <1>1, <2>1, SlotIsKept
<1>5. StopIsSound'
  BY DEF StopIsSound, QueueTypeOK, PollState, Live, Idle
<1>6. TurnsAreCounted'
  BY DEF TurnsAreCounted, Since
<1>7. ASSUME NEW q \in Runs PROVE RunInv(q)'
  BY PriorityAssumption DEF RunInv, KeysAgree, TaskIsSound, CancelIsSound, QueueTypeOK,
      PollState, InQueue, InIntake, Quiescent
<1> QED BY <1>1, <1>2, <1>3, <1>4, <1>5, <1>6, <1>7

(* A shutdown ends the runner.                                             *)
LEMMA StopRunnerKeepsInv ==
  ASSUME PoolInv, StopRunner
  PROVE  PoolInv'
<1> USE DEF PoolInv, StopRunner, StopFrame, redisVars, Idle
<1>1. QueueTypeOK'
  BY FaultsAssumption, JobsAssumption, PriorityAssumption DEF QueueTypeOK, PollState, CancelState, Quiescent
<1>2. IntakeIsOrdered'
  BY PriorityAssumption DEF IntakeIsOrdered, QueueTypeOK
<1>3. PollHasRoom'
  <2>1. exec' \subseteq exec /\ (poll'.pc = "admit" => poll.pc = "admit" /\ poll'.room = poll.room)
    BY DEF QueueTypeOK, PollState
  <2> QED BY <1>1, <2>1, RoomIsKept
<1>4. SlotIsFree'
  <2>1. Live' \subseteq Live /\ (poll'.pc = "set" => poll.pc = "set" \/ Cardinality(Live) < MaxJobs)
    BY CountsAreNumbers, JobsAssumption DEF Live, QueueTypeOK, PollState
  <2> QED BY <1>1, <2>1, SlotIsKept
<1>5. StopIsSound'
  BY DEF StopIsSound, QueueTypeOK, PollState, Live, Idle
<1>6. TurnsAreCounted'
  BY DEF TurnsAreCounted, Since
<1>7. ASSUME NEW q \in Runs PROVE RunInv(q)'
  BY PriorityAssumption DEF RunInv, KeysAgree, TaskIsSound, CancelIsSound, QueueTypeOK,
      PollState, InQueue, InIntake, Quiescent
<1> QED BY <1>1, <1>2, <1>3, <1>4, <1>5, <1>6, <1>7

(* The worker is closed.                                                   *)
LEMMA CloseWorkerKeepsInv ==
  ASSUME PoolInv, CloseWorker
  PROVE  PoolInv'
<1> USE DEF PoolInv, CloseWorker, StopFrame, redisVars, Cancelled
<1>1. QueueTypeOK'
  BY FaultsAssumption, JobsAssumption, PriorityAssumption DEF QueueTypeOK, PollState, CancelState, Quiescent
<1>2. IntakeIsOrdered'
  BY PriorityAssumption DEF IntakeIsOrdered, QueueTypeOK
<1>3. PollHasRoom'
  <2>1. exec' \subseteq exec /\ (poll'.pc = "admit" => poll.pc = "admit" /\ poll'.room = poll.room)
    BY DEF QueueTypeOK, PollState
  <2> QED BY <1>1, <2>1, RoomIsKept
<1>4. SlotIsFree'
  <2>1. Live' \subseteq Live /\ (poll'.pc = "set" => poll.pc = "set" \/ Cardinality(Live) < MaxJobs)
    BY CountsAreNumbers, JobsAssumption DEF Live, QueueTypeOK, PollState
  <2> QED BY <1>1, <2>1, SlotIsKept
<1>5. StopIsSound'
  BY DEF StopIsSound, QueueTypeOK, PollState, Live, Idle
<1>6. TurnsAreCounted'
  BY DEF TurnsAreCounted, Since
<1>7. ASSUME NEW q \in Runs PROVE RunInv(q)'
  <2>1. /\ task'[q] = "none" \/ (task[q] # "none" /\ task'[q] \in {task[q], "cancelling"})
        /\ task[q] \in {"none", "starting"} => task'[q] \in {"none", "starting"}
    BY DEF QueueTypeOK, Live
  <2> QED
    BY <2>1 DEF RunInv, KeysAgree, TaskIsSound, CancelIsSound, QueueTypeOK, PollState,
        InQueue, InIntake, Quiescent
<1> QED BY <1>1, <1>2, <1>3, <1>4, <1>5, <1>6, <1>7

(* A close takes too long.                                                 *)
LEMMA CloseTimesOutKeepsInv ==
  ASSUME PoolInv, CloseTimesOut
  PROVE  PoolInv'
<1> USE DEF PoolInv, CloseTimesOut, StopFrame, redisVars
<1>1. QueueTypeOK'
  BY FaultsAssumption, JobsAssumption, PriorityAssumption DEF QueueTypeOK, PollState, CancelState, Quiescent
<1>2. IntakeIsOrdered'
  BY PriorityAssumption DEF IntakeIsOrdered, QueueTypeOK
<1>3. PollHasRoom'
  <2>1. exec' \subseteq exec /\ (poll'.pc = "admit" => poll.pc = "admit" /\ poll'.room = poll.room)
    BY DEF QueueTypeOK, PollState
  <2> QED BY <1>1, <2>1, RoomIsKept
<1>4. SlotIsFree'
  <2>1. Live' \subseteq Live /\ (poll'.pc = "set" => poll.pc = "set" \/ Cardinality(Live) < MaxJobs)
    BY CountsAreNumbers, JobsAssumption DEF Live, QueueTypeOK, PollState
  <2> QED BY <1>1, <2>1, SlotIsKept
<1>5. StopIsSound'
  BY DEF StopIsSound, QueueTypeOK, PollState, Live, Idle
<1>6. TurnsAreCounted'
  BY DEF TurnsAreCounted, Since
<1>7. ASSUME NEW q \in Runs PROVE RunInv(q)'
  BY PriorityAssumption DEF RunInv, KeysAgree, TaskIsSound, CancelIsSound, QueueTypeOK,
      PollState, InQueue, InIntake, Quiescent
<1> QED BY <1>1, <1>2, <1>3, <1>4, <1>5, <1>6, <1>7

(* The process dies.                                                       *)
LEMMA DieKeepsInv ==
  ASSUME PoolInv, Die
  PROVE  PoolInv'
<1> USE DEF PoolInv, Die, Fault, redisVars, Idle
<1>1. QueueTypeOK'
  <2>1. poll' \in PollState /\ faults' \in 0..MaxFaults
    BY FaultsAssumption, JobsAssumption DEF PollState, QueueTypeOK
  <2>2. cancel' \in [Runs -> CancelState]
    BY DEF QueueTypeOK, CancelState
  <2> QED BY <2>1, <2>2 DEF QueueTypeOK
<1>2. IntakeIsOrdered'
  BY PriorityAssumption DEF IntakeIsOrdered, QueueTypeOK
<1>3. PollHasRoom'
  <2>1. exec' \subseteq exec /\ (poll'.pc = "admit" => poll.pc = "admit" /\ poll'.room = poll.room)
    BY DEF QueueTypeOK, PollState
  <2> QED BY <1>1, <2>1, RoomIsKept
<1>4. SlotIsFree'
  <2>1. Live' \subseteq Live /\ (poll'.pc = "set" => poll.pc = "set" \/ Cardinality(Live) < MaxJobs)
    BY CountsAreNumbers, JobsAssumption DEF Live, QueueTypeOK, PollState
  <2> QED BY <1>1, <2>1, SlotIsKept
<1>5. StopIsSound'
  BY DEF StopIsSound, QueueTypeOK, PollState, Live, Idle
<1>6. TurnsAreCounted'
  BY DEF TurnsAreCounted, Since
<1>7. ASSUME NEW q \in Runs PROVE RunInv(q)'
  BY PriorityAssumption DEF RunInv, KeysAgree, TaskIsSound, CancelIsSound, QueueTypeOK,
      PollState, InQueue, InIntake, Quiescent
<1> QED BY <1>1, <1>2, <1>3, <1>4, <1>5, <1>6, <1>7

(* The pool starts.                                                        *)
LEMMA StartKeepsInv ==
  ASSUME PoolInv, Start
  PROVE  PoolInv'
<1> USE DEF PoolInv, Start
<1>1. QueueTypeOK'
  BY FaultsAssumption, JobsAssumption, PriorityAssumption DEF QueueTypeOK, PollState, CancelState, Quiescent
<1>2. IntakeIsOrdered'
  BY PriorityAssumption DEF IntakeIsOrdered, QueueTypeOK
<1>3. PollHasRoom'
  <2>1. exec' \subseteq exec /\ (poll'.pc = "admit" => poll.pc = "admit" /\ poll'.room = poll.room)
    BY DEF QueueTypeOK, PollState
  <2> QED BY <1>1, <2>1, RoomIsKept
<1>4. SlotIsFree'
  <2>1. Live' \subseteq Live /\ (poll'.pc = "set" => poll.pc = "set" \/ Cardinality(Live) < MaxJobs)
    BY CountsAreNumbers, JobsAssumption DEF Live, QueueTypeOK, PollState
  <2> QED BY <1>1, <2>1, SlotIsKept
<1>5. StopIsSound'
  BY DEF StopIsSound, QueueTypeOK, PollState, Live, Idle
<1>6. TurnsAreCounted'
  <2>1. Since' \in Nat
    BY WatchedAssumption DEF Since, PRIORITIES
  <2> QED BY <2>1 DEF TurnsAreCounted
<1>7. ASSUME NEW q \in Runs PROVE RunInv(q)'
  BY PriorityAssumption DEF RunInv, KeysAgree, TaskIsSound, CancelIsSound, QueueTypeOK,
      PollState, InQueue, InIntake, Quiescent, StopIsSound, Live, Idle
<1> QED BY <1>1, <1>2, <1>3, <1>4, <1>5, <1>6, <1>7

(* A cancellation inspects.                                                *)
LEMMA CancelInspectKeepsInv ==
  ASSUME PoolInv, NEW r \in Runs, CancelInspect(r)
  PROVE  PoolInv'
<1> USE DEF PoolInv, CancelInspect, CancelGoes, CancelFrame, InspectDelivery,
    workerVars, stopVars
<1>1. QueueTypeOK'
  BY FaultsAssumption, JobsAssumption, PriorityAssumption DEF QueueTypeOK, PollState, CancelState, Quiescent
<1>2. IntakeIsOrdered'
  BY PriorityAssumption DEF IntakeIsOrdered, QueueTypeOK
<1>3. PollHasRoom'
  <2>1. exec' \subseteq exec /\ (poll'.pc = "admit" => poll.pc = "admit" /\ poll'.room = poll.room)
    BY DEF QueueTypeOK, PollState
  <2> QED BY <1>1, <2>1, RoomIsKept
<1>4. SlotIsFree'
  <2>1. Live' \subseteq Live /\ (poll'.pc = "set" => poll.pc = "set" \/ Cardinality(Live) < MaxJobs)
    BY CountsAreNumbers, JobsAssumption DEF Live, QueueTypeOK, PollState
  <2> QED BY <1>1, <2>1, SlotIsKept
<1>5. StopIsSound'
  BY DEF StopIsSound, QueueTypeOK, PollState, Live, Idle
<1>6. TurnsAreCounted'
  BY DEF TurnsAreCounted, Since
<1>7. ASSUME NEW q \in Runs PROVE RunInv(q)'
  BY PriorityAssumption DEF RunInv, KeysAgree, TaskIsSound, CancelIsSound, QueueTypeOK,
      PollState, InQueue, InIntake, Quiescent
<1> QED BY <1>1, <1>2, <1>3, <1>4, <1>5, <1>6, <1>7

(* A cancellation removes.                                                 *)
LEMMA RemoveUnstartedKeepsInv ==
  ASSUME PoolInv, NEW r \in Runs, RemoveUnstarted(r)
  PROVE  PoolInv'
<1> USE DEF PoolInv, RemoveUnstarted, TakeOut, CancelGoes, CancelFrame, workerVars,
    stopVars
<1>1. QueueTypeOK'
  BY FaultsAssumption, JobsAssumption, PriorityAssumption DEF QueueTypeOK, PollState, CancelState, Quiescent
<1>2. IntakeIsOrdered'
  BY PriorityAssumption DEF IntakeIsOrdered, QueueTypeOK
<1>3. PollHasRoom'
  <2>1. exec' \subseteq exec /\ (poll'.pc = "admit" => poll.pc = "admit" /\ poll'.room = poll.room)
    BY DEF QueueTypeOK, PollState
  <2> QED BY <1>1, <2>1, RoomIsKept
<1>4. SlotIsFree'
  <2>1. Live' \subseteq Live /\ (poll'.pc = "set" => poll.pc = "set" \/ Cardinality(Live) < MaxJobs)
    BY CountsAreNumbers, JobsAssumption DEF Live, QueueTypeOK, PollState
  <2> QED BY <1>1, <2>1, SlotIsKept
<1>5. StopIsSound'
  BY DEF StopIsSound, QueueTypeOK, PollState, Live, Idle
<1>6. TurnsAreCounted'
  BY DEF TurnsAreCounted, Since
<1>7. ASSUME NEW q \in Runs PROVE RunInv(q)'
  BY PriorityAssumption DEF RunInv, KeysAgree, TaskIsSound, CancelIsSound, QueueTypeOK,
      PollState, InQueue, InIntake, Quiescent
<1> QED BY <1>1, <1>2, <1>3, <1>4, <1>5, <1>6, <1>7

(* A cancellation inspects again.                                          *)
LEMMA CancelRefreshKeepsInv ==
  ASSUME PoolInv, NEW r \in Runs, CancelRefresh(r)
  PROVE  PoolInv'
<1> USE DEF PoolInv, CancelRefresh, CancelGoes, CancelFrame, InspectDelivery,
    workerVars, stopVars
<1>1. QueueTypeOK'
  BY FaultsAssumption, JobsAssumption, PriorityAssumption DEF QueueTypeOK, PollState, CancelState, Quiescent
<1>2. IntakeIsOrdered'
  BY PriorityAssumption DEF IntakeIsOrdered, QueueTypeOK
<1>3. PollHasRoom'
  <2>1. exec' \subseteq exec /\ (poll'.pc = "admit" => poll.pc = "admit" /\ poll'.room = poll.room)
    BY DEF QueueTypeOK, PollState
  <2> QED BY <1>1, <2>1, RoomIsKept
<1>4. SlotIsFree'
  <2>1. Live' \subseteq Live /\ (poll'.pc = "set" => poll.pc = "set" \/ Cardinality(Live) < MaxJobs)
    BY CountsAreNumbers, JobsAssumption DEF Live, QueueTypeOK, PollState
  <2> QED BY <1>1, <2>1, SlotIsKept
<1>5. StopIsSound'
  BY DEF StopIsSound, QueueTypeOK, PollState, Live, Idle
<1>6. TurnsAreCounted'
  BY DEF TurnsAreCounted, Since
<1>7. ASSUME NEW q \in Runs PROVE RunInv(q)'
  BY PriorityAssumption DEF RunInv, KeysAgree, TaskIsSound, CancelIsSound, QueueTypeOK,
      PollState, InQueue, InIntake, Quiescent
<1> QED BY <1>1, <1>2, <1>3, <1>4, <1>5, <1>6, <1>7

(* A cancellation aborts.                                                  *)
LEMMA CancelAbortKeepsInv ==
  ASSUME PoolInv, NEW r \in Runs, CancelAbort(r)
  PROVE  PoolInv'
<1> USE DEF PoolInv, CancelAbort, CancelGoes, CancelFrame, workerVars, stopVars
<1>1. QueueTypeOK'
  BY FaultsAssumption, JobsAssumption, PriorityAssumption DEF QueueTypeOK, PollState, CancelState, Quiescent
<1>2. IntakeIsOrdered'
  BY PriorityAssumption DEF IntakeIsOrdered, QueueTypeOK
<1>3. PollHasRoom'
  <2>1. exec' \subseteq exec /\ (poll'.pc = "admit" => poll.pc = "admit" /\ poll'.room = poll.room)
    BY DEF QueueTypeOK, PollState
  <2> QED BY <1>1, <2>1, RoomIsKept
<1>4. SlotIsFree'
  <2>1. Live' \subseteq Live /\ (poll'.pc = "set" => poll.pc = "set" \/ Cardinality(Live) < MaxJobs)
    BY CountsAreNumbers, JobsAssumption DEF Live, QueueTypeOK, PollState
  <2> QED BY <1>1, <2>1, SlotIsKept
<1>5. StopIsSound'
  BY DEF StopIsSound, QueueTypeOK, PollState, Live, Idle
<1>6. TurnsAreCounted'
  BY DEF TurnsAreCounted, Since
<1>7. ASSUME NEW q \in Runs PROVE RunInv(q)'
  BY PriorityAssumption DEF RunInv, KeysAgree, TaskIsSound, CancelIsSound, QueueTypeOK,
      PollState, InQueue, InIntake, Quiescent
<1> QED BY <1>1, <1>2, <1>3, <1>4, <1>5, <1>6, <1>7

(* A cancellation waits.                                                   *)
LEMMA CancelWaitKeepsInv ==
  ASSUME PoolInv, NEW r \in Runs, CancelWait(r)
  PROVE  PoolInv'
<1> USE DEF PoolInv, CancelWait, CancelGoes, CancelFrame, InspectDelivery, workerVars,
    stopVars
<1>1. QueueTypeOK'
  BY FaultsAssumption, JobsAssumption, PriorityAssumption DEF QueueTypeOK, PollState, CancelState, Quiescent
<1>2. IntakeIsOrdered'
  BY PriorityAssumption DEF IntakeIsOrdered, QueueTypeOK
<1>3. PollHasRoom'
  <2>1. exec' \subseteq exec /\ (poll'.pc = "admit" => poll.pc = "admit" /\ poll'.room = poll.room)
    BY DEF QueueTypeOK, PollState
  <2> QED BY <1>1, <2>1, RoomIsKept
<1>4. SlotIsFree'
  <2>1. Live' \subseteq Live /\ (poll'.pc = "set" => poll.pc = "set" \/ Cardinality(Live) < MaxJobs)
    BY CountsAreNumbers, JobsAssumption DEF Live, QueueTypeOK, PollState
  <2> QED BY <1>1, <2>1, SlotIsKept
<1>5. StopIsSound'
  BY DEF StopIsSound, QueueTypeOK, PollState, Live, Idle
<1>6. TurnsAreCounted'
  BY DEF TurnsAreCounted, Since
<1>7. ASSUME NEW q \in Runs PROVE RunInv(q)'
  BY PriorityAssumption DEF RunInv, KeysAgree, TaskIsSound, CancelIsSound, QueueTypeOK,
      PollState, InQueue, InIntake, Quiescent
<1> QED BY <1>1, <1>2, <1>3, <1>4, <1>5, <1>6, <1>7

(* A cancellation inspects finally.                                        *)
LEMMA CancelVerifyKeepsInv ==
  ASSUME PoolInv, NEW r \in Runs, CancelVerify(r)
  PROVE  PoolInv'
<1> USE DEF PoolInv, CancelVerify, CancelGoes, CancelFrame, InspectDelivery, workerVars,
    stopVars
<1>1. QueueTypeOK'
  BY FaultsAssumption, JobsAssumption, PriorityAssumption DEF QueueTypeOK, PollState, CancelState, Quiescent
<1>2. IntakeIsOrdered'
  BY PriorityAssumption DEF IntakeIsOrdered, QueueTypeOK
<1>3. PollHasRoom'
  <2>1. exec' \subseteq exec /\ (poll'.pc = "admit" => poll.pc = "admit" /\ poll'.room = poll.room)
    BY DEF QueueTypeOK, PollState
  <2> QED BY <1>1, <2>1, RoomIsKept
<1>4. SlotIsFree'
  <2>1. Live' \subseteq Live /\ (poll'.pc = "set" => poll.pc = "set" \/ Cardinality(Live) < MaxJobs)
    BY CountsAreNumbers, JobsAssumption DEF Live, QueueTypeOK, PollState
  <2> QED BY <1>1, <2>1, SlotIsKept
<1>5. StopIsSound'
  BY DEF StopIsSound, QueueTypeOK, PollState, Live, Idle
<1>6. TurnsAreCounted'
  BY DEF TurnsAreCounted, Since
<1>7. ASSUME NEW q \in Runs PROVE RunInv(q)'
  BY PriorityAssumption DEF RunInv, KeysAgree, TaskIsSound, CancelIsSound, QueueTypeOK,
      PollState, InQueue, InIntake, Quiescent
<1> QED BY <1>1, <1>2, <1>3, <1>4, <1>5, <1>6, <1>7

-----------------------------------------------------------------------------
(* The invariant holds of every reachable state.                           *)

(* The initial state.                                                      *)
LEMMA InitInv == Init => PoolInv
<1> SUFFICES ASSUME Init PROVE PoolInv
  OBVIOUS
<1> USE DEF Init
<1>0. exec = {} /\ Live = {} /\ Cardinality(exec) = 0 /\ Cardinality(Live) = 0
  BY FS_EmptySet DEF Live
<1>1. QueueTypeOK
  <2>1. 0 \in 0..MaxJobs /\ 0 \in 0..MaxFaults /\ 1 \in 1..Len(FAIR_ADMISSION_CYCLE)
        /\ 0 \in 0..Len(FAIR_ADMISSION_CYCLE)
    BY JobsAssumption, FaultsAssumption DEF FAIR_ADMISSION_CYCLE
  <2>2. poll \in PollState
    BY <2>1 DEF PollState, Idle
  <2>3. cancel \in [Runs -> CancelState]
    BY DEF CancelState
  <2> QED BY <2>1, <2>2, <2>3 DEF QueueTypeOK
<1>2. IntakeIsOrdered
  BY DEF IntakeIsOrdered
<1>3. PollHasRoom /\ SlotIsFree
  BY <1>0, JobsAssumption DEF PollHasRoom, SlotIsFree, Idle
<1>4. StopIsSound
  BY <1>0 DEF StopIsSound, Idle
<1>5. TurnsAreCounted
  BY WatchedAssumption DEF TurnsAreCounted, Since, PRIORITIES
<1>6. ASSUME NEW r \in Runs PROVE RunInv(r)
  BY <1>6 DEF RunInv, KeysAgree, TaskIsSound, CancelIsSound, Idle, Quiescent
<1> QED BY <1>1, <1>2, <1>3, <1>4, <1>5, <1>6 DEF PoolInv

(* Every step keeps it.                                                    *)
LEMMA NextKeepsInv == PoolInv /\ [Next]_vars => PoolInv'
<1> SUFFICES ASSUME PoolInv, [Next]_vars PROVE PoolInv'
  OBVIOUS
<1>1. ASSUME NEW r \in Runs, Enqueue(r) PROVE PoolInv'
  BY <1>1, EnqueueKeepsInv
<1>2. ASSUME NEW r \in Runs, ExpirePayload(r) PROVE PoolInv'
  BY <1>2, ExpirePayloadKeepsInv
<1>3. ASSUME NEW r \in Runs, ExpireResult(r) PROVE PoolInv'
  BY <1>3, ExpireResultKeepsInv
<1>4. ASSUME NEW r \in Runs, ExpireProgress(r) PROVE PoolInv'
  BY <1>4, ExpireProgressKeepsInv
<1>5. ASSUME NEW memory \in BOOLEAN, PollBegin(memory) PROVE PoolInv'
  BY <1>5, PollBeginKeepsInv
<1>6. CASE PollCount
  BY <1>6, PollCountKeepsInv
<1>7. CASE AdmitOne
  BY <1>7, AdmitOneKeepsInv
<1>8. CASE PollRead
  BY <1>8, PollReadKeepsInv
<1>9. ASSUME NEW r \in Runs, StartCheck(r) PROVE PoolInv'
  BY <1>9, StartCheckKeepsInv
<1>10. ASSUME NEW r \in Runs, StartJob(r) PROVE PoolInv'
  BY <1>10, StartJobKeepsInv
<1>11. CASE PollEnd
  BY <1>11, PollEndKeepsInv
<1>12. ASSUME NEW r \in Runs, LoadJob(r) PROVE PoolInv'
  BY <1>12, LoadJobKeepsInv
<1>13. ASSUME NEW r \in Runs, FinishJob(r) PROVE PoolInv'
  BY <1>13, FinishJobKeepsInv
<1>14. CASE StopBegin
  BY <1>14, StopBeginKeepsInv
<1>15. CASE StopCancel
  BY <1>15, StopCancelKeepsInv
<1>16. CASE StopDrop
  BY <1>16, StopDropKeepsInv
<1>17. CASE StopRunner
  BY <1>17, StopRunnerKeepsInv
<1>18. CASE CloseWorker
  BY <1>18, CloseWorkerKeepsInv
<1>19. CASE CloseTimesOut
  BY <1>19, CloseTimesOutKeepsInv
<1>20. CASE Die
  BY <1>20, DieKeepsInv
<1>21. CASE Start
  BY <1>21, StartKeepsInv
<1>22. ASSUME NEW r \in Runs, CancelInspect(r) PROVE PoolInv'
  BY <1>22, CancelInspectKeepsInv
<1>23. ASSUME NEW r \in Runs, RemoveUnstarted(r) PROVE PoolInv'
  BY <1>23, RemoveUnstartedKeepsInv
<1>24. ASSUME NEW r \in Runs, CancelRefresh(r) PROVE PoolInv'
  BY <1>24, CancelRefreshKeepsInv
<1>25. ASSUME NEW r \in Runs, CancelAbort(r) PROVE PoolInv'
  BY <1>25, CancelAbortKeepsInv
<1>26. ASSUME NEW r \in Runs, CancelWait(r) PROVE PoolInv'
  BY <1>26, CancelWaitKeepsInv
<1>27. ASSUME NEW r \in Runs, CancelVerify(r) PROVE PoolInv'
  BY <1>27, CancelVerifyKeepsInv
<1>28. CASE UNCHANGED vars
  BY <1>28 DEF vars, PoolInv, QueueTypeOK, IntakeIsOrdered, PollHasRoom, SlotIsFree,
    StopIsSound, TurnsAreCounted, Since, Live, RunInv, KeysAgree, TaskIsSound, CancelIsSound,
    InQueue, InIntake
<1>29. poll.ids \subseteq Runs /\ poll.checked \subseteq Runs /\ Cancellable \subseteq Runs
  BY CancellableAssumption DEF PoolInv, QueueTypeOK, PollState
<1> QED BY <1>1, <1>2, <1>3, <1>4, <1>5, <1>6, <1>7, <1>8, <1>9, <1>10, <1>11, <1>12,
    <1>13, <1>14, <1>15, <1>16, <1>17, <1>18, <1>19, <1>20, <1>21, <1>22, <1>23, <1>24,
    <1>25, <1>26, <1>27, <1>28, <1>29
  DEF Next, PollStep, TaskStep, StopStep, CancelStep

(* The inductive invariant: Redis keys, tasks, polls, shutdowns and        *)
(* cancellations of the pool agree in every reachable state.               *)
THEOREM PoolInvariant == Spec => []PoolInv
<1>1. Init => PoolInv
  BY InitInv
<1>2. PoolInv /\ [Next]_vars => PoolInv'
  BY NextKeepsInv
<1> QED BY <1>1, <1>2, PTL DEF Spec

-----------------------------------------------------------------------------
(* What follows from it.                                                   *)

(* The run is in the queue of its priority or in arq's, not in both.       *)
LEMMA PoolInvIsQueueInv == PoolInv => QueueInv
<1> SUFFICES ASSUME PoolInv PROVE QueueInv
  OBVIOUS
<1> USE DEF PoolInv
<1>1. OneQueuePerRun
  <2> SUFFICES ASSUME NEW r \in Runs
               PROVE  Cardinality({p \in PRIORITIES : r \in intake[p]} \cup
                                  (IF r \in exec THEN {"exec"} ELSE {})) <= 1
    BY DEF OneQueuePerRun
  <2> DEFINE in == {p \in PRIORITIES : r \in intake[p]} \cup (IF r \in exec THEN {"exec"} ELSE {})
  <2>1. \E one : in \subseteq {one}
    <3>1. CASE r \in exec
      <4>1. in \subseteq {"exec"}
        BY <3>1 DEF RunInv, KeysAgree, InIntake
      <4> QED BY <4>1
    <3>2. CASE r \notin exec
      <4>1. in \subseteq {PriorityOf[r]}
        BY <3>2 DEF IntakeIsOrdered
      <4> QED BY <4>1
    <3> QED BY <3>1, <3>2
  <2> HIDE DEF in
  <2>2. PICK one : in \subseteq {one}
    BY <2>1
  <2>3. IsFiniteSet({one}) /\ Cardinality({one}) = 1
    BY FS_Singleton
  <2>4. Cardinality(in) <= Cardinality({one})
    BY <2>2, <2>3, FS_Subset
  <2>5. Cardinality(in) <= 1
    BY <2>3, <2>4
  <2> QED BY <2>5 DEF in
<1>2. SlotBound
  BY DEF SlotBound, PollHasRoom, SlotIsFree
<1>3. TaskHoldsKey
  BY DEF TaskHoldsKey, Live, RunInv, TaskIsSound
<1> QED BY <1>1, <1>2, <1>3 DEF QueueInv

(* No run is in two queues, no more deliveries are handed over or running  *)
(* than the worker has slots, and a task holds its in-progress key, for    *)
(* any number of runs, slots and faults.                                   *)
THEOREM QueueInvHolds == Spec => []QueueInv
  BY PoolInvariant, PoolInvIsQueueInv, PTL

(* WeightedPriorityPolicy passes a waiting priority by for less than one   *)
(* round, whatever is enqueued, removed or expires meanwhile.              *)
THEOREM BoundedBypassHolds == Spec => []BoundedBypass
<1>1. PoolInv => BoundedBypass
  <2> SUFFICES ASSUME PoolInv PROVE BoundedBypass
    OBVIOUS
  <2>1. Watched \in {"high", "normal", "low"} /\ cursor \in 1..7 /\ bypassed \in Nat
    BY WatchedAssumption DEF PoolInv, QueueTypeOK, PRIORITIES, FAIR_ADMISSION_CYCLE
  <2>2. Since \in 0..6
    BY <2>1 DEF Since
  <2>3. Len(FAIR_ADMISSION_CYCLE) = 7
    BY DEF FAIR_ADMISSION_CYCLE
  <2> QED BY <2>1, <2>2, <2>3 DEF PoolInv, TurnsAreCounted, BoundedBypass
<1> QED BY <1>1, PoolInvariant, PTL

(* After cancel_run's quiescent answers the handler of the run does not    *)
(* run: not from a start that had checked the run before it was removed,   *)
(* and not after a restart.                                                *)
THEOREM CancelledIsQuietHolds == Spec => []CancelledIsQuiet
<1>1. PoolInv => CancelledIsQuiet
  BY DEF PoolInv, CancelledIsQuiet, RunInv, CancelIsSound
<1> QED BY <1>1, PoolInvariant, PTL

(* stop() returns with no task left, late starts included.                 *)
THEOREM StopLeavesNoTaskHolds == Spec => []StopLeavesNoTask
<1>1. PoolInv => StopLeavesNoTask
  BY DEF PoolInv, StopLeavesNoTask, StopIsSound
<1> QED BY <1>1, PoolInvariant, PTL

-----------------------------------------------------------------------------
(* The pool implements Delivery.tla.                                       *)

(* What inspect_delivery reports is decided by three keys: a payload is    *)
(* never without its queue member.                                         *)
LEMMA InspectByKeys ==
  ASSUME NEW r \in Runs, KeysAgree(r)
  PROVE  InspectDelivery(r) = IF result[r] # "none" THEN "complete"
                              ELSE IF r \in progress THEN "in_progress"
                              ELSE IF r \in payload THEN "queued" ELSE "missing"
  BY DEF InspectDelivery, KeysAgree

(* A step changes what inspect_delivery reports of a run as the contract   *)
(* allows.                                                                 *)
Allowed(r) ==
    InspectDelivery(r)' = InspectDelivery(r)
    \/ <<InspectDelivery(r), InspectDelivery(r)'>> \in Contract!DeliveryStep

(* The changes of the three keys that are allowed.                         *)
LEMMA KeysMove ==
  ASSUME PoolInv, PoolInv', NEW r \in Runs,
         \/ /\ result'[r] = result[r] /\ (r \in progress' <=> r \in progress)
            /\ r \in payload' <=> r \in payload
         \/ result[r] = "none" /\ result'[r] = "none" /\ (r \in payload' <=> r \in payload)
         \/ result[r] = "none" /\ result'[r] = "none" /\ (r \in progress' <=> r \in progress)
         \/ result[r] = "none" /\ r \in progress /\ result'[r] # "none"
         \/ result[r] # "none" /\ result'[r] = "none" /\ r \notin progress' /\ r \notin payload'
  PROVE  Allowed(r)
<1>1. InspectDelivery(r) = IF result[r] # "none" THEN "complete"
                           ELSE IF r \in progress THEN "in_progress"
                           ELSE IF r \in payload THEN "queued" ELSE "missing"
  BY InspectByKeys DEF PoolInv, RunInv
<1>2. InspectDelivery(r)' = IF result'[r] # "none" THEN "complete"
                            ELSE IF r \in progress' THEN "in_progress"
                            ELSE IF r \in payload' THEN "queued" ELSE "missing"
  <2>1. KeysAgree(r)'
    BY DEF PoolInv, RunInv
  <2> QED BY <2>1 DEF InspectDelivery, KeysAgree
<1> HIDE DEF InspectDelivery
<1> QED BY <1>1, <1>2 DEF Allowed, Contract!DeliveryStep

(* Every step is one of them.                                              *)
LEMMA StepIsAllowed ==
  ASSUME PoolInv, PoolInv', [Next]_vars, NEW q \in Runs
  PROVE  Allowed(q)
<1> SUFFICES \/ /\ result'[q] = result[q] /\ (q \in progress' <=> q \in progress)
                /\ q \in payload' <=> q \in payload
             \/ result[q] = "none" /\ result'[q] = "none" /\ (q \in payload' <=> q \in payload)
             \/ result[q] = "none" /\ result'[q] = "none" /\ (q \in progress' <=> q \in progress)
             \/ result[q] = "none" /\ q \in progress /\ result'[q] # "none"
             \/ result[q] # "none" /\ result'[q] = "none" /\ q \notin progress' /\ q \notin payload'
  BY KeysMove
<1> USE DEF PoolInv, QueueTypeOK
<1>1. CASE \E r \in Runs : Enqueue(r)
  BY <1>1 DEF Enqueue, RunInv, KeysAgree
<1>2. CASE \E r \in Runs : ExpirePayload(r)
  BY <1>2 DEF ExpirePayload, ExpireFrame, RunInv, KeysAgree
<1>3. CASE \E r \in Runs : ExpireResult(r)
  BY <1>3 DEF ExpireResult, RunInv, KeysAgree, ExpireFrame
<1>4. CASE \E r \in Runs : ExpireProgress(r)
  BY <1>4 DEF ExpireProgress, RunInv, KeysAgree, ExpireFrame
<1>5. CASE \E r \in Runs : StartJob(r)
  BY <1>5 DEF StartJob, RunInv, TaskIsSound
<1>6. CASE \E r \in Runs : LoadJob(r)
  BY <1>6 DEF LoadJob, Finished, RunInv, TaskIsSound, redisVars
<1>7. CASE \E r \in Runs : FinishJob(r)
  BY <1>7 DEF FinishJob, Finished, RunInv, TaskIsSound, redisVars
<1>8. CASE Start
  BY <1>8 DEF Start, RunInv, KeysAgree
<1>9. CASE \E r \in Runs : RemoveUnstarted(r)
  BY <1>9 DEF RemoveUnstarted, CancelFrame, RunInv, KeysAgree, InQueue
<1>10. CASE \/ \E memory \in BOOLEAN : PollBegin(memory)
         \/ PollCount
         \/ AdmitOne
         \/ PollRead
         \/ \E r \in Runs : StartCheck(r)
         \/ PollEnd
  BY <1>10 DEF PollBegin, PollCount, AdmitOne, PollRead, StartCheck, PollEnd, PollFrame
<1>11. CASE \/ StopBegin
         \/ StopCancel
         \/ StopDrop
         \/ StopRunner
         \/ CloseWorker
         \/ CloseTimesOut
         \/ Die
  BY <1>11 DEF StopBegin, StopCancel, StopDrop, StopRunner, CloseWorker, CloseTimesOut,
      Die, StopFrame, redisVars
<1>12. CASE \E r \in Runs : CancelInspect(r) \/ CancelRefresh(r) \/ CancelAbort(r) \/ CancelWait(r) \/ CancelVerify(r)
  BY <1>12 DEF CancelInspect, CancelRefresh, CancelAbort, CancelWait, CancelVerify,
      CancelFrame
<1>13. CASE UNCHANGED vars
  BY <1>13 DEF vars
<1>14. poll.ids \subseteq Runs /\ poll.checked \subseteq Runs /\ Cancellable \subseteq Runs
  BY CancellableAssumption DEF PollState
<1> QED BY <1>1, <1>2, <1>3, <1>4, <1>5, <1>6, <1>7, <1>8, <1>9, <1>10, <1>11, <1>12,
    <1>13, <1>14
  DEF Next, PollStep, TaskStep, StopStep, CancelStep

(* Refinement: whatever polls, tasks, expiries, cancellations, shutdowns   *)
(* and deaths do to the keys, inspect_delivery reports a delivery only     *)
(* through the changes of Delivery.tla, the contract that the run worker   *)
(* is modelled on.                                                         *)
THEOREM PoolImplementsDelivery == Spec => DeliverySpec
<1>1. Init => Contract!Init
  BY DEF Init, Contract!Init, InspectDelivery, InQueue, InIntake
<1>2. PoolInv /\ PoolInv' /\ [Next]_vars => [Contract!Next]_([r \in Runs |-> InspectDelivery(r)])
  <2> SUFFICES ASSUME PoolInv, PoolInv', [Next]_vars PROVE Contract!Next
    OBVIOUS
  <2>1. [r \in Runs |-> InspectDelivery(r)]' \in [Runs -> Contract!DeliveryState]
    BY DEF InspectDelivery, Contract!DeliveryState
  <2>2. ASSUME NEW r \in Runs PROVE Allowed(r)
    BY StepIsAllowed
  <2> QED BY <2>1, <2>2 DEF Contract!Next, Allowed
<1> QED BY <1>1, <1>2, PoolInvariant, PTL DEF Spec, DeliverySpec, Contract!Spec
=============================================================================
