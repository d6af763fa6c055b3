---------------------- MODULE WebhookDispatcherProofs ----------------------
(***************************************************************************)
(* What TLAPS proves of WebhookDispatcher.tla for any number of            *)
(* deliveries, workers, attempts and faults and any batch size: the        *)
(* inductive invariant DispatcherInv with AttemptBudget, and that a        *)
(* settled delivery is final.                                              *)
(***************************************************************************)
EXTENDS WebhookDispatcher, TLAPS

\* A new row has no worker yet.
LEMMA InsertIntentKeepsInv ==
  ASSUME DispatcherInv, AttemptBudget, NEW d \in Deliveries, NEW notifies \in BOOLEAN, InsertIntent(d, notifies)
  PROVE  DispatcherInv' /\ AttemptBudget'
<1> USE NobodyAssumption, AttemptsAssumption, FaultsAssumption
<1> USE DEF DispatcherInv, InsertIntent, dispatchVars,
            Snapshot, CoordState, WorkerState, InFlight, StillPending
<1>1. DispatcherTypeOK'
  BY DEF DispatcherTypeOK, InFlightIsDelivery
<1>2. InFlightIsDelivery'
  BY DEF DispatcherTypeOK, InFlightIsDelivery
<1>3. OneWorkerPerDelivery'
  BY DEF DispatcherTypeOK, OneWorkerPerDelivery, ScheduledOnce
<1>4. ReservationIsOwned'
  BY DEF DispatcherTypeOK, InFlightIsDelivery, OneWorkerPerDelivery, ReservationIsOwned, ScheduledOnce
<1>5. ScheduledOnce'
  BY DEF DispatcherTypeOK, OneWorkerPerDelivery, ScheduledOnce
<1>6. ReservationPays'
  BY DEF DispatcherTypeOK, InFlightIsDelivery, OneWorkerPerDelivery, ReservationIsOwned, ReservationPays, AttemptBudget
<1>7. AttemptBudget'
  BY DEF DispatcherTypeOK, InFlightIsDelivery, ReservationPays, AttemptBudget
<1> QED BY <1>1, <1>2, <1>3, <1>4, <1>5, <1>6, <1>7

\* A notification only wakes.
LEMMA NotifyKeepsInv ==
  ASSUME DispatcherInv, AttemptBudget, NEW d \in Deliveries, Notify(d)
  PROVE  DispatcherInv' /\ AttemptBudget'
<1> USE NobodyAssumption, AttemptsAssumption, FaultsAssumption
<1> USE DEF DispatcherInv, Notify, rowVars,
            Snapshot, CoordState, WorkerState, InFlight, StillPending
<1>1. DispatcherTypeOK'
  BY DEF DispatcherTypeOK, InFlightIsDelivery
<1>2. InFlightIsDelivery'
  BY DEF DispatcherTypeOK, InFlightIsDelivery
<1>3. OneWorkerPerDelivery'
  BY DEF DispatcherTypeOK, OneWorkerPerDelivery, ScheduledOnce
<1>4. ReservationIsOwned'
  BY DEF DispatcherTypeOK, InFlightIsDelivery, OneWorkerPerDelivery, ReservationIsOwned, ScheduledOnce
<1>5. ScheduledOnce'
  BY DEF DispatcherTypeOK, OneWorkerPerDelivery, ScheduledOnce
<1>6. ReservationPays'
  BY DEF DispatcherTypeOK, InFlightIsDelivery, OneWorkerPerDelivery, ReservationIsOwned, ReservationPays, AttemptBudget
<1>7. AttemptBudget'
  BY DEF DispatcherTypeOK, InFlightIsDelivery, ReservationPays, AttemptBudget
<1> QED BY <1>1, <1>2, <1>3, <1>4, <1>5, <1>6, <1>7

\* Time passes for a pending row.
LEMMA BecomeDueKeepsInv ==
  ASSUME DispatcherInv, AttemptBudget, NEW d \in Deliveries, BecomeDue(d)
  PROVE  DispatcherInv' /\ AttemptBudget'
<1> USE NobodyAssumption, AttemptsAssumption, FaultsAssumption
<1> USE DEF DispatcherInv, BecomeDue, dispatchVars,
            Snapshot, CoordState, WorkerState, InFlight, StillPending
<1>1. DispatcherTypeOK'
  BY DEF DispatcherTypeOK, InFlightIsDelivery
<1>2. InFlightIsDelivery'
  BY DEF DispatcherTypeOK, InFlightIsDelivery
<1>3. OneWorkerPerDelivery'
  BY DEF DispatcherTypeOK, OneWorkerPerDelivery, ScheduledOnce
<1>4. ReservationIsOwned'
  BY DEF DispatcherTypeOK, InFlightIsDelivery, OneWorkerPerDelivery, ReservationIsOwned, ScheduledOnce
<1>5. ScheduledOnce'
  BY DEF DispatcherTypeOK, OneWorkerPerDelivery, ScheduledOnce
<1>6. ReservationPays'
  BY DEF DispatcherTypeOK, InFlightIsDelivery, OneWorkerPerDelivery, ReservationIsOwned, ReservationPays, AttemptBudget
<1>7. AttemptBudget'
  BY DEF DispatcherTypeOK, InFlightIsDelivery, ReservationPays, AttemptBudget
<1> QED BY <1>1, <1>2, <1>3, <1>4, <1>5, <1>6, <1>7

\* A pending row reaches its age deadline.
LEMMA BecomeAgedKeepsInv ==
  ASSUME DispatcherInv, AttemptBudget, NEW d \in Deliveries, BecomeAged(d)
  PROVE  DispatcherInv' /\ AttemptBudget'
<1> USE NobodyAssumption, AttemptsAssumption, FaultsAssumption
<1> USE DEF DispatcherInv, BecomeAged, dispatchVars,
            Snapshot, CoordState, WorkerState, InFlight, StillPending
<1>1. DispatcherTypeOK'
  BY DEF DispatcherTypeOK, InFlightIsDelivery
<1>2. InFlightIsDelivery'
  BY DEF DispatcherTypeOK, InFlightIsDelivery
<1>3. OneWorkerPerDelivery'
  BY DEF DispatcherTypeOK, OneWorkerPerDelivery, ScheduledOnce
<1>4. ReservationIsOwned'
  BY DEF DispatcherTypeOK, InFlightIsDelivery, OneWorkerPerDelivery, ReservationIsOwned, ScheduledOnce
<1>5. ScheduledOnce'
  BY DEF DispatcherTypeOK, OneWorkerPerDelivery, ScheduledOnce
<1>6. ReservationPays'
  BY DEF DispatcherTypeOK, InFlightIsDelivery, OneWorkerPerDelivery, ReservationIsOwned, ReservationPays, AttemptBudget
<1>7. AttemptBudget'
  BY DEF DispatcherTypeOK, InFlightIsDelivery, ReservationPays, AttemptBudget
<1> QED BY <1>1, <1>2, <1>3, <1>4, <1>5, <1>6, <1>7

\* Only a settled row is removed, so no worker owns it.
LEMMA ForgetRowKeepsInv ==
  ASSUME DispatcherInv, AttemptBudget, NEW d \in Deliveries, ForgetRow(d)
  PROVE  DispatcherInv' /\ AttemptBudget'
<1> USE NobodyAssumption, AttemptsAssumption, FaultsAssumption
<1> USE DEF DispatcherInv, ForgetRow, dispatchVars,
            Snapshot, CoordState, WorkerState, InFlight, StillPending
<1>1. DispatcherTypeOK'
  BY DEF DispatcherTypeOK, InFlightIsDelivery
<1>2. InFlightIsDelivery'
  BY DEF DispatcherTypeOK, InFlightIsDelivery
<1>3. OneWorkerPerDelivery'
  BY DEF DispatcherTypeOK, OneWorkerPerDelivery, ScheduledOnce
<1>4. ReservationIsOwned'
  BY DEF DispatcherTypeOK, InFlightIsDelivery, OneWorkerPerDelivery, ReservationIsOwned, ScheduledOnce
<1>5. ScheduledOnce'
  BY DEF DispatcherTypeOK, OneWorkerPerDelivery, ScheduledOnce
<1>6. ReservationPays'
  BY DEF DispatcherTypeOK, InFlightIsDelivery, OneWorkerPerDelivery, ReservationIsOwned, ReservationPays, AttemptBudget
<1>7. AttemptBudget'
  BY DEF DispatcherTypeOK, InFlightIsDelivery, ReservationPays, AttemptBudget
<1> QED BY <1>1, <1>2, <1>3, <1>4, <1>5, <1>6, <1>7

\* The coordinator clears the event.
LEMMA CoordClearKeepsInv ==
  ASSUME DispatcherInv, AttemptBudget, CoordClear
  PROVE  DispatcherInv' /\ AttemptBudget'
<1> USE NobodyAssumption, AttemptsAssumption, FaultsAssumption
<1> USE DEF DispatcherInv, CoordClear, OnlyCoord, rowVars,
            Snapshot, CoordState, WorkerState, InFlight, StillPending
<1>1. DispatcherTypeOK'
  BY DEF DispatcherTypeOK, InFlightIsDelivery
<1>2. InFlightIsDelivery'
  BY DEF DispatcherTypeOK, InFlightIsDelivery
<1>3. OneWorkerPerDelivery'
  BY DEF DispatcherTypeOK, OneWorkerPerDelivery, ScheduledOnce
<1>4. ReservationIsOwned'
  BY DEF DispatcherTypeOK, InFlightIsDelivery, OneWorkerPerDelivery, ReservationIsOwned, ScheduledOnce
<1>5. ScheduledOnce'
  BY DEF DispatcherTypeOK, OneWorkerPerDelivery, ScheduledOnce
<1>6. ReservationPays'
  BY DEF DispatcherTypeOK, InFlightIsDelivery, OneWorkerPerDelivery, ReservationIsOwned, ReservationPays, AttemptBudget
<1>7. AttemptBudget'
  BY DEF DispatcherTypeOK, InFlightIsDelivery, ReservationPays, AttemptBudget
<1> QED BY <1>1, <1>2, <1>3, <1>4, <1>5, <1>6, <1>7

\* A batch has one snapshot per row.
LEMMA ReadExhaustedKeepsInv ==
  ASSUME DispatcherInv, AttemptBudget, ReadExhausted
  PROVE  DispatcherInv' /\ AttemptBudget'
<1> USE NobodyAssumption, AttemptsAssumption, FaultsAssumption
<1> USE DEF DispatcherInv, ReadExhausted, OnlyCoord, rowVars, CoordGoes, Batches, SnapshotOf,
            Snapshot, CoordState, WorkerState, InFlight, StillPending
<1>1. DispatcherTypeOK'
  <2>1. PICK rows \in SUBSET Deliveries :
             coord' = [coord EXCEPT !.pc = "fail", !.batch = {SnapshotOf(d) : d \in rows}]
    OBVIOUS
  <2>2. {SnapshotOf(d) : d \in rows} \subseteq Snapshot
    BY DEF DispatcherTypeOK
  <2>3. coord' \in CoordState
    BY <2>1, <2>2 DEF DispatcherTypeOK
  <2> QED BY <2>3 DEF DispatcherTypeOK
<1>2. InFlightIsDelivery'
  BY DEF DispatcherTypeOK, InFlightIsDelivery
<1>3. OneWorkerPerDelivery'
  BY DEF DispatcherTypeOK, OneWorkerPerDelivery, ScheduledOnce
<1>4. ReservationIsOwned'
  BY DEF DispatcherTypeOK, InFlightIsDelivery, OneWorkerPerDelivery, ReservationIsOwned, ScheduledOnce
<1>5. ScheduledOnce'
  BY DEF DispatcherTypeOK, OneWorkerPerDelivery, ScheduledOnce
<1>6. ReservationPays'
  BY DEF DispatcherTypeOK, InFlightIsDelivery, OneWorkerPerDelivery, ReservationIsOwned, ReservationPays, AttemptBudget
<1>7. AttemptBudget'
  BY DEF DispatcherTypeOK, InFlightIsDelivery, ReservationPays, AttemptBudget
<1> QED BY <1>1, <1>2, <1>3, <1>4, <1>5, <1>6, <1>7

\* The coordinator fails what is not scheduled, which no worker holds.
LEMMA FailExhaustedKeepsInv ==
  ASSUME DispatcherInv, AttemptBudget, NEW snap \in coord.batch, FailExhausted(snap)
  PROVE  DispatcherInv' /\ AttemptBudget'
<1> USE NobodyAssumption, AttemptsAssumption, FaultsAssumption
<1> USE DEF DispatcherInv, FailExhausted, OnlyCoord,
            Snapshot, CoordState, WorkerState, InFlight, StillPending
<1>1. DispatcherTypeOK'
  BY DEF DispatcherTypeOK, InFlightIsDelivery
<1>2. InFlightIsDelivery'
  BY DEF DispatcherTypeOK, InFlightIsDelivery
<1>3. OneWorkerPerDelivery'
  BY DEF DispatcherTypeOK, OneWorkerPerDelivery, ScheduledOnce
<1>4. ReservationIsOwned'
  BY DEF DispatcherTypeOK, InFlightIsDelivery, OneWorkerPerDelivery, ReservationIsOwned, ScheduledOnce
<1>5. ScheduledOnce'
  BY DEF DispatcherTypeOK, OneWorkerPerDelivery, ScheduledOnce
<1>6. ReservationPays'
  BY DEF DispatcherTypeOK, InFlightIsDelivery, OneWorkerPerDelivery, ReservationIsOwned, ReservationPays, AttemptBudget
<1>7. AttemptBudget'
  BY DEF DispatcherTypeOK, InFlightIsDelivery, ReservationPays, AttemptBudget
<1> QED BY <1>1, <1>2, <1>3, <1>4, <1>5, <1>6, <1>7

\* A batch has one snapshot per row.
LEMMA ReadDueKeepsInv ==
  ASSUME DispatcherInv, AttemptBudget, ReadDue
  PROVE  DispatcherInv' /\ AttemptBudget'
<1> USE NobodyAssumption, AttemptsAssumption, FaultsAssumption
<1> USE DEF DispatcherInv, ReadDue, OnlyCoord, rowVars, CoordGoes, Batches, SnapshotOf,
            Snapshot, CoordState, WorkerState, InFlight, StillPending
<1>1. DispatcherTypeOK'
  <2>1. PICK rows \in SUBSET Deliveries :
             coord' = [coord EXCEPT !.pc = "put", !.batch = {SnapshotOf(d) : d \in rows}]
    OBVIOUS
  <2>2. {SnapshotOf(d) : d \in rows} \subseteq Snapshot
    BY DEF DispatcherTypeOK
  <2>3. coord' \in CoordState
    BY <2>1, <2>2 DEF DispatcherTypeOK
  <2> QED BY <2>3 DEF DispatcherTypeOK
<1>2. InFlightIsDelivery'
  BY DEF DispatcherTypeOK, InFlightIsDelivery
<1>3. OneWorkerPerDelivery'
  BY DEF DispatcherTypeOK, OneWorkerPerDelivery, ScheduledOnce
<1>4. ReservationIsOwned'
  BY DEF DispatcherTypeOK, InFlightIsDelivery, OneWorkerPerDelivery, ReservationIsOwned, ScheduledOnce
<1>5. ScheduledOnce'
  BY DEF DispatcherTypeOK, OneWorkerPerDelivery, ScheduledOnce
<1>6. ReservationPays'
  BY DEF DispatcherTypeOK, InFlightIsDelivery, OneWorkerPerDelivery, ReservationIsOwned, ReservationPays, AttemptBudget
<1>7. AttemptBudget'
  BY DEF DispatcherTypeOK, InFlightIsDelivery, ReservationPays, AttemptBudget
<1> QED BY <1>1, <1>2, <1>3, <1>4, <1>5, <1>6, <1>7

\* Only snapshots of deliveries that are not scheduled are queued.
LEMMA PutDueKeepsInv ==
  ASSUME DispatcherInv, AttemptBudget, PutDue
  PROVE  DispatcherInv' /\ AttemptBudget'
<1> USE NobodyAssumption, AttemptsAssumption, FaultsAssumption
<1> USE DEF DispatcherInv, PutDue, rowVars, CoordGoes, CoordStart, CoordWaits,
            Snapshot, CoordState, WorkerState, InFlight, StillPending
<1>p. PICK put \in SUBSET {snap \in coord.batch : snap.id \notin scheduled} :
            /\ queue' = queue \cup put
            /\ scheduled' = scheduled \cup {snap.id : snap \in put}
  OBVIOUS
<1>c. \/ coord' = CoordWaits(TRUE)
      \/ coord' = CoordStart
      \/ coord' = [coord EXCEPT !.pc = "next", !.batch = {}]
  OBVIOUS
<1>u. UNCHANGED <<notifying, mode, worker, posts, faults, wake, rowVars>>
  OBVIOUS
<1> HIDE DEF PutDue
<1>b. coord' \in CoordState /\ coord'.batch = {}
  <2>0. coord \in CoordState
    BY DEF DispatcherTypeOK
  <2>1. CASE coord' = CoordWaits(TRUE)
    BY <2>1
  <2>2. CASE coord' = CoordStart
    BY <2>2
  <2>3. CASE coord' = [coord EXCEPT !.pc = "next", !.batch = {}]
    BY <2>0, <2>3
  <2> QED BY <1>c, <2>1, <2>2, <2>3
<1>1. DispatcherTypeOK'
  <2>1. queue' \subseteq Snapshot /\ scheduled' \subseteq Deliveries
    BY <1>p, <1>u DEF DispatcherTypeOK
  <2> QED BY <1>b, <1>u, <2>1 DEF DispatcherTypeOK
<1>2. InFlightIsDelivery'
  BY <1>u DEF DispatcherTypeOK, InFlightIsDelivery
<1>3. OneWorkerPerDelivery'
  BY <1>u DEF DispatcherTypeOK, OneWorkerPerDelivery, ScheduledOnce
<1>4. ReservationIsOwned'
  BY <1>u DEF DispatcherTypeOK, InFlightIsDelivery, OneWorkerPerDelivery, ReservationIsOwned, ScheduledOnce
<1>5. ScheduledOnce'
  <2>1. \A s, t \in coord'.batch : s.id = t.id => s = t
    BY <1>b
  <2>2. /\ \A snap \in queue' : snap.id \in scheduled'
        /\ \A s, t \in queue' : s.id = t.id => s = t
    BY <1>p, <1>u DEF DispatcherTypeOK, ScheduledOnce
  <2>3. \A w \in Workers : InFlight(w)' =>
           /\ worker'[w].id \in scheduled'
           /\ \A snap \in queue' : snap.id # worker'[w].id
    BY <1>p, <1>u DEF DispatcherTypeOK, ScheduledOnce
  <2> QED BY <2>1, <2>2, <2>3 DEF ScheduledOnce
<1>6. ReservationPays'
  BY <1>u DEF DispatcherTypeOK, InFlightIsDelivery, OneWorkerPerDelivery, ReservationIsOwned, ReservationPays, AttemptBudget
<1>7. AttemptBudget'
  BY <1>u DEF DispatcherTypeOK, InFlightIsDelivery, ReservationPays, AttemptBudget
<1> QED BY <1>1, <1>2, <1>3, <1>4, <1>5, <1>6, <1>7

\* The coordinator chooses its timeout.
LEMMA ReadNextKeepsInv ==
  ASSUME DispatcherInv, AttemptBudget, ReadNext
  PROVE  DispatcherInv' /\ AttemptBudget'
<1> USE NobodyAssumption, AttemptsAssumption, FaultsAssumption
<1> USE DEF DispatcherInv, ReadNext, OnlyCoord, rowVars, CoordWaits,
            Snapshot, CoordState, WorkerState, InFlight, StillPending
<1>1. DispatcherTypeOK'
  BY DEF DispatcherTypeOK, InFlightIsDelivery
<1>2. InFlightIsDelivery'
  BY DEF DispatcherTypeOK, InFlightIsDelivery
<1>3. OneWorkerPerDelivery'
  BY DEF DispatcherTypeOK, OneWorkerPerDelivery, ScheduledOnce
<1>4. ReservationIsOwned'
  BY DEF DispatcherTypeOK, InFlightIsDelivery, OneWorkerPerDelivery, ReservationIsOwned, ScheduledOnce
<1>5. ScheduledOnce'
  BY DEF DispatcherTypeOK, OneWorkerPerDelivery, ScheduledOnce
<1>6. ReservationPays'
  BY DEF DispatcherTypeOK, InFlightIsDelivery, OneWorkerPerDelivery, ReservationIsOwned, ReservationPays, AttemptBudget
<1>7. AttemptBudget'
  BY DEF DispatcherTypeOK, InFlightIsDelivery, ReservationPays, AttemptBudget
<1> QED BY <1>1, <1>2, <1>3, <1>4, <1>5, <1>6, <1>7

\* The coordinator starts another round.
LEMMA CoordWakesKeepsInv ==
  ASSUME DispatcherInv, AttemptBudget, CoordWakes
  PROVE  DispatcherInv' /\ AttemptBudget'
<1> USE NobodyAssumption, AttemptsAssumption, FaultsAssumption
<1> USE DEF DispatcherInv, CoordWakes, OnlyCoord, rowVars, CoordStart,
            Snapshot, CoordState, WorkerState, InFlight, StillPending
<1>1. DispatcherTypeOK'
  BY DEF DispatcherTypeOK, InFlightIsDelivery
<1>2. InFlightIsDelivery'
  BY DEF DispatcherTypeOK, InFlightIsDelivery
<1>3. OneWorkerPerDelivery'
  BY DEF DispatcherTypeOK, OneWorkerPerDelivery, ScheduledOnce
<1>4. ReservationIsOwned'
  BY DEF DispatcherTypeOK, InFlightIsDelivery, OneWorkerPerDelivery, ReservationIsOwned, ScheduledOnce
<1>5. ScheduledOnce'
  BY DEF DispatcherTypeOK, OneWorkerPerDelivery, ScheduledOnce
<1>6. ReservationPays'
  BY DEF DispatcherTypeOK, InFlightIsDelivery, OneWorkerPerDelivery, ReservationIsOwned, ReservationPays, AttemptBudget
<1>7. AttemptBudget'
  BY DEF DispatcherTypeOK, InFlightIsDelivery, ReservationPays, AttemptBudget
<1> QED BY <1>1, <1>2, <1>3, <1>4, <1>5, <1>6, <1>7

\* A failing read ends the round.
LEMMA CoordRaisesKeepsInv ==
  ASSUME DispatcherInv, AttemptBudget, CoordRaises
  PROVE  DispatcherInv' /\ AttemptBudget'
<1> USE NobodyAssumption, AttemptsAssumption, FaultsAssumption
<1> USE DEF DispatcherInv, CoordRaises, OnlyCoord, rowVars, CoordWaits, Fault,
            Snapshot, CoordState, WorkerState, InFlight, StillPending
<1>1. DispatcherTypeOK'
  BY DEF DispatcherTypeOK, InFlightIsDelivery
<1>2. InFlightIsDelivery'
  BY DEF DispatcherTypeOK, InFlightIsDelivery
<1>3. OneWorkerPerDelivery'
  BY DEF DispatcherTypeOK, OneWorkerPerDelivery, ScheduledOnce
<1>4. ReservationIsOwned'
  BY DEF DispatcherTypeOK, InFlightIsDelivery, OneWorkerPerDelivery, ReservationIsOwned, ScheduledOnce
<1>5. ScheduledOnce'
  BY DEF DispatcherTypeOK, OneWorkerPerDelivery, ScheduledOnce
<1>6. ReservationPays'
  BY DEF DispatcherTypeOK, InFlightIsDelivery, OneWorkerPerDelivery, ReservationIsOwned, ReservationPays, AttemptBudget
<1>7. AttemptBudget'
  BY DEF DispatcherTypeOK, InFlightIsDelivery, ReservationPays, AttemptBudget
<1> QED BY <1>1, <1>2, <1>3, <1>4, <1>5, <1>6, <1>7

\* The snapshot moves from the queue to the worker.
LEMMA GetDeliveryKeepsInv ==
  ASSUME DispatcherInv, AttemptBudget, NEW w \in Workers, NEW snap \in queue, GetDelivery(w, snap)
  PROVE  DispatcherInv' /\ AttemptBudget'
<1> USE NobodyAssumption, AttemptsAssumption, FaultsAssumption
<1> USE DEF DispatcherInv, GetDelivery, rowVars,
            Snapshot, CoordState, WorkerState, InFlight, StillPending
<1>1. DispatcherTypeOK'
  BY DEF DispatcherTypeOK, InFlightIsDelivery
<1>2. InFlightIsDelivery'
  BY DEF DispatcherTypeOK, InFlightIsDelivery
<1>3. OneWorkerPerDelivery'
  BY DEF DispatcherTypeOK, OneWorkerPerDelivery, ScheduledOnce
<1>4. ReservationIsOwned'
  BY DEF DispatcherTypeOK, InFlightIsDelivery, OneWorkerPerDelivery, ReservationIsOwned, ScheduledOnce
<1>5. ScheduledOnce'
  BY DEF DispatcherTypeOK, OneWorkerPerDelivery, ScheduledOnce
<1>6. ReservationPays'
  BY DEF DispatcherTypeOK, InFlightIsDelivery, OneWorkerPerDelivery, ReservationIsOwned, ReservationPays, AttemptBudget
<1>7. AttemptBudget'
  BY DEF DispatcherTypeOK, InFlightIsDelivery, ReservationPays, AttemptBudget
<1> QED BY <1>1, <1>2, <1>3, <1>4, <1>5, <1>6, <1>7

\* A snapshot at the limit is not reserved.
LEMMA CheckExhaustedKeepsInv ==
  ASSUME DispatcherInv, AttemptBudget, NEW w \in Workers, CheckExhausted(w)
  PROVE  DispatcherInv' /\ AttemptBudget'
<1> USE NobodyAssumption, AttemptsAssumption, FaultsAssumption
<1> USE DEF DispatcherInv, CheckExhausted, WorkerGoes, OnlyWorker, rowVars,
            Snapshot, CoordState, WorkerState, InFlight, StillPending
<1>1. DispatcherTypeOK'
  BY DEF DispatcherTypeOK, InFlightIsDelivery
<1>2. InFlightIsDelivery'
  BY DEF DispatcherTypeOK, InFlightIsDelivery
<1>3. OneWorkerPerDelivery'
  BY DEF DispatcherTypeOK, OneWorkerPerDelivery, ScheduledOnce
<1>4. ReservationIsOwned'
  BY DEF DispatcherTypeOK, InFlightIsDelivery, OneWorkerPerDelivery, ReservationIsOwned, ScheduledOnce
<1>5. ScheduledOnce'
  BY DEF DispatcherTypeOK, OneWorkerPerDelivery, ScheduledOnce
<1>6. ReservationPays'
  BY DEF DispatcherTypeOK, InFlightIsDelivery, OneWorkerPerDelivery, ReservationIsOwned, ReservationPays, AttemptBudget
<1>7. AttemptBudget'
  BY DEF DispatcherTypeOK, InFlightIsDelivery, ReservationPays, AttemptBudget
<1> QED BY <1>1, <1>2, <1>3, <1>4, <1>5, <1>6, <1>7

\* The worker fails its own delivery and gives it up.
LEMMA FailDeliveryKeepsInv ==
  ASSUME DispatcherInv, AttemptBudget, NEW w \in Workers, FailDelivery(w)
  PROVE  DispatcherInv' /\ AttemptBudget'
<1> USE NobodyAssumption, AttemptsAssumption, FaultsAssumption
<1> USE DEF DispatcherInv, FailDelivery, WorkerEnds, OnlyWorker, Free, Stopped,
            Snapshot, CoordState, WorkerState, InFlight, StillPending
<1>1. DispatcherTypeOK'
  BY DEF DispatcherTypeOK, InFlightIsDelivery
<1>2. InFlightIsDelivery'
  BY DEF DispatcherTypeOK, InFlightIsDelivery
<1>3. OneWorkerPerDelivery'
  BY DEF DispatcherTypeOK, OneWorkerPerDelivery, ScheduledOnce
<1>4. ReservationIsOwned'
  BY DEF DispatcherTypeOK, InFlightIsDelivery, OneWorkerPerDelivery, ReservationIsOwned, ScheduledOnce
<1>5. ScheduledOnce'
  BY DEF DispatcherTypeOK, OneWorkerPerDelivery, ScheduledOnce
<1>6. ReservationPays'
  BY DEF DispatcherTypeOK, InFlightIsDelivery, OneWorkerPerDelivery, ReservationIsOwned, ReservationPays, AttemptBudget
<1>7. AttemptBudget'
  BY DEF DispatcherTypeOK, InFlightIsDelivery, ReservationPays, AttemptBudget
<1> QED BY <1>1, <1>2, <1>3, <1>4, <1>5, <1>6, <1>7

\* The reservation compares with the snapshot.
LEMMA BeginAttemptKeepsInv ==
  ASSUME DispatcherInv, AttemptBudget, NEW w \in Workers, BeginAttempt(w)
  PROVE  DispatcherInv' /\ AttemptBudget'
<1> USE NobodyAssumption, AttemptsAssumption, FaultsAssumption
<1> USE DEF DispatcherInv, BeginAttempt, WorkerEnds, OnlyWorker, Free, Stopped,
            Snapshot, CoordState, WorkerState, InFlight, StillPending
<1>1. DispatcherTypeOK'
  <2>1. worker' \in [Workers -> WorkerState]
    BY DEF DispatcherTypeOK
  <2>2. attempts' \in [Deliveries -> Nat]
    BY DEF DispatcherTypeOK, InFlightIsDelivery
  <2>3. scheduled' \subseteq Deliveries /\ wake' \in BOOLEAN
    BY DEF DispatcherTypeOK
  <2> QED BY <2>1, <2>2, <2>3 DEF DispatcherTypeOK, InFlightIsDelivery
<1>2. InFlightIsDelivery'
  BY DEF DispatcherTypeOK, InFlightIsDelivery
<1>3. OneWorkerPerDelivery'
  BY DEF DispatcherTypeOK, OneWorkerPerDelivery, ScheduledOnce
<1>4. ReservationIsOwned'
  BY DEF DispatcherTypeOK, InFlightIsDelivery, OneWorkerPerDelivery, ReservationIsOwned, ScheduledOnce
<1>5. ScheduledOnce'
  BY DEF DispatcherTypeOK, OneWorkerPerDelivery, ScheduledOnce
<1>6. ReservationPays'
  BY DEF DispatcherTypeOK, InFlightIsDelivery, OneWorkerPerDelivery, ReservationIsOwned, ReservationPays, AttemptBudget
<1>7. AttemptBudget'
  BY DEF DispatcherTypeOK, InFlightIsDelivery, ReservationPays, AttemptBudget
<1> QED BY <1>1, <1>2, <1>3, <1>4, <1>5, <1>6, <1>7

\* The request uses up the reservation.
LEMMA SendOnceKeepsInv ==
  ASSUME DispatcherInv, AttemptBudget, NEW w \in Workers, SendOnce(w)
  PROVE  DispatcherInv' /\ AttemptBudget'
<1> USE NobodyAssumption, AttemptsAssumption, FaultsAssumption
<1> USE DEF DispatcherInv, SendOnce, WorkerGoes, OnlyWorker, rowVars,
            Snapshot, CoordState, WorkerState, InFlight, StillPending
<1>1. DispatcherTypeOK'
  BY DEF DispatcherTypeOK, InFlightIsDelivery
<1>2. InFlightIsDelivery'
  BY DEF DispatcherTypeOK, InFlightIsDelivery
<1>3. OneWorkerPerDelivery'
  BY DEF DispatcherTypeOK, OneWorkerPerDelivery, ScheduledOnce
<1>4. ReservationIsOwned'
  BY DEF DispatcherTypeOK, InFlightIsDelivery, OneWorkerPerDelivery, ReservationIsOwned, ScheduledOnce
<1>5. ScheduledOnce'
  BY DEF DispatcherTypeOK, OneWorkerPerDelivery, ScheduledOnce
<1>6. ReservationPays'
  BY DEF DispatcherTypeOK, InFlightIsDelivery, OneWorkerPerDelivery, ReservationIsOwned, ReservationPays, AttemptBudget
<1>7. AttemptBudget'
  BY DEF DispatcherTypeOK, InFlightIsDelivery, ReservationPays, AttemptBudget
<1> QED BY <1>1, <1>2, <1>3, <1>4, <1>5, <1>6, <1>7

\* The answer decides what will be recorded.
LEMMA AnsweredKeepsInv ==
  ASSUME DispatcherInv, AttemptBudget, NEW w \in Workers, NEW result \in {"delivered", "permanent_failed", "retryable_failed"},
         NEW mark \in {"delivered", "failed", "retry"}, Answered(w, result, mark)
  PROVE  DispatcherInv' /\ AttemptBudget'
<1> USE NobodyAssumption, AttemptsAssumption, FaultsAssumption
<1> USE DEF DispatcherInv, Answered, OnlyWorker, rowVars,
            Snapshot, CoordState, WorkerState, InFlight, StillPending
<1>1. DispatcherTypeOK'
  <2>1. [worker[w] EXCEPT !.pc = "mark", !.mark = mark] \in WorkerState
    BY DEF DispatcherTypeOK
  <2>2. worker' = [worker EXCEPT ![w] = [worker[w] EXCEPT !.pc = "mark", !.mark = mark]]
    BY DEF DispatcherTypeOK
  <2>3. worker' \in [Workers -> WorkerState]
    BY <2>1, <2>2 DEF DispatcherTypeOK
  <2> QED BY <2>3 DEF DispatcherTypeOK, InFlightIsDelivery
<1>2. InFlightIsDelivery'
  BY DEF DispatcherTypeOK, InFlightIsDelivery
<1>3. OneWorkerPerDelivery'
  BY DEF DispatcherTypeOK, OneWorkerPerDelivery, ScheduledOnce
<1>4. ReservationIsOwned'
  BY DEF DispatcherTypeOK, InFlightIsDelivery, OneWorkerPerDelivery, ReservationIsOwned, ScheduledOnce
<1>5. ScheduledOnce'
  BY DEF DispatcherTypeOK, OneWorkerPerDelivery, ScheduledOnce
<1>6. ReservationPays'
  BY DEF DispatcherTypeOK, InFlightIsDelivery, OneWorkerPerDelivery, ReservationIsOwned, ReservationPays, AttemptBudget
<1>7. AttemptBudget'
  BY DEF DispatcherTypeOK, InFlightIsDelivery, ReservationPays, AttemptBudget
<1> QED BY <1>1, <1>2, <1>3, <1>4, <1>5, <1>6, <1>7

\* The outcome is recorded in the worker's own row.
LEMMA MarkKeepsInv ==
  ASSUME DispatcherInv, AttemptBudget, NEW w \in Workers, Mark(w)
  PROVE  DispatcherInv' /\ AttemptBudget'
<1> USE NobodyAssumption, AttemptsAssumption, FaultsAssumption
<1> USE DEF DispatcherInv, Mark, WorkerEnds, OnlyWorker, Free, Stopped,
            Snapshot, CoordState, WorkerState, InFlight, StillPending
<1>1. DispatcherTypeOK'
  BY ZenonT(60) DEF DispatcherTypeOK, InFlightIsDelivery
<1>2. InFlightIsDelivery'
  BY DEF DispatcherTypeOK, InFlightIsDelivery
<1>3. OneWorkerPerDelivery'
  BY DEF DispatcherTypeOK, OneWorkerPerDelivery, ScheduledOnce
<1>4. ReservationIsOwned'
  BY DEF DispatcherTypeOK, InFlightIsDelivery, OneWorkerPerDelivery, ReservationIsOwned, ScheduledOnce
<1>5. ScheduledOnce'
  BY DEF DispatcherTypeOK, OneWorkerPerDelivery, ScheduledOnce
<1>6. ReservationPays'
  BY DEF DispatcherTypeOK, InFlightIsDelivery, OneWorkerPerDelivery, ReservationIsOwned, ReservationPays, AttemptBudget
<1>7. AttemptBudget'
  BY DEF DispatcherTypeOK, InFlightIsDelivery, ReservationPays, AttemptBudget
<1> QED BY <1>1, <1>2, <1>3, <1>4, <1>5, <1>6, <1>7

\* A store error ends the worker's hold.
LEMMA WorkerRaisesKeepsInv ==
  ASSUME DispatcherInv, AttemptBudget, NEW w \in Workers, WorkerRaises(w)
  PROVE  DispatcherInv' /\ AttemptBudget'
<1> USE NobodyAssumption, AttemptsAssumption, FaultsAssumption
<1> USE DEF DispatcherInv, WorkerRaises, WorkerEnds, OnlyWorker, Free, Stopped, rowVars, Fault,
            Snapshot, CoordState, WorkerState, InFlight, StillPending
<1>1. DispatcherTypeOK'
  BY DEF DispatcherTypeOK, InFlightIsDelivery
<1>2. InFlightIsDelivery'
  BY DEF DispatcherTypeOK, InFlightIsDelivery
<1>3. OneWorkerPerDelivery'
  BY DEF DispatcherTypeOK, OneWorkerPerDelivery, ScheduledOnce
<1>4. ReservationIsOwned'
  BY DEF DispatcherTypeOK, InFlightIsDelivery, OneWorkerPerDelivery, ReservationIsOwned, ScheduledOnce
<1>5. ScheduledOnce'
  BY DEF DispatcherTypeOK, OneWorkerPerDelivery, ScheduledOnce
<1>6. ReservationPays'
  BY DEF DispatcherTypeOK, InFlightIsDelivery, OneWorkerPerDelivery, ReservationIsOwned, ReservationPays, AttemptBudget
<1>7. AttemptBudget'
  BY DEF DispatcherTypeOK, InFlightIsDelivery, ReservationPays, AttemptBudget
<1> QED BY <1>1, <1>2, <1>3, <1>4, <1>5, <1>6, <1>7

\* The coordinator stops.
LEMMA BeginShutdownKeepsInv ==
  ASSUME DispatcherInv, AttemptBudget, BeginShutdown
  PROVE  DispatcherInv' /\ AttemptBudget'
<1> USE NobodyAssumption, AttemptsAssumption, FaultsAssumption
<1> USE DEF DispatcherInv, BeginShutdown, rowVars, CoordStopped, Fault,
            Snapshot, CoordState, WorkerState, InFlight, StillPending
<1>1. DispatcherTypeOK'
  BY DEF DispatcherTypeOK, InFlightIsDelivery
<1>2. InFlightIsDelivery'
  BY DEF DispatcherTypeOK, InFlightIsDelivery
<1>3. OneWorkerPerDelivery'
  BY DEF DispatcherTypeOK, OneWorkerPerDelivery, ScheduledOnce
<1>4. ReservationIsOwned'
  BY DEF DispatcherTypeOK, InFlightIsDelivery, OneWorkerPerDelivery, ReservationIsOwned, ScheduledOnce
<1>5. ScheduledOnce'
  BY DEF DispatcherTypeOK, OneWorkerPerDelivery, ScheduledOnce
<1>6. ReservationPays'
  BY DEF DispatcherTypeOK, InFlightIsDelivery, OneWorkerPerDelivery, ReservationIsOwned, ReservationPays, AttemptBudget
<1>7. AttemptBudget'
  BY DEF DispatcherTypeOK, InFlightIsDelivery, ReservationPays, AttemptBudget
<1> QED BY <1>1, <1>2, <1>3, <1>4, <1>5, <1>6, <1>7

\* All workers stop.
LEMMA EndShutdownKeepsInv ==
  ASSUME DispatcherInv, AttemptBudget, EndShutdown
  PROVE  DispatcherInv' /\ AttemptBudget'
<1> USE NobodyAssumption, AttemptsAssumption, FaultsAssumption
<1> USE DEF DispatcherInv, EndShutdown, rowVars, Stopped,
            Snapshot, CoordState, WorkerState, InFlight, StillPending
<1>1. DispatcherTypeOK'
  BY DEF DispatcherTypeOK, InFlightIsDelivery
<1>2. InFlightIsDelivery'
  BY DEF DispatcherTypeOK, InFlightIsDelivery
<1>3. OneWorkerPerDelivery'
  BY DEF DispatcherTypeOK, OneWorkerPerDelivery, ScheduledOnce
<1>4. ReservationIsOwned'
  BY DEF DispatcherTypeOK, InFlightIsDelivery, OneWorkerPerDelivery, ReservationIsOwned, ScheduledOnce
<1>5. ScheduledOnce'
  BY DEF DispatcherTypeOK, OneWorkerPerDelivery, ScheduledOnce
<1>6. ReservationPays'
  BY DEF DispatcherTypeOK, InFlightIsDelivery, OneWorkerPerDelivery, ReservationIsOwned, ReservationPays, AttemptBudget
<1>7. AttemptBudget'
  BY DEF DispatcherTypeOK, InFlightIsDelivery, ReservationPays, AttemptBudget
<1> QED BY <1>1, <1>2, <1>3, <1>4, <1>5, <1>6, <1>7

\* Everything but the rows is gone.
LEMMA CrashKeepsInv ==
  ASSUME DispatcherInv, AttemptBudget, Crash
  PROVE  DispatcherInv' /\ AttemptBudget'
<1> USE NobodyAssumption, AttemptsAssumption, FaultsAssumption
<1> USE DEF DispatcherInv, Crash, rowVars, CoordStopped, Stopped, Fault,
            Snapshot, CoordState, WorkerState, InFlight, StillPending
<1>1. DispatcherTypeOK'
  BY DEF DispatcherTypeOK, InFlightIsDelivery
<1>2. InFlightIsDelivery'
  BY DEF DispatcherTypeOK, InFlightIsDelivery
<1>3. OneWorkerPerDelivery'
  BY DEF DispatcherTypeOK, OneWorkerPerDelivery, ScheduledOnce
<1>4. ReservationIsOwned'
  BY DEF DispatcherTypeOK, InFlightIsDelivery, OneWorkerPerDelivery, ReservationIsOwned, ScheduledOnce
<1>5. ScheduledOnce'
  BY DEF DispatcherTypeOK, OneWorkerPerDelivery, ScheduledOnce
<1>6. ReservationPays'
  BY DEF DispatcherTypeOK, InFlightIsDelivery, OneWorkerPerDelivery, ReservationIsOwned, ReservationPays, AttemptBudget
<1>7. AttemptBudget'
  BY DEF DispatcherTypeOK, InFlightIsDelivery, ReservationPays, AttemptBudget
<1> QED BY <1>1, <1>2, <1>3, <1>4, <1>5, <1>6, <1>7

\* Idle workers on the rows that are left.
LEMMA StartupKeepsInv ==
  ASSUME DispatcherInv, AttemptBudget, Startup
  PROVE  DispatcherInv' /\ AttemptBudget'
<1> USE NobodyAssumption, AttemptsAssumption, FaultsAssumption
<1> USE DEF DispatcherInv, Startup, rowVars, CoordStart, Free,
            Snapshot, CoordState, WorkerState, InFlight, StillPending
<1>1. DispatcherTypeOK'
  BY DEF DispatcherTypeOK, InFlightIsDelivery
<1>2. InFlightIsDelivery'
  BY DEF DispatcherTypeOK, InFlightIsDelivery
<1>3. OneWorkerPerDelivery'
  BY DEF DispatcherTypeOK, OneWorkerPerDelivery, ScheduledOnce
<1>4. ReservationIsOwned'
  BY DEF DispatcherTypeOK, InFlightIsDelivery, OneWorkerPerDelivery, ReservationIsOwned, ScheduledOnce
<1>5. ScheduledOnce'
  BY DEF DispatcherTypeOK, OneWorkerPerDelivery, ScheduledOnce
<1>6. ReservationPays'
  BY DEF DispatcherTypeOK, InFlightIsDelivery, OneWorkerPerDelivery, ReservationIsOwned, ReservationPays, AttemptBudget
<1>7. AttemptBudget'
  BY DEF DispatcherTypeOK, InFlightIsDelivery, ReservationPays, AttemptBudget
<1> QED BY <1>1, <1>2, <1>3, <1>4, <1>5, <1>6, <1>7

-----------------------------------------------------------------------------
\* Nothing is scheduled before the first intent.
LEMMA InitInv == Init => DispatcherInv /\ AttemptBudget
  BY NobodyAssumption, AttemptsAssumption, FaultsAssumption
     DEF Init, DispatcherInv, DispatcherTypeOK, InFlightIsDelivery, OneWorkerPerDelivery,
         ReservationIsOwned, ScheduledOnce, ReservationPays, AttemptBudget, InFlight,
         CoordStart, CoordState, Free, WorkerState, Snapshot

\* A stuttering step.
LEMMA StutterKeepsInv ==
  ASSUME DispatcherInv, AttemptBudget, UNCHANGED vars
  PROVE  DispatcherInv' /\ AttemptBudget'
  BY DEF vars, DispatcherInv, DispatcherTypeOK, InFlightIsDelivery, OneWorkerPerDelivery,
         ReservationIsOwned, ScheduledOnce, ReservationPays, AttemptBudget, InFlight,
         StillPending

\* Every step keeps the invariant.
LEMMA NextKeepsInv ==
  ASSUME DispatcherInv, AttemptBudget, [Next]_vars
  PROVE  DispatcherInv' /\ AttemptBudget'
<1>1. CASE \E d \in Deliveries :
              \/ \E notifies \in BOOLEAN : InsertIntent(d, notifies)
              \/ Notify(d) \/ BecomeDue(d) \/ BecomeAged(d) \/ ForgetRow(d)
  BY <1>1, InsertIntentKeepsInv, NotifyKeepsInv, BecomeDueKeepsInv, BecomeAgedKeepsInv,
     ForgetRowKeepsInv
<1>2. CASE CoordStep \/ CoordRaises
  BY <1>2, CoordClearKeepsInv, ReadExhaustedKeepsInv, FailExhaustedKeepsInv, ReadDueKeepsInv,
     PutDueKeepsInv, ReadNextKeepsInv, CoordWakesKeepsInv, CoordRaisesKeepsInv
     DEF CoordStep
<1>3. CASE \E w \in Workers : WorkerStep(w) \/ WorkerRaises(w)
  BY <1>3, GetDeliveryKeepsInv, CheckExhaustedKeepsInv, FailDeliveryKeepsInv,
     BeginAttemptKeepsInv, SendOnceKeepsInv, AnsweredKeepsInv, MarkKeepsInv,
     WorkerRaisesKeepsInv DEF WorkerStep
<1>4. CASE BeginShutdown \/ EndShutdown \/ Crash \/ Startup
  BY <1>4, BeginShutdownKeepsInv, EndShutdownKeepsInv, CrashKeepsInv, StartupKeepsInv
<1>5. CASE UNCHANGED vars
  BY <1>5, StutterKeepsInv
<1> QED BY <1>1, <1>2, <1>3, <1>4, <1>5 DEF Next

\* The dispatcher's tasks never share a delivery, although they work on
\* snapshots: what is queued or held is in _scheduled_ids once, and a reservation
\* stays with the worker that made it (webhook/dispatcher.py).
THEOREM DispatcherInvariant == Spec => []DispatcherInv
<1>1. Init => DispatcherInv /\ AttemptBudget
  BY InitInv
<1>2. (DispatcherInv /\ AttemptBudget) /\ [Next]_vars => (DispatcherInv /\ AttemptBudget)'
  BY NextKeepsInv
<1> QED BY <1>1, <1>2, PTL DEF Spec

\* Requests started never exceed the attempts reserved, nor these the limit,
\* for every limit and every number of faults (begin_attempt).
THEOREM AttemptBudgetHolds == Spec => []AttemptBudget
<1>1. Init => DispatcherInv /\ AttemptBudget
  BY InitInv
<1>2. (DispatcherInv /\ AttemptBudget) /\ [Next]_vars => (DispatcherInv /\ AttemptBudget)'
  BY NextKeepsInv
<1> QED BY <1>1, <1>2, PTL DEF Spec

\* No step touches a settled delivery, except to remove its row.
LEMMA StepKeepsSettled ==
  ASSUME DispatcherInv, [Next]_vars, NEW d \in Deliveries
  PROVE  KeepsSettled(d)
<1> USE DEF KeepsSettled
<1>t. /\ status \in [Deliveries -> {"none", "pending", "delivered", "failed", "gone"}]
      /\ posts \in [Deliveries -> Nat] /\ worker \in [Workers -> WorkerState]
      /\ \A snap \in coord.batch \cup queue : snap.id \in Deliveries
  BY DEF DispatcherInv, DispatcherTypeOK, CoordState, Snapshot
<1>1. ASSUME NEW e \in Deliveries, NEW notifies \in BOOLEAN, InsertIntent(e, notifies)
      PROVE  KeepsSettled(d)
  BY <1>t, <1>1 DEF InsertIntent
<1>2. ASSUME NEW e \in Deliveries, ForgetRow(e)
      PROVE  KeepsSettled(d)
  BY <1>t, <1>2 DEF ForgetRow
<1>3. ASSUME NEW e \in Deliveries, Notify(e) \/ BecomeDue(e) \/ BecomeAged(e)
      PROVE  KeepsSettled(d)
  BY <1>t, <1>3 DEF Notify, BecomeDue, BecomeAged, rowVars
<1>4. ASSUME NEW snap \in coord.batch, FailExhausted(snap)
      PROVE  KeepsSettled(d)
  BY <1>t, <1>4 DEF FailExhausted, OnlyCoord, StillPending
<1>5. CASE \/ CoordClear \/ ReadExhausted \/ ReadDue \/ PutDue \/ ReadNext \/ CoordWakes
           \/ CoordRaises
  <2>1. UNCHANGED <<status, posts>>
    <3>1. CASE PutDue
      BY <3>1, Zenon DEF PutDue, rowVars
    <3>2. CASE CoordClear \/ ReadExhausted \/ ReadDue \/ ReadNext \/ CoordWakes \/ CoordRaises
      BY <3>2 DEF CoordClear, ReadExhausted, ReadDue, ReadNext, CoordWakes, CoordRaises,
         OnlyCoord, rowVars
    <3> QED BY <1>5, <3>1, <3>2
  <2> QED BY <1>t, <2>1
<1>6. ASSUME NEW w \in Workers, FailDelivery(w) \/ Mark(w)
      PROVE  KeepsSettled(d)
  BY <1>t, <1>6 DEF FailDelivery, Mark, StillPending
<1>7. ASSUME NEW w \in Workers, SendOnce(w)
      PROVE  KeepsSettled(d)
  <2>1. status[worker[w].id] = "pending"
    BY <1>7 DEF SendOnce, DispatcherInv, ReservationIsOwned, StillPending
  <2> QED BY <1>t, <1>7, <2>1 DEF SendOnce, rowVars
<1>8. ASSUME NEW w \in Workers,
             \/ \E snap \in queue : GetDelivery(w, snap)
             \/ CheckExhausted(w) \/ BeginAttempt(w) \/ WorkerRaises(w)
             \/ \E result \in {"delivered", "permanent_failed", "retryable_failed"},
                   mark \in {"delivered", "failed", "retry"} : Answered(w, result, mark)
      PROVE  KeepsSettled(d)
  BY <1>t, <1>8 DEF GetDelivery, CheckExhausted, BeginAttempt, WorkerRaises, Answered, rowVars
<1>9. CASE BeginShutdown \/ EndShutdown \/ Crash \/ Startup
  BY <1>t, <1>9 DEF BeginShutdown, EndShutdown, Crash, Startup, rowVars
<1>10. CASE UNCHANGED vars
  BY <1>t, <1>10 DEF vars
<1> QED BY <1>1, <1>2, <1>3, <1>4, <1>5, <1>6, <1>7, <1>8, <1>9, <1>10
        DEF Next, CoordStep, WorkerStep

\* A settled delivery is never pending again and never sent again, even from a
\* stale snapshot.
THEOREM SettledIsFinalHolds == Spec => SettledIsFinal
<1>1. DispatcherInv /\ [Next]_vars => [\A d \in Deliveries : KeepsSettled(d)]_vars
  BY StepKeepsSettled
<1> QED BY <1>1, DispatcherInvariant, PTL DEF Spec, SettledIsFinal
=============================================================================
