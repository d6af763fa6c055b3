--------------------------- MODULE ArtifactsProofs ---------------------------
(***************************************************************************)
(* What TLAPS proves of Artifacts.tla for any finite set of runs, any      *)
(* limits of the cleanup and any number of saves and faults: a listed      *)
(* result is readable, and cleanup leaves active runs alone.               *)
(*                                                                         *)
(* Both are about steps that decide on what an earlier step saw.  The      *)
(* inductive invariant says what is still true of it when they act: a run  *)
(* found inactive is never active again, a row is gone before its file,    *)
(* and a result is on disk from its write to the end of its run.           *)
(***************************************************************************)
EXTENDS Artifacts, FiniteSetTheorems, TLAPS

(* Every save that has begun has an id left for its row.                   *)
SavesAreBounded == lastId + Cardinality(Saving) <= MaxSaves

(* A run that was never accepted has left no trace.                        *)
NewIsUntouched(r) ==
    life[r] = "new" =>
        /\ worker[r].pc = "off" /\ meta[r] = 0 /\ ~disk[r].dir /\ r \notin reported
        /\ r \notin cleaner.batch /\ cleaner.ids[r] = 0
        /\ cleaner.pc # "final" => r \notin cleaner.todo

(* What cleanup is about to remove is not the result of an active run.     *)
PickedIsInactive(r) ==
    Active(r) =>
        /\ cleaner.pc = "check" => r \notin cleaner.batch
        /\ cleaner.pc = "files" => r \notin cleaner.todo
        /\ cleaner.pc \in {"refs2", "active2", "remove"} => cleaner.ids[r] # 1

(* A reported run is over, and so is its worker.                           *)
ReportedIsOver(r) ==
    r \in reported => life[r] \in {"done", "pruned"} /\ worker[r].pc = "off"

(* Retention knows the row of what it selected, unless that was replaced.  *)
SelectedIsCurrent(r) ==
    r \notin overtaken /\ cleaner.pc = "check" =>
        /\ r \in cleaner.todo => meta[r] \in {0, cleaner.ids[r]}
        /\ r \in cleaner.batch \cap reported => meta[r] \in {0, cleaner.ids[r]}

(* The file of a reported result goes after its row.                       *)
RowGoesFirst(r) ==
    r \in reported \ overtaken =>
        /\ cleaner.pc = "files" /\ r \in cleaner.todo => meta[r] = 0
        /\ cleaner.pc \in {"active2", "remove"} /\ cleaner.ids[r] = 1 => meta[r] = 0

(* What a worker has written is there when it commits, and what it has     *)
(* committed until its own discard; a second save keeps it aside.          *)
SavedIsOnDisk(r) ==
    Active(r) =>
        /\ worker[r].pc = "commit" => disk[r].file
        /\ worker[r].pc \notin {"off", "row"} /\ meta[r] # 0 => disk[r].file
        /\ worker[r].pc \in {"write", "commit", "restore"} /\ meta[r] # 0 => worker[r].prev

Readable(r) ==
    r \in reported \ overtaken /\ meta[r] # 0 /\ policy # "drop" => disk[r].file

(* Between two phases the cleanup task remembers nothing.                  *)
RestsBetweenPhases == cleaner.pc = "select" => cleaner.todo = {} /\ cleaner.batch = {} /\ cleaner.ids = NoIds

(* The sweep looks at one directory at a time.                             *)
OneEntryAtATime ==
    cleaner.phase = "artifacts" =>
        \A a, b \in Runs : cleaner.ids[a] = 1 /\ cleaner.ids[b] = 1 => a = b

(* A reservation is never taken over with another policy.                  *)
ReservationHolds ==
    /\ job = "up" => policy = "none"
    /\ eraser.pc # "idle" => eraser.policy = policy /\ job # "up" /\ policy # "none"
    /\ eraser.pc \in {"rows", "remove", "ids"} => eraser.policy = "drop"

RunInv(r) ==
    /\ NewIsUntouched(r) /\ PickedIsInactive(r) /\ ReportedIsOver(r) /\ SelectedIsCurrent(r)
    /\ RowGoesFirst(r) /\ SavedIsOnDisk(r) /\ Readable(r)

ArtifactsInv ==
    /\ ArtifactsTypeOK /\ SavesAreBounded /\ RestsBetweenPhases /\ OneEntryAtATime
    /\ ReservationHolds
    /\ \A r \in Runs : RunInv(r)

-----------------------------------------------------------------------------
(* The count of saves.                                                     *)

(* A save that ends gives its id back.                                     *)
LEMMA SavingShrinks ==
  ASSUME ArtifactsTypeOK, SavesAreBounded, Saving' \subseteq Saving, lastId' = lastId
  PROVE  SavesAreBounded'
<1>1. IsFiniteSet(Saving)
  BY RunsAssumption, FS_Subset DEF Saving
<1>2. IsFiniteSet(Saving') /\ Cardinality(Saving') <= Cardinality(Saving)
  BY <1>1, FS_Subset
<1>3. Cardinality(Saving) \in Nat /\ Cardinality(Saving') \in Nat
  BY <1>1, <1>2, FS_CardinalityType
<1> QED
  BY <1>2, <1>3, SavesAssumption DEF SavesAreBounded, ArtifactsTypeOK

-----------------------------------------------------------------------------
(* Types of the pieces of state that the actions put together.             *)

(* The resting states are states.                                          *)
LEMMA RestingTypes ==
  /\ NoIds \in Ids /\ Off \in WorkerState /\ NoDir \in DirState
  /\ Resting \in CleanerState /\ Unasked \in EraserState
<1>1. NoIds \in Ids
  BY SavesAssumption DEF NoIds, Ids
<1>2. Off \in WorkerState /\ NoDir \in DirState
  BY SavesAssumption DEF Off, WorkerState, WorkerPc, NoDir, DirState
<1>3. Resting \in CleanerState
  BY <1>1 DEF Resting, CleanerState, CleanerPc, Phase
<1>4. Unasked \in EraserState
  BY <1>1 DEF Unasked, EraserState
<1> QED BY <1>1, <1>2, <1>3, <1>4

(* A worker that moves on.                                                 *)
LEMMA WorkerAtType ==
  ASSUME ArtifactsTypeOK, NEW r \in Runs, NEW pc \in WorkerPc, WorkerAt(r, pc)
  PROVE  worker' \in [Runs -> WorkerState]
  BY DEF ArtifactsTypeOK, WorkerAt, WorkerState

(* A worker that is off, or at rest at some step.                          *)
LEMMA WorkerRestsType ==
  ASSUME ArtifactsTypeOK, NEW r \in Runs, NEW pc \in WorkerPc, NEW budget \in BOOLEAN,
         WorkerOff(r) \/ WorkerRests(r, pc, budget)
  PROVE  worker' \in [Runs -> WorkerState]
<1>1. Off \in WorkerState /\ [Off EXCEPT !.pc = pc, !.budget = budget] \in WorkerState
  BY RestingTypes DEF WorkerState
<1> QED BY <1>1 DEF ArtifactsTypeOK, WorkerOff, WorkerRests

(* A worker that begins a save keeps the count of them.                    *)
LEMMA BeginSaveKeeps ==
  ASSUME ArtifactsTypeOK, SavesAreBounded, NEW r \in Runs, NEW budget \in BOOLEAN,
         worker[r].pc \in {"run", "saved", "restore"}, BeginSave(r, budget),
         lastId' = lastId
  PROVE  /\ worker' \in [Runs -> WorkerState] /\ SavesAreBounded'
         /\ worker'[r].pc \in {"ensure", "lookup"}
         /\ \A q \in Runs \ {r} : worker'[q] = worker[q]
<1>1. worker' \in [Runs -> WorkerState]
  BY WorkerRestsType DEF WorkerPc, BeginSave
<1>2. worker'[r].pc \in {"ensure", "lookup"} /\ \A q \in Runs \ {r} : worker'[q] = worker[q]
  BY DEF BeginSave, WorkerRests, Off, ArtifactsTypeOK
<1>3. SavesAreBounded'
  <2>1. IsFiniteSet(Saving) /\ Cardinality(Saving) \in Nat
    BY RunsAssumption, FS_Subset, FS_CardinalityType DEF Saving
  <2>2. r \notin Saving
    BY DEF Saving
  <2>3. Saving' \subseteq Saving \/ Saving' = Saving \cup {r}
    BY <1>2 DEF Saving
  <2>4. CASE Saving' = Saving \cup {r}
    <3>1. Cardinality(Saving') = Cardinality(Saving) + 1
      BY <2>1, <2>2, <2>4, FS_AddElement
    <3> QED BY <2>1, <3>1, SavesAssumption DEF SavesAreBounded, ArtifactsTypeOK, BeginSave
  <2> QED BY <2>3, <2>4, SavingShrinks
<1> QED BY <1>1, <1>2, <1>3

(* The end of a phase of the cleanup.                                      *)
LEMMA PhaseOverType ==
  ASSUME ArtifactsTypeOK, PhaseOver
  PROVE  /\ cleaner' \in CleanerState
         /\ cleaner'.pc = "select" /\ cleaner'.todo = {} /\ cleaner'.batch = {}
         /\ cleaner'.ids = NoIds
<1>1. NextPhase[cleaner.phase] \in Phase
  BY DEF ArtifactsTypeOK, CleanerState, NextPhase, Phase
<1> QED BY <1>1, RestingTypes DEF PhaseOver, CleanerState, Resting

(* The sweep turns to an entry, or away from it.                           *)
LEMMA SweepTypes ==
  ASSUME ArtifactsTypeOK
  PROVE  /\ SweepSkip => cleaner' \in CleanerState
         /\ \A r \in Runs, pc \in CleanerPc : SweepAt(r, pc) => cleaner' \in CleanerState
<1>1. \A r \in Runs : [NoIds EXCEPT ![r] = 1] \in Ids
  BY RestingTypes, SavesAssumption DEF Ids
<1>2. SweepSkip => cleaner' \in CleanerState
  BY RestingTypes DEF ArtifactsTypeOK, SweepSkip, CleanerState, CleanerPc
<1>3. ASSUME NEW r \in Runs, NEW pc \in CleanerPc, SweepAt(r, pc) PROVE cleaner' \in CleanerState
  BY <1>1, <1>3 DEF ArtifactsTypeOK, SweepAt, CleanerState
<1> QED BY <1>2, <1>3

(* The cleanup moves to another step.                                      *)
LEMMA CleanerMovesType ==
  ASSUME ArtifactsTypeOK, NEW pc \in CleanerPc, cleaner' = [cleaner EXCEPT !.pc = pc]
  PROVE  cleaner' \in CleanerState
  BY DEF ArtifactsTypeOK, CleanerState

(* A sweep that starts over looks at no entry.                             *)
LEMMA NoneMarked ==
  ASSUME \A a \in Runs : cleaner'.ids[a] = 0
  PROVE  OneEntryAtATime'
BY DEF OneEntryAtATime

(* A sweep that takes an entry looks at no other.                          *)
LEMMA OneMarked ==
  ASSUME NEW r \in Runs, cleaner'.ids = [NoIds EXCEPT ![r] = 1]
  PROVE  OneEntryAtATime'
BY DEF OneEntryAtATime, NoIds

-----------------------------------------------------------------------------
(* One lemma per action.                                                   *)

(* A run is accepted.                                                      *)
LEMMA StartRunKeepsInv ==
  ASSUME ArtifactsInv, NEW r \in Runs, StartRun(r)
  PROVE  ArtifactsInv'
<1> USE DEF ArtifactsInv, StartRun
<1>1. ArtifactsTypeOK'
  <2>1. worker' \in [Runs -> WorkerState]
    BY SavesAssumption DEF ArtifactsTypeOK, WorkerState, WorkerPc, WorkerAt, Others,
        fileVars
  <2> QED
    BY <2>1, PolicyAssumption, ArtifactFaultsAssumption
    DEF ArtifactsTypeOK, WorkerAt, Others, fileVars
<1> USE DEF WorkerAt, Others, fileVars
<1>2. SavesAreBounded'
  <2>1. Saving' \subseteq Saving /\ lastId' = lastId
    BY DEF Saving, ArtifactsTypeOK, WorkerState
  <2> QED BY <2>1, SavingShrinks
<1>3. RestsBetweenPhases' /\ ReservationHolds'
  BY PolicyAssumption DEF RestsBetweenPhases, ReservationHolds, ArtifactsTypeOK, CleanerState, EraserState
<1>4. ASSUME NEW q \in Runs PROVE RunInv(q)'
  BY DEF ArtifactsTypeOK, RestsBetweenPhases, ReservationHolds, Active, Ids,
      CleanerState, EraserState, WorkerState, DirState, RunInv, NewIsUntouched,
      PickedIsInactive, ReportedIsOver, SelectedIsCurrent, RowGoesFirst, SavedIsOnDisk,
      Readable
<1>5. OneEntryAtATime'
  BY DEF OneEntryAtATime, RestsBetweenPhases, ArtifactsTypeOK, CleanerState, Ids
<1> QED BY <1>1, <1>2, <1>3, <1>4, <1>5

(* A run fails before there is a result.                                   *)
LEMMA RunFailsKeepsInv ==
  ASSUME ArtifactsInv, NEW r \in Runs, RunFails(r)
  PROVE  ArtifactsInv'
<1> USE DEF ArtifactsInv, RunFails
<1>1. ArtifactsTypeOK'
  <2>1. worker' \in [Runs -> WorkerState]
    BY SavesAssumption DEF ArtifactsTypeOK, WorkerState, WorkerPc, Failed, WorkerOff,
        Others, fileVars, Off
  <2> QED
    BY <2>1, PolicyAssumption, ArtifactFaultsAssumption
    DEF ArtifactsTypeOK, Failed, WorkerOff, Others, fileVars, Off
<1> USE DEF Failed, WorkerOff, Others, fileVars, Off
<1>2. SavesAreBounded'
  <2>1. Saving' \subseteq Saving /\ lastId' = lastId
    BY DEF Saving, ArtifactsTypeOK, WorkerState
  <2> QED BY <2>1, SavingShrinks
<1>3. RestsBetweenPhases' /\ ReservationHolds'
  BY PolicyAssumption DEF RestsBetweenPhases, ReservationHolds, ArtifactsTypeOK, CleanerState, EraserState
<1>4. ASSUME NEW q \in Runs PROVE RunInv(q)'
  BY DEF ArtifactsTypeOK, RestsBetweenPhases, ReservationHolds, Active, Ids,
      CleanerState, EraserState, WorkerState, DirState, RunInv, NewIsUntouched,
      PickedIsInactive, ReportedIsOver, SelectedIsCurrent, RowGoesFirst, SavedIsOnDisk,
      Readable
<1>5. OneEntryAtATime'
  BY DEF OneEntryAtATime, RestsBetweenPhases, ArtifactsTypeOK, CleanerState, Ids
<1> QED BY <1>1, <1>2, <1>3, <1>4, <1>5

(* Recovery or a cancel settles a run.                                     *)
LEMMA SettleRunKeepsInv ==
  ASSUME ArtifactsInv, NEW r \in Runs, SettleRun(r)
  PROVE  ArtifactsInv'
<1> USE DEF ArtifactsInv, SettleRun
<1>1. ArtifactsTypeOK'
  <2> QED
    BY PolicyAssumption, ArtifactFaultsAssumption
    DEF ArtifactsTypeOK, Others, fileVars
<1> USE DEF Others, fileVars
<1>2. SavesAreBounded'
  <2>1. Saving' \subseteq Saving /\ lastId' = lastId
    BY DEF Saving, ArtifactsTypeOK, WorkerState
  <2> QED BY <2>1, SavingShrinks
<1>3. RestsBetweenPhases' /\ ReservationHolds'
  BY PolicyAssumption DEF RestsBetweenPhases, ReservationHolds, ArtifactsTypeOK, CleanerState, EraserState
<1>4. ASSUME NEW q \in Runs PROVE RunInv(q)'
  BY DEF ArtifactsTypeOK, RestsBetweenPhases, ReservationHolds, Active, Ids,
      CleanerState, EraserState, WorkerState, DirState, RunInv, NewIsUntouched,
      PickedIsInactive, ReportedIsOver, SelectedIsCurrent, RowGoesFirst, SavedIsOnDisk,
      Readable
<1>5. OneEntryAtATime'
  BY DEF OneEntryAtATime, RestsBetweenPhases, ArtifactsTypeOK, CleanerState, Ids
<1> QED BY <1>1, <1>2, <1>3, <1>4, <1>5

(* A save begins.                                                          *)
LEMMA SaveBeginKeepsInv ==
  ASSUME ArtifactsInv, NEW r \in Runs, SaveBegin(r)
  PROVE  ArtifactsInv'
<1> USE DEF ArtifactsInv, SaveBegin, WorkerFrame, Others, jobVars, fileVars
<1>0. /\ worker' \in [Runs -> WorkerState] /\ SavesAreBounded'
      /\ worker'[r].pc \in {"ensure", "lookup"}
      /\ \A q \in Runs \ {r} : worker'[q] = worker[q]
  BY BeginSaveKeeps
<1>1. ArtifactsTypeOK'
  BY <1>0, PolicyAssumption, ArtifactFaultsAssumption DEF ArtifactsTypeOK
<1>3. RestsBetweenPhases' /\ ReservationHolds'
  BY PolicyAssumption DEF RestsBetweenPhases, ReservationHolds, ArtifactsTypeOK, CleanerState, EraserState
<1>4. ASSUME NEW q \in Runs PROVE RunInv(q)'
  BY <1>0 DEF ArtifactsTypeOK, RestsBetweenPhases, ReservationHolds, Active, Ids,
      CleanerState, EraserState, WorkerState, DirState, RunInv, NewIsUntouched,
      PickedIsInactive, ReportedIsOver, SelectedIsCurrent, RowGoesFirst, SavedIsOnDisk,
      Readable
<1>5. OneEntryAtATime'
  BY DEF OneEntryAtATime, RestsBetweenPhases, ArtifactsTypeOK, CleanerState, Ids
<1> QED BY <1>0, <1>1, <1>3, <1>4, <1>5

(* The directory is made.                                                  *)
LEMMA SaveEnsureKeepsInv ==
  ASSUME ArtifactsInv, NEW r \in Runs, SaveEnsure(r)
  PROVE  ArtifactsInv'
<1> USE DEF ArtifactsInv, SaveEnsure
<1>1. ArtifactsTypeOK'
  <2>1. worker' \in [Runs -> WorkerState]
    <3>1. disk[r].dir \in BOOLEAN /\ disk[r].file \in BOOLEAN
      BY DEF ArtifactsTypeOK, DirState
    <3> QED BY <3>1 DEF ArtifactsTypeOK, WorkerState, WorkerPc
  <2>2. disk' \in [Runs -> DirState]
    BY SavesAssumption, ZenonT(60) DEF ArtifactsTypeOK, DirState, WorkerFrame, Others, jobVars
  <2> QED
    BY <2>1, <2>2, PolicyAssumption, ArtifactFaultsAssumption
    DEF ArtifactsTypeOK, WorkerFrame, Others, jobVars
<1> USE DEF WorkerFrame, Others, jobVars
<1>2. SavesAreBounded'
  <2>1. Saving' \subseteq Saving /\ lastId' = lastId
    BY DEF Saving, ArtifactsTypeOK, WorkerState
  <2> QED BY <2>1, SavingShrinks
<1>3. RestsBetweenPhases' /\ ReservationHolds'
  BY PolicyAssumption DEF RestsBetweenPhases, ReservationHolds, ArtifactsTypeOK, CleanerState, EraserState
<1>4. ASSUME NEW q \in Runs PROVE RunInv(q)'
  BY DEF ArtifactsTypeOK, RestsBetweenPhases, ReservationHolds, Active, Ids,
      CleanerState, EraserState, WorkerState, DirState, RunInv, NewIsUntouched,
      PickedIsInactive, ReportedIsOver, SelectedIsCurrent, RowGoesFirst, SavedIsOnDisk,
      Readable
<1>5. OneEntryAtATime'
  BY DEF OneEntryAtATime, RestsBetweenPhases, ArtifactsTypeOK, CleanerState, Ids
<1> QED BY <1>1, <1>2, <1>3, <1>4, <1>5

(* The file is written, or not.                                            *)
LEMMA SaveWriteKeepsInv ==
  ASSUME ArtifactsInv, NEW r \in Runs, SaveWrite(r)
  PROVE  ArtifactsInv'
<1> USE DEF ArtifactsInv, SaveWrite
<1>1. ArtifactsTypeOK'
  <2>1. worker' \in [Runs -> WorkerState]
    BY WorkerAtType, WorkerRestsType DEF WorkerPc
  <2>2. disk' \in [Runs -> DirState]
    <3>1. CASE disk' = [disk EXCEPT ![r].file = TRUE, ![r].fresh = TRUE]
      BY <3>1 DEF ArtifactsTypeOK, DirState
    <3>2. CASE UNCHANGED disk
      BY <3>2 DEF ArtifactsTypeOK
    <3> QED BY <3>1, <3>2
  <2> QED
    BY <2>1, <2>2, PolicyAssumption, ArtifactFaultsAssumption
    DEF ArtifactsTypeOK, WorkerAt, WorkerFrame, Others, jobVars, Fault
<1> USE DEF WorkerAt, WorkerFrame, Others, jobVars, Fault
<1>2. SavesAreBounded'
  <2>1. Saving' \subseteq Saving /\ lastId' = lastId
    BY DEF Saving, ArtifactsTypeOK, WorkerState
  <2> QED BY <2>1, SavingShrinks
<1>3. RestsBetweenPhases' /\ ReservationHolds'
  BY PolicyAssumption DEF RestsBetweenPhases, ReservationHolds, ArtifactsTypeOK, CleanerState, EraserState
<1>4. ASSUME NEW q \in Runs PROVE RunInv(q)'
  <2>1. CASE /\ disk' = [disk EXCEPT ![r].file = TRUE, ![r].fresh = TRUE] /\ disk[r].dir
             /\ WorkerAt(r, "commit")
    BY <2>1 DEF ArtifactsTypeOK, RestsBetweenPhases, ReservationHolds, Active, Ids,
        CleanerState, EraserState, WorkerState, DirState, RunInv, NewIsUntouched,
        PickedIsInactive, ReportedIsOver, SelectedIsCurrent, RowGoesFirst,
        SavedIsOnDisk, Readable
  <2>2. CASE WorkerAt(r, "restore") /\ UNCHANGED disk
    BY <2>2 DEF ArtifactsTypeOK, RestsBetweenPhases, ReservationHolds, Active, Ids,
        CleanerState, EraserState, WorkerState, DirState, RunInv, NewIsUntouched,
        PickedIsInactive, ReportedIsOver, SelectedIsCurrent, RowGoesFirst,
        SavedIsOnDisk, Readable
  <2> QED BY <2>1, <2>2
<1>5. OneEntryAtATime'
  BY DEF OneEntryAtATime, RestsBetweenPhases, ArtifactsTypeOK, CleanerState, Ids
<1> QED BY <1>1, <1>2, <1>3, <1>4, <1>5

(* The row is inserted, or not.                                            *)
LEMMA SaveCommitKeepsInv ==
  ASSUME ArtifactsInv, NEW r \in Runs, SaveCommit(r)
  PROVE  ArtifactsInv'
<1> USE DEF ArtifactsInv, SaveCommit
<1>1. ArtifactsTypeOK'
  <2>1. worker' \in [Runs -> WorkerState]
    <3>1. worker[r].budget \in BOOLEAN
      BY DEF ArtifactsTypeOK, WorkerState
    <3> QED BY <3>1, WorkerAtType, WorkerRestsType DEF WorkerPc
  <2>2. meta' \in Ids /\ lastId' \in 0..MaxSaves
    <3>1. lastId + 1 \in 0..MaxSaves
      <4>1. IsFiniteSet(Saving) /\ r \in Saving
        BY RunsAssumption, FS_Subset DEF Saving
      <4>2. Cardinality(Saving) \in Nat /\ Cardinality(Saving) # 0
        BY <4>1, FS_CardinalityType, FS_EmptySet
      <4> QED BY <4>2, SavesAssumption DEF SavesAreBounded, ArtifactsTypeOK
    <3> QED BY <3>1 DEF ArtifactsTypeOK, Ids
  <2> QED
    BY <2>1, <2>2, PolicyAssumption, ArtifactFaultsAssumption
    DEF ArtifactsTypeOK, WorkerAt, WorkerRests, WorkerFrame, Others, jobVars,
        Fault, Off
<1> USE DEF WorkerAt, WorkerRests, WorkerFrame, Others, jobVars,
        Fault, Off
<1>2. SavesAreBounded'
  <2>1. IsFiniteSet(Saving) /\ Cardinality(Saving) \in Nat
    BY RunsAssumption, FS_Subset, FS_CardinalityType DEF Saving
  <2>2. r \in Saving /\ Saving' = Saving \ {r}
    <3>1. worker'[r].pc \in {"saved", "restore"} /\ \A q \in Runs \ {r} : worker'[q] = worker[q]
      <4> HIDE DEF ArtifactsInv, SaveCommit
      <4>1. WorkerRests(r, "saved", worker[r].budget) \/ WorkerAt(r, "restore")
        BY DEF SaveCommit
      <4>2. worker \in [Runs -> WorkerState]
        BY DEF ArtifactsInv, ArtifactsTypeOK
      <4> QED BY <4>1, <4>2 DEF WorkerState
    <3>2. worker[r].pc = "commit"
      OBVIOUS
    <3> HIDE DEF ArtifactsInv, SaveCommit
    <3> QED BY <3>1, <3>2 DEF Saving
  <2>3. Cardinality(Saving') = Cardinality(Saving) - 1
    BY <2>1, <2>2, FS_RemoveElement
  <2> QED BY <2>1, <2>3, SavesAssumption DEF SavesAreBounded, ArtifactsTypeOK
<1>3. RestsBetweenPhases' /\ ReservationHolds'
  BY PolicyAssumption DEF RestsBetweenPhases, ReservationHolds, ArtifactsTypeOK, CleanerState, EraserState
<1>4. ASSUME NEW q \in Runs PROVE RunInv(q)'
  <2>1. CASE Fault /\ WorkerAt(r, "restore") /\ UNCHANGED <<meta, old, lastId, overtaken>>
    BY <2>1 DEF ArtifactsTypeOK, RestsBetweenPhases, ReservationHolds, Active, Ids,
        CleanerState, EraserState, WorkerState, DirState, RunInv, NewIsUntouched,
        PickedIsInactive, ReportedIsOver, SelectedIsCurrent, RowGoesFirst,
        SavedIsOnDisk, Readable
  <2>2. CASE /\ meta' = [meta EXCEPT ![r] = lastId + 1]
             /\ overtaken' = IF cleaner.pc = "check" /\ r \in cleaner.todo
                             THEN overtaken \cup {r} ELSE overtaken
             /\ WorkerRests(r, "saved", worker[r].budget)
    <3>1. /\ worker'[r].pc = "saved" /\ r \notin reported /\ life[r] # "new"
      BY <2>2 DEF ArtifactsTypeOK, RestsBetweenPhases, ReservationHolds, Active, Ids,
          CleanerState, EraserState, WorkerState, DirState, RunInv, NewIsUntouched,
          PickedIsInactive, ReportedIsOver, SelectedIsCurrent, RowGoesFirst,
          SavedIsOnDisk, Readable
    <3>2. CASE q = r
      BY <2>2, <3>1, <3>2 DEF ArtifactsTypeOK, RestsBetweenPhases, ReservationHolds,
          Active, Ids, CleanerState, EraserState, WorkerState, DirState, RunInv,
          NewIsUntouched, PickedIsInactive, ReportedIsOver, SelectedIsCurrent,
          RowGoesFirst, SavedIsOnDisk, Readable
    <3>3. CASE q # r
      BY <2>2, <3>3 DEF ArtifactsTypeOK, RestsBetweenPhases, ReservationHolds, Active,
          Ids, CleanerState, EraserState, WorkerState, DirState, RunInv, NewIsUntouched,
          PickedIsInactive, ReportedIsOver, SelectedIsCurrent, RowGoesFirst,
          SavedIsOnDisk, Readable
    <3> QED BY <3>2, <3>3
  <2> QED BY <2>1, <2>2
<1>5. OneEntryAtATime'
  BY DEF OneEntryAtATime, RestsBetweenPhases, ArtifactsTypeOK, CleanerState, Ids
<1> QED BY <1>1, <1>2, <1>3, <1>4, <1>5

(* The previous file is put back.                                          *)
LEMMA RestoreKeepsInv ==
  ASSUME ArtifactsInv, NEW r \in Runs, Restore(r)
  PROVE  ArtifactsInv'
<1> USE DEF ArtifactsInv, Restore, WorkerFrame, Others, jobVars
<1>0. /\ worker' \in [Runs -> WorkerState] /\ SavesAreBounded'
      /\ worker'[r].pc \in {"saved", "lookup", "ensure"}
      /\ \A q \in Runs \ {r} : worker'[q] = worker[q]
  <2>1. CASE BeginSave(r, TRUE)
    BY <2>1, BeginSaveKeeps
  <2>2. ASSUME NEW pc \in {"saved", "lookup"}, NEW budget \in BOOLEAN, WorkerRests(r, pc, budget)
        PROVE  /\ worker' \in [Runs -> WorkerState] /\ SavesAreBounded'
               /\ worker'[r].pc \in {"saved", "lookup", "ensure"}
               /\ \A q \in Runs \ {r} : worker'[q] = worker[q]
    <3>1. worker' \in [Runs -> WorkerState]
      BY <2>2, WorkerRestsType DEF WorkerPc
    <3>2. worker'[r].pc = pc /\ \A q \in Runs \ {r} : worker'[q] = worker[q]
      BY <2>2 DEF WorkerRests, Off, ArtifactsTypeOK
    <3>3. Saving' \subseteq Saving
      BY <3>2 DEF Saving
    <3> QED BY <3>1, <3>2, <3>3, SavingShrinks
  <2> QED BY <2>1, <2>2
<1>a. /\ disk' \in [Runs -> DirState] /\ \A q \in Runs \ {r} : disk'[q] = disk[q]
      /\ ~disk[r].dir => disk'[r].dir = disk[r].dir /\ disk'[r].file = disk[r].file
      /\ worker[r].prev /\ disk[r].file => disk'[r].file
  BY SavesAssumption DEF ArtifactsTypeOK, DirState, NoDir
<1>1. ArtifactsTypeOK'
  BY <1>0, <1>a, PolicyAssumption, ArtifactFaultsAssumption DEF ArtifactsTypeOK
<1>3. RestsBetweenPhases' /\ ReservationHolds'
  BY PolicyAssumption DEF RestsBetweenPhases, ReservationHolds, ArtifactsTypeOK, CleanerState, EraserState
<1>4. ASSUME NEW q \in Runs PROVE RunInv(q)'
  BY <1>0, <1>a DEF ArtifactsTypeOK, RestsBetweenPhases, ReservationHolds, Active, Ids,
      CleanerState, EraserState, WorkerState, DirState, RunInv, NewIsUntouched,
      PickedIsInactive, ReportedIsOver, SelectedIsCurrent, RowGoesFirst, SavedIsOnDisk,
      Readable
<1>5. OneEntryAtATime'
  BY DEF OneEntryAtATime, RestsBetweenPhases, ArtifactsTypeOK, CleanerState, Ids
<1> QED BY <1>0, <1>1, <1>3, <1>4, <1>5

(* The budget handler saves again.                                         *)
LEMMA BudgetExceededKeepsInv ==
  ASSUME ArtifactsInv, NEW r \in Runs, BudgetExceeded(r)
  PROVE  ArtifactsInv'
<1> USE DEF ArtifactsInv, BudgetExceeded, WorkerFrame, Others, jobVars, fileVars
<1>0. /\ worker' \in [Runs -> WorkerState] /\ SavesAreBounded'
      /\ worker'[r].pc \in {"ensure", "lookup"}
      /\ \A q \in Runs \ {r} : worker'[q] = worker[q]
  BY BeginSaveKeeps
<1>1. ArtifactsTypeOK'
  BY <1>0, PolicyAssumption, ArtifactFaultsAssumption DEF ArtifactsTypeOK
<1>3. RestsBetweenPhases' /\ ReservationHolds'
  BY PolicyAssumption DEF RestsBetweenPhases, ReservationHolds, ArtifactsTypeOK, CleanerState, EraserState
<1>4. ASSUME NEW q \in Runs PROVE RunInv(q)'
  BY <1>0 DEF ArtifactsTypeOK, RestsBetweenPhases, ReservationHolds, Active, Ids,
      CleanerState, EraserState, WorkerState, DirState, RunInv, NewIsUntouched,
      PickedIsInactive, ReportedIsOver, SelectedIsCurrent, RowGoesFirst, SavedIsOnDisk,
      Readable
<1>5. OneEntryAtATime'
  BY DEF OneEntryAtATime, RestsBetweenPhases, ArtifactsTypeOK, CleanerState, Ids
<1> QED BY <1>0, <1>1, <1>3, <1>4, <1>5

(* The outcome is recorded.                                                *)
LEMMA FinishKeepsInv ==
  ASSUME ArtifactsInv, NEW r \in Runs, Finish(r)
  PROVE  ArtifactsInv'
<1> USE DEF ArtifactsInv, Finish
<1>1. ArtifactsTypeOK'
  <2>1. worker' \in [Runs -> WorkerState]
    BY WorkerRestsType DEF WorkerPc
  <2> QED
    BY <2>1, PolicyAssumption, ArtifactFaultsAssumption
    DEF ArtifactsTypeOK, WorkerOff, Others, fileVars, Off
<1> USE DEF WorkerOff, Others, fileVars, Off
<1>2. SavesAreBounded'
  <2>1. Saving' \subseteq Saving /\ lastId' = lastId
    BY DEF Saving, ArtifactsTypeOK, WorkerState
  <2> QED BY <2>1, SavingShrinks
<1>3. RestsBetweenPhases' /\ ReservationHolds'
  BY PolicyAssumption DEF RestsBetweenPhases, ReservationHolds, ArtifactsTypeOK, CleanerState, EraserState
<1>4. ASSUME NEW q \in Runs PROVE RunInv(q)'
  <2>1. CASE q = r
    BY <2>1 DEF ArtifactsTypeOK, RestsBetweenPhases, ReservationHolds, Active,
        Ids, CleanerState, EraserState, WorkerState, DirState, RunInv, NewIsUntouched,
        PickedIsInactive, ReportedIsOver, SelectedIsCurrent, RowGoesFirst,
        SavedIsOnDisk, Readable
  <2>2. CASE q # r
    BY <2>2 DEF ArtifactsTypeOK, RestsBetweenPhases, ReservationHolds, Active,
        Ids, CleanerState, EraserState, WorkerState, DirState, RunInv, NewIsUntouched,
        PickedIsInactive, ReportedIsOver, SelectedIsCurrent, RowGoesFirst,
        SavedIsOnDisk, Readable
  <2> QED BY <2>1, <2>2
<1>5. OneEntryAtATime'
  BY DEF OneEntryAtATime, RestsBetweenPhases, ArtifactsTypeOK, CleanerState, Ids
<1> QED BY <1>1, <1>2, <1>3, <1>4, <1>5

(* A result is given up.                                                   *)
LEMMA DiscardKeepsInv ==
  ASSUME ArtifactsInv, NEW r \in Runs, Discard(r)
  PROVE  ArtifactsInv'
<1> USE DEF ArtifactsInv, Discard, WorkerFrame, Others, jobVars, fileVars
<1>0. /\ worker' \in [Runs -> WorkerState] /\ worker'[r].pc = "lookup"
      /\ \A q \in Runs \ {r} : worker'[q] = worker[q]
  <2>1. worker' \in [Runs -> WorkerState]
    BY WorkerRestsType DEF WorkerPc
  <2> QED BY <2>1 DEF WorkerRests, Off, ArtifactsTypeOK
<1>1. ArtifactsTypeOK'
  BY <1>0, PolicyAssumption, ArtifactFaultsAssumption DEF ArtifactsTypeOK
<1>2. SavesAreBounded'
  <2>1. Saving' \subseteq Saving /\ lastId' = lastId
    BY <1>0 DEF Saving
  <2> QED BY <2>1, SavingShrinks
<1>3. RestsBetweenPhases' /\ ReservationHolds'
  BY PolicyAssumption DEF RestsBetweenPhases, ReservationHolds, ArtifactsTypeOK, CleanerState, EraserState
<1>4. ASSUME NEW q \in Runs PROVE RunInv(q)'
  BY <1>0 DEF ArtifactsTypeOK, RestsBetweenPhases, ReservationHolds, Active, Ids,
      CleanerState, EraserState, WorkerState, DirState, RunInv, NewIsUntouched,
      PickedIsInactive, ReportedIsOver, SelectedIsCurrent, RowGoesFirst, SavedIsOnDisk,
      Readable
<1>5. OneEntryAtATime'
  BY DEF OneEntryAtATime, RestsBetweenPhases, ArtifactsTypeOK, CleanerState, Ids
<1> QED BY <1>1, <1>2, <1>3, <1>4, <1>5

(* A discard looks its row up.                                             *)
LEMMA DiscardLookupKeepsInv ==
  ASSUME ArtifactsInv, NEW r \in Runs, DiscardLookup(r)
  PROVE  ArtifactsInv'
<1> USE DEF ArtifactsInv, DiscardLookup
<1>1. ArtifactsTypeOK'
  <2>1. worker' \in [Runs -> WorkerState]
    <3>1. meta[r] \in 0..MaxSaves
      BY DEF ArtifactsTypeOK, Ids
    <3>2. CASE worker' = [worker EXCEPT ![r] = Off]
      BY <3>2, RestingTypes DEF ArtifactsTypeOK
    <3>3. CASE worker' = [worker EXCEPT ![r].pc = "remove", ![r].id = meta[r]]
      BY <3>1, <3>3, ZenonT(60) DEF ArtifactsTypeOK, WorkerState, WorkerPc
    <3> QED BY <3>2, <3>3
  <2> QED
    BY <2>1, PolicyAssumption, ArtifactFaultsAssumption
    DEF ArtifactsTypeOK, WorkerFrame, Others, jobVars, fileVars, Off
<1> USE DEF WorkerFrame, Others, jobVars, fileVars, Off
<1>2. SavesAreBounded'
  <2>1. Saving' \subseteq Saving /\ lastId' = lastId
    BY DEF Saving, ArtifactsTypeOK, WorkerState
  <2> QED BY <2>1, SavingShrinks
<1>3. RestsBetweenPhases' /\ ReservationHolds'
  BY PolicyAssumption DEF RestsBetweenPhases, ReservationHolds, ArtifactsTypeOK, CleanerState, EraserState
<1>4. ASSUME NEW q \in Runs PROVE RunInv(q)'
  BY DEF ArtifactsTypeOK, RestsBetweenPhases, ReservationHolds, Active, Ids,
      CleanerState, EraserState, WorkerState, DirState, RunInv, NewIsUntouched,
      PickedIsInactive, ReportedIsOver, SelectedIsCurrent, RowGoesFirst, SavedIsOnDisk,
      Readable
<1>5. OneEntryAtATime'
  BY DEF OneEntryAtATime, RestsBetweenPhases, ArtifactsTypeOK, CleanerState, Ids
<1> QED BY <1>1, <1>2, <1>3, <1>4, <1>5

(* A discard removes the directory.                                        *)
LEMMA DiscardRemoveKeepsInv ==
  ASSUME ArtifactsInv, NEW r \in Runs, DiscardRemove(r)
  PROVE  ArtifactsInv'
<1> USE DEF ArtifactsInv, DiscardRemove
<1>1. ArtifactsTypeOK'
  <2>1. worker' \in [Runs -> WorkerState]
    BY WorkerAtType, WorkerRestsType DEF WorkerPc
  <2>2. disk' \in [Runs -> DirState]
    BY RestingTypes DEF ArtifactsTypeOK
  <2> QED
    BY <2>1, <2>2, PolicyAssumption, ArtifactFaultsAssumption
    DEF ArtifactsTypeOK, WorkerAt, WorkerOff, Failed, Others, Fault, Off, NoDir
<1> USE DEF WorkerAt, WorkerOff, Failed, Others, Fault, Off, NoDir
<1>2. SavesAreBounded'
  <2>1. Saving' \subseteq Saving /\ lastId' = lastId
    BY DEF Saving, ArtifactsTypeOK, WorkerState
  <2> QED BY <2>1, SavingShrinks
<1>3. RestsBetweenPhases' /\ ReservationHolds'
  BY PolicyAssumption DEF RestsBetweenPhases, ReservationHolds, ArtifactsTypeOK, CleanerState, EraserState
<1>4. ASSUME NEW q \in Runs PROVE RunInv(q)'
  BY DEF ArtifactsTypeOK, RestsBetweenPhases, ReservationHolds, Active, Ids,
      CleanerState, EraserState, WorkerState, DirState, RunInv, NewIsUntouched,
      PickedIsInactive, ReportedIsOver, SelectedIsCurrent, RowGoesFirst, SavedIsOnDisk,
      Readable
<1>5. OneEntryAtATime'
  BY DEF OneEntryAtATime, RestsBetweenPhases, ArtifactsTypeOK, CleanerState, Ids
<1> QED BY <1>1, <1>2, <1>3, <1>4, <1>5

(* A discard removes the row.                                              *)
LEMMA DiscardRowKeepsInv ==
  ASSUME ArtifactsInv, NEW r \in Runs, DiscardRow(r)
  PROVE  ArtifactsInv'
<1> USE DEF ArtifactsInv, DiscardRow
<1>1. ArtifactsTypeOK'
  <2>1. worker' \in [Runs -> WorkerState]
    BY SavesAssumption DEF ArtifactsTypeOK, WorkerState, WorkerPc, WorkerOff, Failed,
        Others, Off
  <2>2. meta' \in Ids /\ lastId' \in 0..MaxSaves
    BY SavesAssumption DEF ArtifactsTypeOK, Ids, WorkerOff, Failed, Others, Off
  <2> QED
    BY <2>1, <2>2, PolicyAssumption, ArtifactFaultsAssumption
    DEF ArtifactsTypeOK, WorkerOff, Failed, Others, Off
<1> USE DEF WorkerOff, Failed, Others, Off
<1>2. SavesAreBounded'
  <2>1. Saving' \subseteq Saving /\ lastId' = lastId
    BY DEF Saving, ArtifactsTypeOK, WorkerState
  <2> QED BY <2>1, SavingShrinks
<1>3. RestsBetweenPhases' /\ ReservationHolds'
  BY PolicyAssumption DEF RestsBetweenPhases, ReservationHolds, ArtifactsTypeOK, CleanerState, EraserState
<1>4. ASSUME NEW q \in Runs PROVE RunInv(q)'
  BY DEF ArtifactsTypeOK, RestsBetweenPhases, ReservationHolds, Active, Ids,
      CleanerState, EraserState, WorkerState, DirState, RunInv, NewIsUntouched,
      PickedIsInactive, ReportedIsOver, SelectedIsCurrent, RowGoesFirst, SavedIsOnDisk,
      Readable
<1>5. OneEntryAtATime'
  BY DEF OneEntryAtATime, RestsBetweenPhases, ArtifactsTypeOK, CleanerState, Ids
<1> QED BY <1>1, <1>2, <1>3, <1>4, <1>5

(* A directory is no longer recent.                                        *)
LEMMA SettleKeepsInv ==
  ASSUME ArtifactsInv, NEW r \in Runs, Settle(r)
  PROVE  ArtifactsInv'
<1> USE DEF ArtifactsInv, Settle
<1>1. ArtifactsTypeOK'
  <2>1. disk' \in [Runs -> DirState]
    BY SavesAssumption DEF ArtifactsTypeOK, DirState, Others, jobVars
  <2> QED
    BY <2>1, PolicyAssumption, ArtifactFaultsAssumption
    DEF ArtifactsTypeOK, Others, jobVars
<1> USE DEF Others, jobVars
<1>2. SavesAreBounded'
  <2>1. Saving' \subseteq Saving /\ lastId' = lastId
    BY DEF Saving, ArtifactsTypeOK, WorkerState
  <2> QED BY <2>1, SavingShrinks
<1>3. RestsBetweenPhases' /\ ReservationHolds'
  BY PolicyAssumption DEF RestsBetweenPhases, ReservationHolds, ArtifactsTypeOK, CleanerState, EraserState
<1>4. ASSUME NEW q \in Runs PROVE RunInv(q)'
  BY DEF ArtifactsTypeOK, RestsBetweenPhases, ReservationHolds, Active, Ids,
      CleanerState, EraserState, WorkerState, DirState, RunInv, NewIsUntouched,
      PickedIsInactive, ReportedIsOver, SelectedIsCurrent, RowGoesFirst, SavedIsOnDisk,
      Readable
<1>5. OneEntryAtATime'
  BY DEF OneEntryAtATime, RestsBetweenPhases, ArtifactsTypeOK, CleanerState, Ids
<1> QED BY <1>1, <1>2, <1>3, <1>4, <1>5

(* A row leaves the retention window.                                      *)
LEMMA AgeKeepsInv ==
  ASSUME ArtifactsInv, NEW r \in Runs, Age(r)
  PROVE  ArtifactsInv'
<1> USE DEF ArtifactsInv, Age
<1>1. ArtifactsTypeOK'
  <2> QED
    BY PolicyAssumption, ArtifactFaultsAssumption
    DEF ArtifactsTypeOK, Others, jobVars
<1> USE DEF Others, jobVars
<1>2. SavesAreBounded'
  <2>1. Saving' \subseteq Saving /\ lastId' = lastId
    BY DEF Saving, ArtifactsTypeOK, WorkerState
  <2> QED BY <2>1, SavingShrinks
<1>3. RestsBetweenPhases' /\ ReservationHolds'
  BY PolicyAssumption DEF RestsBetweenPhases, ReservationHolds, ArtifactsTypeOK, CleanerState, EraserState
<1>4. ASSUME NEW q \in Runs PROVE RunInv(q)'
  BY DEF ArtifactsTypeOK, RestsBetweenPhases, ReservationHolds, Active, Ids,
      CleanerState, EraserState, WorkerState, DirState, RunInv, NewIsUntouched,
      PickedIsInactive, ReportedIsOver, SelectedIsCurrent, RowGoesFirst, SavedIsOnDisk,
      Readable
<1>5. OneEntryAtATime'
  BY DEF OneEntryAtATime, RestsBetweenPhases, ArtifactsTypeOK, CleanerState, Ids
<1> QED BY <1>1, <1>2, <1>3, <1>4, <1>5

(* Retention selects rows.                                                 *)
LEMMA RetentionSelectKeepsInv ==
  ASSUME ArtifactsInv, RetentionSelect
  PROVE  ArtifactsInv'
<1> USE DEF ArtifactsInv, RetentionSelect
<1>1. ArtifactsTypeOK'
  <2>1. cleaner' \in CleanerState
    <3>1. CASE PhaseOver
      BY <3>1, PhaseOverType
    <3>2. CASE ~PhaseOver
      <4>1. Batch(Eligible) \subseteq Runs
        BY DEF Batch, Eligible
      <4>2. [r \in Runs |-> IF r \in Batch(Eligible) THEN meta[r] ELSE 0] \in Ids
        BY SavesAssumption DEF ArtifactsTypeOK, Ids
      <4> QED BY <3>2, <4>1, <4>2 DEF ArtifactsTypeOK, CleanerState, CleanerPc
    <3> QED BY <3>1, <3>2
  <2> QED
    BY <2>1, PolicyAssumption, ArtifactFaultsAssumption
    DEF ArtifactsTypeOK, PhaseOver, CleanerFrame, jobVars, fileVars, Batch, Eligible,
        NextPhase, Resting, NoIds
<1> USE DEF CleanerFrame, jobVars, fileVars
<1>2. SavesAreBounded'
  <2>1. Saving' \subseteq Saving /\ lastId' = lastId
    BY DEF Saving
  <2> QED BY <2>1, SavingShrinks
<1>3. RestsBetweenPhases' /\ ReservationHolds'
  BY PhaseOverType DEF RestsBetweenPhases, ReservationHolds, ArtifactsTypeOK, CleanerState
<1>4. ASSUME NEW q \in Runs PROVE RunInv(q)'
  <2>1. CASE PhaseOver
    <3>1. /\ cleaner'.pc = "select" /\ cleaner'.todo = {} /\ cleaner'.batch = {}
          /\ cleaner'.ids[q] = 0
      BY <2>1, PhaseOverType DEF NoIds
    <3> QED
      BY <3>1 DEF ArtifactsTypeOK, RestsBetweenPhases, ReservationHolds, Active, Ids,
          CleanerState, EraserState, WorkerState, DirState, RunInv, NewIsUntouched,
          PickedIsInactive, ReportedIsOver, SelectedIsCurrent, RowGoesFirst,
          SavedIsOnDisk, Readable
  <2>2. CASE ~PhaseOver
    <3> DEFINE rows == Batch(Eligible)
               marks == [r \in Runs |-> IF r \in rows THEN meta[r] ELSE 0]
    <3>0. cleaner' = [cleaner EXCEPT !.pc = "check", !.todo = rows, !.ids = marks]
      BY <2>2
    <3>3. marks[q] = IF q \in rows THEN meta[q] ELSE 0
      OBVIOUS
    <3> HIDE DEF rows, marks
    <3>4. /\ cleaner'.pc = "check" /\ cleaner'.todo = rows /\ cleaner'.batch = {}
          /\ cleaner'.ids = marks
      BY <3>0 DEF ArtifactsTypeOK, CleanerState, RestsBetweenPhases
    <3>1. /\ cleaner'.pc = "check" /\ cleaner'.todo = Batch(Eligible) /\ cleaner'.batch = {}
          /\ cleaner'.ids[q] = IF q \in Batch(Eligible) THEN meta[q] ELSE 0
      BY <3>3, <3>4 DEF rows
    <3>2. q \in Batch(Eligible) => meta[q] # 0
      BY DEF Batch, Eligible
    <3> QED
      BY <3>1, <3>2 DEF ArtifactsTypeOK, RestsBetweenPhases, ReservationHolds, Active,
          Ids, CleanerState, EraserState, WorkerState, DirState, RunInv, NewIsUntouched,
          PickedIsInactive, ReportedIsOver, SelectedIsCurrent, RowGoesFirst,
          SavedIsOnDisk, Readable
  <2> QED BY <2>1, <2>2
<1>5. OneEntryAtATime'
  <2>1. CASE PhaseOver
    <3>1. \A a \in Runs : cleaner'.ids[a] = 0
      BY <2>1, PhaseOverType DEF NoIds
    <3> QED BY <3>1, NoneMarked
  <2>2. CASE ~PhaseOver
    <3>1. cleaner'.phase = "retention"
      BY <2>2 DEF ArtifactsTypeOK, CleanerState
    <3> QED BY <3>1 DEF OneEntryAtATime
  <2> QED BY <2>1, <2>2
<1> QED BY <1>1, <1>2, <1>3, <1>4, <1>5

(* Retention leaves active runs out.                                       *)
LEMMA RetentionCheckKeepsInv ==
  ASSUME ArtifactsInv, NEW r \in Runs, RetentionCheck(r)
  PROVE  ArtifactsInv'
<1> USE DEF ArtifactsInv, RetentionCheck
<1>1. ArtifactsTypeOK'
  <2>1. cleaner' \in CleanerState
    BY SavesAssumption DEF ArtifactsTypeOK, CleanerState, CleanerPc, Phase, Ids,
        CleanerFrame, jobVars, fileVars
  <2> QED
    BY <2>1, PolicyAssumption, ArtifactFaultsAssumption
    DEF ArtifactsTypeOK, CleanerFrame, jobVars, fileVars
<1> USE DEF CleanerFrame, jobVars, fileVars
<1>2. SavesAreBounded'
  <2>1. Saving' \subseteq Saving /\ lastId' = lastId
    BY DEF Saving, ArtifactsTypeOK, WorkerState
  <2> QED BY <2>1, SavingShrinks
<1>3. RestsBetweenPhases' /\ ReservationHolds'
  BY PolicyAssumption DEF RestsBetweenPhases, ReservationHolds, ArtifactsTypeOK, CleanerState, EraserState
<1>4. ASSUME NEW q \in Runs PROVE RunInv(q)'
  BY DEF ArtifactsTypeOK, RestsBetweenPhases, ReservationHolds, Active, Ids,
      CleanerState, EraserState, WorkerState, DirState, RunInv, NewIsUntouched,
      PickedIsInactive, ReportedIsOver, SelectedIsCurrent, RowGoesFirst, SavedIsOnDisk,
      Readable
<1>5. OneEntryAtATime'
  BY DEF OneEntryAtATime, RestsBetweenPhases, ArtifactsTypeOK, CleanerState, Ids
<1> QED BY <1>1, <1>2, <1>3, <1>4, <1>5

(* Retention deletes rows.                                                 *)
LEMMA RetentionRowsKeepsInv ==
  ASSUME ArtifactsInv, RetentionRows
  PROVE  ArtifactsInv'
<1> USE DEF ArtifactsInv, RetentionRows
<1>1. ArtifactsTypeOK'
  <2>1. cleaner' \in CleanerState
    <3>1. cleaner.batch \subseteq Runs
      BY DEF ArtifactsTypeOK, CleanerState
    <3> QED BY <3>1, RestingTypes DEF CleanerState, CleanerPc
  <2>2. meta' \in Ids /\ lastId' \in 0..MaxSaves
    BY SavesAssumption DEF ArtifactsTypeOK, Ids, CleanerFrame, jobVars, Resting, NoIds
  <2> QED
    BY <2>1, <2>2, PolicyAssumption, ArtifactFaultsAssumption
    DEF ArtifactsTypeOK, CleanerFrame, jobVars, Resting, NoIds
<1> USE DEF CleanerFrame, jobVars, Resting, NoIds
<1>2. SavesAreBounded'
  <2>1. Saving' \subseteq Saving /\ lastId' = lastId
    BY DEF Saving, ArtifactsTypeOK, WorkerState
  <2> QED BY <2>1, SavingShrinks
<1>3. RestsBetweenPhases' /\ ReservationHolds'
  BY PolicyAssumption DEF RestsBetweenPhases, ReservationHolds, ArtifactsTypeOK, CleanerState, EraserState
<1>4. ASSUME NEW q \in Runs PROVE RunInv(q)'
  BY DEF ArtifactsTypeOK, RestsBetweenPhases, ReservationHolds, Active, Ids,
      CleanerState, EraserState, WorkerState, DirState, RunInv, NewIsUntouched,
      PickedIsInactive, ReportedIsOver, SelectedIsCurrent, RowGoesFirst, SavedIsOnDisk,
      Readable
<1>5. OneEntryAtATime'
  BY DEF OneEntryAtATime, RestsBetweenPhases, ArtifactsTypeOK, CleanerState, Ids
<1> QED BY <1>1, <1>2, <1>3, <1>4, <1>5

(* Retention removes directories.                                          *)
LEMMA RetentionFilesKeepsInv ==
  ASSUME ArtifactsInv, RetentionFiles
  PROVE  ArtifactsInv'
<1> USE DEF ArtifactsInv, RetentionFiles
<1>1. ArtifactsTypeOK'
  <2>1. disk' \in [Runs -> DirState]
    BY RestingTypes DEF ArtifactsTypeOK
  <2>2. cleaner' \in CleanerState
    BY PhaseOverType DEF ArtifactsTypeOK, CleanerState
  <2> QED
    BY <2>1, <2>2, PolicyAssumption, ArtifactFaultsAssumption
    DEF ArtifactsTypeOK, PhaseOver, CleanerFrame, jobVars, NextPhase, Resting, NoIds,
        NoDir
<1> USE DEF PhaseOver, CleanerFrame, jobVars, NextPhase, Resting, NoIds, NoDir
<1>2. SavesAreBounded'
  <2>1. Saving' \subseteq Saving /\ lastId' = lastId
    BY DEF Saving, ArtifactsTypeOK, WorkerState
  <2> QED BY <2>1, SavingShrinks
<1>3. RestsBetweenPhases' /\ ReservationHolds'
  BY PolicyAssumption DEF RestsBetweenPhases, ReservationHolds, ArtifactsTypeOK, CleanerState, EraserState
<1>4. ASSUME NEW q \in Runs PROVE RunInv(q)'
  <2>1. CASE cleaner.todo = {} /\ PhaseOver /\ UNCHANGED disk
    BY <2>1 DEF ArtifactsTypeOK, RestsBetweenPhases, ReservationHolds, Active, Ids,
        CleanerState, EraserState, WorkerState, DirState, RunInv, NewIsUntouched,
        PickedIsInactive, ReportedIsOver, SelectedIsCurrent, RowGoesFirst,
        SavedIsOnDisk, Readable
  <2>2. ASSUME NEW r \in cleaner.todo, disk' = [disk EXCEPT ![r] = NoDir],
               cleaner' = [cleaner EXCEPT !.todo = @ \ {r}]
        PROVE  RunInv(q)'
    <3>1. CASE q = r
      BY <2>2, <3>1 DEF ArtifactsTypeOK, RestsBetweenPhases, ReservationHolds, Active,
          Ids, CleanerState, EraserState, WorkerState, DirState, RunInv, NewIsUntouched,
          PickedIsInactive, ReportedIsOver, SelectedIsCurrent, RowGoesFirst,
          SavedIsOnDisk, Readable
    <3>2. CASE q # r
      BY <2>2, <3>2 DEF ArtifactsTypeOK, RestsBetweenPhases, ReservationHolds, Active,
          Ids, CleanerState, EraserState, WorkerState, DirState, RunInv, NewIsUntouched,
          PickedIsInactive, ReportedIsOver, SelectedIsCurrent, RowGoesFirst,
          SavedIsOnDisk, Readable
    <3> QED BY <3>1, <3>2
  <2> QED BY <2>1, <2>2
<1>5. OneEntryAtATime'
  BY DEF OneEntryAtATime, RestsBetweenPhases, ArtifactsTypeOK, CleanerState, Ids
<1> QED BY <1>1, <1>2, <1>3, <1>4, <1>5

(* The directories are listed.                                             *)
LEMMA SweepScanKeepsInv ==
  ASSUME ArtifactsInv, SweepScan
  PROVE  ArtifactsInv'
<1> USE DEF ArtifactsInv, SweepScan
<1>1. ArtifactsTypeOK'
  <2>1. cleaner' \in CleanerState
    BY SavesAssumption DEF ArtifactsTypeOK, CleanerState, CleanerPc, Phase, Ids,
        CleanerFrame, jobVars, fileVars
  <2> QED
    BY <2>1, PolicyAssumption, ArtifactFaultsAssumption
    DEF ArtifactsTypeOK, CleanerFrame, jobVars, fileVars
<1> USE DEF CleanerFrame, jobVars, fileVars
<1>2. SavesAreBounded'
  <2>1. Saving' \subseteq Saving /\ lastId' = lastId
    BY DEF Saving, ArtifactsTypeOK, WorkerState
  <2> QED BY <2>1, SavingShrinks
<1>3. RestsBetweenPhases' /\ ReservationHolds'
  BY PolicyAssumption DEF RestsBetweenPhases, ReservationHolds, ArtifactsTypeOK, CleanerState, EraserState
<1>4. ASSUME NEW q \in Runs PROVE RunInv(q)'
  BY DEF ArtifactsTypeOK, RestsBetweenPhases, ReservationHolds, Active, Ids,
      CleanerState, EraserState, WorkerState, DirState, RunInv, NewIsUntouched,
      PickedIsInactive, ReportedIsOver, SelectedIsCurrent, RowGoesFirst, SavedIsOnDisk,
      Readable
<1>5. OneEntryAtATime'
  BY DEF OneEntryAtATime, RestsBetweenPhases, ArtifactsTypeOK, CleanerState, Ids
<1> QED BY <1>1, <1>2, <1>3, <1>4, <1>5

(* A directory is looked up in the metadata.                               *)
LEMMA SweepRefsKeepsInv ==
  ASSUME ArtifactsInv, SweepRefs
  PROVE  ArtifactsInv'
<1> USE DEF ArtifactsInv, SweepRefs
<1>1. ArtifactsTypeOK'
  <2>1. cleaner' \in CleanerState
    <3>1. cleaner.todo \subseteq Runs
      BY DEF ArtifactsTypeOK, CleanerState
    <3>2. {"tempcheck", "refs", "active"} \subseteq CleanerPc
      BY DEF CleanerPc
    <3> QED BY <3>1, <3>2, PhaseOverType, SweepTypes
  <2> QED
    BY <2>1, PolicyAssumption, ArtifactFaultsAssumption
    DEF ArtifactsTypeOK, PhaseOver, SweepAt, SweepFrame, CleanerFrame, jobVars,
        NextPhase, Resting, NoIds
<1> USE DEF PhaseOver, SweepAt, SweepFrame, CleanerFrame, jobVars, NextPhase, Resting,
    NoIds
<1>2. SavesAreBounded'
  <2>1. Saving' \subseteq Saving /\ lastId' = lastId
    BY DEF Saving, ArtifactsTypeOK, WorkerState
  <2> QED BY <2>1, SavingShrinks
<1>3. RestsBetweenPhases' /\ ReservationHolds'
  BY PolicyAssumption DEF RestsBetweenPhases, ReservationHolds, ArtifactsTypeOK, CleanerState, EraserState
<1>4. ASSUME NEW q \in Runs PROVE RunInv(q)'
  <2>1. CASE cleaner.todo = {} /\ PhaseOver
    BY <2>1 DEF ArtifactsTypeOK, RestsBetweenPhases, ReservationHolds, Active, Ids,
        CleanerState, EraserState, WorkerState, DirState, RunInv, NewIsUntouched,
        PickedIsInactive, ReportedIsOver, SelectedIsCurrent, RowGoesFirst,
        SavedIsOnDisk, Readable
  <2>2. ASSUME NEW r \in cleaner.todo, NEW pc \in {"tempcheck", "refs", "active"}, SweepAt(r, pc)
        PROVE  RunInv(q)'
    <3>1. /\ cleaner'.pc = pc /\ cleaner'.todo = cleaner.todo \ {r}
          /\ cleaner'.batch = cleaner.batch /\ cleaner'.ids[q] = IF q = r THEN 1 ELSE 0
      BY <2>2 DEF ArtifactsTypeOK, CleanerState
    <3> QED
      BY <2>2, <3>1, ZenonT(60) DEF ArtifactsTypeOK, RestsBetweenPhases, ReservationHolds, Active,
          Ids, CleanerState, EraserState, WorkerState, DirState, RunInv, NewIsUntouched,
          PickedIsInactive, ReportedIsOver, SelectedIsCurrent, RowGoesFirst,
          SavedIsOnDisk, Readable
  <2> QED BY <2>1, <2>2
<1>5. OneEntryAtATime'
  <2>1. CASE cleaner.todo = {} /\ PhaseOver
    <3>1. \A a \in Runs : cleaner'.ids[a] = 0
      BY <2>1, PhaseOverType DEF NoIds
    <3> QED BY <3>1, NoneMarked
  <2>2. ASSUME NEW r \in cleaner.todo, NEW pc, SweepAt(r, pc)
        PROVE  OneEntryAtATime'
    <3>1. r \in Runs /\ cleaner'.ids = [NoIds EXCEPT ![r] = 1]
      BY <2>2 DEF ArtifactsTypeOK, CleanerState
    <3> QED BY <3>1, OneMarked
  <2> QED BY <2>1, <2>2
<1> QED BY <1>1, <1>2, <1>3, <1>4, <1>5

(* A candidate is looked at twice.                                         *)
LEMMA SweepCheckKeepsInv ==
  ASSUME ArtifactsInv, NEW r \in Runs, SweepCheck(r)
  PROVE  ArtifactsInv'
<1> USE DEF ArtifactsInv, SweepCheck
<1>1. ArtifactsTypeOK'
  <2>1. cleaner' \in CleanerState
    BY SweepTypes, CleanerMovesType DEF CleanerPc
  <2> QED
    BY <2>1, PolicyAssumption, ArtifactFaultsAssumption
    DEF ArtifactsTypeOK, Looking, SweepSkip, SweepFrame, CleanerFrame, jobVars, NoIds
<1> USE DEF Looking, SweepSkip, SweepFrame, CleanerFrame, jobVars, NoIds
<1>2. SavesAreBounded'
  <2>1. Saving' \subseteq Saving /\ lastId' = lastId
    BY DEF Saving, ArtifactsTypeOK, WorkerState
  <2> QED BY <2>1, SavingShrinks
<1>3. RestsBetweenPhases' /\ ReservationHolds'
  BY PolicyAssumption, ZenonT(60) DEF RestsBetweenPhases, ReservationHolds, ArtifactsTypeOK, CleanerState, EraserState
<1>4. ASSUME NEW q \in Runs PROVE RunInv(q)'
  <2>1. CASE SweepSkip
    <3>1. /\ cleaner'.pc = "refs" /\ cleaner'.todo = cleaner.todo
          /\ cleaner'.batch = cleaner.batch /\ cleaner'.ids[q] = 0
      BY <2>1 DEF ArtifactsTypeOK, CleanerState
    <3> QED
      BY <3>1 DEF ArtifactsTypeOK, RestsBetweenPhases, ReservationHolds, Active, Ids,
          CleanerState, EraserState, WorkerState, DirState, RunInv, NewIsUntouched,
          PickedIsInactive, ReportedIsOver, SelectedIsCurrent, RowGoesFirst,
          SavedIsOnDisk, Readable
  <2>2. CASE ~SweepSkip
    <3>1. PICK pc \in {"refs2", "active2", "remove", "temp"} :
            /\ cleaner' = [cleaner EXCEPT !.pc = pc]
            /\ pc = "refs2" => ~Active(r)
            /\ pc = "active2" => cleaner.pc = "refs2" /\ meta[r] = 0
            /\ pc = "remove" => cleaner.pc = "active2" /\ ~Active(r)
            /\ pc = "refs2" => cleaner.pc = "active"
            /\ cleaner.phase = "artifacts" /\ cleaner.pc # "final" /\ cleaner.ids[r] = 1
      BY <2>2
    <3>2. /\ cleaner'.pc = pc /\ cleaner'.todo = cleaner.todo
          /\ cleaner'.batch = cleaner.batch /\ cleaner'.ids = cleaner.ids
      BY <3>1 DEF ArtifactsTypeOK, CleanerState
    <3>3. cleaner.ids[q] = 1 => q = r
      BY <3>1 DEF OneEntryAtATime
    <3>4. CASE q = r
      BY <3>1, <3>2, <3>4 DEF ArtifactsTypeOK, RestsBetweenPhases, ReservationHolds,
          Active, Ids, CleanerState, EraserState, WorkerState, DirState, RunInv,
          NewIsUntouched, PickedIsInactive, ReportedIsOver, SelectedIsCurrent,
          RowGoesFirst, SavedIsOnDisk, Readable
    <3>5. CASE cleaner.ids[q] # 1
      BY <3>1, <3>2, <3>5 DEF ArtifactsTypeOK, RestsBetweenPhases, ReservationHolds,
          Active, Ids, CleanerState, EraserState, WorkerState, DirState, RunInv,
          NewIsUntouched, PickedIsInactive, ReportedIsOver, SelectedIsCurrent,
          RowGoesFirst, SavedIsOnDisk, Readable
    <3> QED BY <3>3, <3>4, <3>5
  <2> QED BY <2>1, <2>2
<1>5. OneEntryAtATime'
  <2>1. CASE SweepSkip
    <3>1. cleaner'.ids = NoIds
      BY <2>1 DEF ArtifactsTypeOK, CleanerState
    <3> QED BY <3>1 DEF OneEntryAtATime
  <2>2. CASE ~SweepSkip
    <3>1. PICK pc : cleaner' = [cleaner EXCEPT !.pc = pc]
      BY <2>2
    <3>2. cleaner'.ids = cleaner.ids /\ cleaner'.phase = cleaner.phase
      BY <3>1 DEF ArtifactsTypeOK, CleanerState
    <3> QED BY <3>2 DEF OneEntryAtATime
  <2> QED BY <2>1, <2>2
<1> QED BY <1>1, <1>2, <1>3, <1>4, <1>5

(* An orphan is removed.                                                   *)
LEMMA SweepRemoveKeepsInv ==
  ASSUME ArtifactsInv, NEW r \in Runs, SweepRemove(r)
  PROVE  ArtifactsInv'
<1> USE DEF ArtifactsInv, SweepRemove
<1>1. ArtifactsTypeOK'
  <2>1. disk' \in [Runs -> DirState]
    BY SavesAssumption DEF ArtifactsTypeOK, DirState, Looking, SweepSkip, SweepFrame,
        CleanerFrame, jobVars, NoIds, NoDir
  <2>2. cleaner' \in CleanerState
    BY SweepTypes
  <2> QED
    BY <2>1, <2>2, PolicyAssumption, ArtifactFaultsAssumption
    DEF ArtifactsTypeOK, Looking, SweepSkip, SweepFrame, CleanerFrame, jobVars, NoIds,
        NoDir
<1> USE DEF Looking, SweepSkip, SweepFrame, CleanerFrame, jobVars, NoIds, NoDir
<1>2. SavesAreBounded'
  <2>1. Saving' \subseteq Saving /\ lastId' = lastId
    BY DEF Saving, ArtifactsTypeOK, WorkerState
  <2> QED BY <2>1, SavingShrinks
<1>3. RestsBetweenPhases' /\ ReservationHolds'
  BY PolicyAssumption DEF RestsBetweenPhases, ReservationHolds, ArtifactsTypeOK, CleanerState, EraserState
<1>4. ASSUME NEW q \in Runs PROVE RunInv(q)'
  BY DEF ArtifactsTypeOK, RestsBetweenPhases, ReservationHolds, Active, Ids,
      CleanerState, EraserState, WorkerState, DirState, RunInv, NewIsUntouched,
      PickedIsInactive, ReportedIsOver, SelectedIsCurrent, RowGoesFirst, SavedIsOnDisk,
      Readable
<1>5. OneEntryAtATime'
  BY DEF OneEntryAtATime, RestsBetweenPhases, ArtifactsTypeOK, CleanerState, Ids
<1> QED BY <1>1, <1>2, <1>3, <1>4, <1>5

(* A temporary file is removed.                                            *)
LEMMA SweepTempKeepsInv ==
  ASSUME ArtifactsInv, NEW r \in Runs, SweepTemp(r)
  PROVE  ArtifactsInv'
<1> USE DEF ArtifactsInv, SweepTemp
<1>1. ArtifactsTypeOK'
  <2>1. disk' \in [Runs -> DirState]
    BY SavesAssumption DEF ArtifactsTypeOK, DirState, Looking, SweepSkip, SweepFrame,
        CleanerFrame, jobVars, NoIds
  <2>2. cleaner' \in CleanerState
    BY SweepTypes
  <2> QED
    BY <2>1, <2>2, PolicyAssumption, ArtifactFaultsAssumption
    DEF ArtifactsTypeOK, Looking, SweepSkip, SweepFrame, CleanerFrame, jobVars, NoIds
<1> USE DEF Looking, SweepSkip, SweepFrame, CleanerFrame, jobVars, NoIds
<1>2. SavesAreBounded'
  <2>1. Saving' \subseteq Saving /\ lastId' = lastId
    BY DEF Saving, ArtifactsTypeOK, WorkerState
  <2> QED BY <2>1, SavingShrinks
<1>3. RestsBetweenPhases' /\ ReservationHolds'
  BY PolicyAssumption DEF RestsBetweenPhases, ReservationHolds, ArtifactsTypeOK, CleanerState, EraserState
<1>4. ASSUME NEW q \in Runs PROVE RunInv(q)'
  BY DEF ArtifactsTypeOK, RestsBetweenPhases, ReservationHolds, Active, Ids,
      CleanerState, EraserState, WorkerState, DirState, RunInv, NewIsUntouched,
      PickedIsInactive, ReportedIsOver, SelectedIsCurrent, RowGoesFirst, SavedIsOnDisk,
      Readable
<1>5. OneEntryAtATime'
  BY DEF OneEntryAtATime, RestsBetweenPhases, ArtifactsTypeOK, CleanerState, Ids
<1> QED BY <1>1, <1>2, <1>3, <1>4, <1>5

(* The history phase reserves or picks.                                    *)
LEMMA HistorySelectKeepsInv ==
  ASSUME ArtifactsInv, HistorySelect
  PROVE  ArtifactsInv'
<1> USE DEF ArtifactsInv, HistorySelect
<1>1. ArtifactsTypeOK'
  <2>1. cleaner' \in CleanerState
    <3>1. CASE PhaseOver
      BY <3>1, PhaseOverType
    <3>2. CASE \E t \in SUBSET Runs : cleaner' = [cleaner EXCEPT !.pc = "final", !.todo = t]
      BY <3>2 DEF ArtifactsTypeOK, CleanerState, CleanerPc
    <3> QED BY <3>1, <3>2
  <2> QED
    BY <2>1, PolicyAssumption, ArtifactFaultsAssumption
    DEF ArtifactsTypeOK, PhaseOver, AdhocExpired, Reservable, Reserved, CleanerFrame,
        fileVars, NextPhase, Resting, NoIds
<1> USE DEF PhaseOver, AdhocExpired, Reservable, Reserved, CleanerFrame, fileVars,
    NextPhase, Resting, NoIds
<1>2. SavesAreBounded'
  <2>1. Saving' \subseteq Saving /\ lastId' = lastId
    BY DEF Saving, ArtifactsTypeOK, WorkerState
  <2> QED BY <2>1, SavingShrinks
<1>3. RestsBetweenPhases' /\ ReservationHolds'
  BY PolicyAssumption DEF RestsBetweenPhases, ReservationHolds, ArtifactsTypeOK, CleanerState, EraserState
<1>4. ASSUME NEW q \in Runs PROVE RunInv(q)'
  <2>1. CASE PhaseOver /\ UNCHANGED <<job, policy>>
    BY <2>1 DEF ArtifactsTypeOK, RestsBetweenPhases, ReservationHolds, Active, Ids,
        CleanerState, EraserState, WorkerState, DirState, RunInv, NewIsUntouched,
        PickedIsInactive, ReportedIsOver, SelectedIsCurrent, RowGoesFirst,
        SavedIsOnDisk, Readable
  <2>2. CASE /\ AdhocExpired /\ Reserved("keep")
             /\ cleaner' = [cleaner EXCEPT !.pc = "final", !.todo = Runs]
    BY <2>2 DEF ArtifactsTypeOK, RestsBetweenPhases, ReservationHolds, Active, Ids,
        CleanerState, EraserState, WorkerState, DirState, RunInv, NewIsUntouched,
        PickedIsInactive, ReportedIsOver, SelectedIsCurrent, RowGoesFirst,
        SavedIsOnDisk, Readable
  <2>3. ASSUME NEW r \in Runs, cleaner' = [cleaner EXCEPT !.pc = "final", !.todo = {r}],
               UNCHANGED <<job, policy>>
        PROVE  RunInv(q)'
    BY <2>3 DEF ArtifactsTypeOK, RestsBetweenPhases, ReservationHolds, Active, Ids,
        CleanerState, EraserState, WorkerState, DirState, RunInv, NewIsUntouched,
        PickedIsInactive, ReportedIsOver, SelectedIsCurrent, RowGoesFirst,
        SavedIsOnDisk, Readable
  <2> QED BY <2>1, <2>2, <2>3
<1>5. OneEntryAtATime'
  <2>1. CASE PhaseOver
    <3>1. \A a \in Runs : cleaner'.ids[a] = 0
      BY <2>1, PhaseOverType DEF NoIds
    <3> QED BY <3>1, NoneMarked
  <2>2. CASE ~PhaseOver
    <3>1. PICK t : cleaner' = [cleaner EXCEPT !.pc = "final", !.todo = t]
      BY <2>2
    <3>2. cleaner'.phase = "history"
      BY <3>1 DEF ArtifactsTypeOK, CleanerState
    <3> QED BY <3>2 DEF OneEntryAtATime
  <2> QED BY <2>1, <2>2
<1> QED BY <1>1, <1>2, <1>3, <1>4, <1>5

(* The history phase drops the job or prunes a run.                        *)
LEMMA HistoryFinalKeepsInv ==
  ASSUME ArtifactsInv, HistoryFinal
  PROVE  ArtifactsInv'
<1> USE DEF ArtifactsInv, HistoryFinal
<1>1. ArtifactsTypeOK'
  <2>1. cleaner' \in CleanerState
    BY PhaseOverType
  <2> QED
    BY <2>1, PolicyAssumption, ArtifactFaultsAssumption
    DEF ArtifactsTypeOK, PhaseOver, Finalized, Prunable, CleanerFrame, fileVars,
        NextPhase, Resting, NoIds
<1> USE DEF PhaseOver, Finalized, Prunable, CleanerFrame, fileVars, NextPhase, Resting,
    NoIds
<1>2. SavesAreBounded'
  <2>1. Saving' \subseteq Saving /\ lastId' = lastId
    BY DEF Saving, ArtifactsTypeOK, WorkerState
  <2> QED BY <2>1, SavingShrinks
<1>3. RestsBetweenPhases' /\ ReservationHolds'
  BY PolicyAssumption DEF RestsBetweenPhases, ReservationHolds, ArtifactsTypeOK, CleanerState, EraserState
<1>4. ASSUME NEW q \in Runs PROVE RunInv(q)'
  BY DEF ArtifactsTypeOK, RestsBetweenPhases, ReservationHolds, Active, Ids,
      CleanerState, EraserState, WorkerState, DirState, RunInv, NewIsUntouched,
      PickedIsInactive, ReportedIsOver, SelectedIsCurrent, RowGoesFirst, SavedIsOnDisk,
      Readable
<1>5. OneEntryAtATime'
  BY DEF OneEntryAtATime, RestsBetweenPhases, ArtifactsTypeOK, CleanerState, Ids
<1> QED BY <1>1, <1>2, <1>3, <1>4, <1>5

(* A phase of the cleanup fails.                                           *)
LEMMA PhaseFailsKeepsInv ==
  ASSUME ArtifactsInv, PhaseFails
  PROVE  ArtifactsInv'
<1> USE DEF ArtifactsInv, PhaseFails
<1>1. ArtifactsTypeOK'
  <2>1. cleaner' \in CleanerState
    BY PhaseOverType
  <2> QED
    BY <2>1, PolicyAssumption, ArtifactFaultsAssumption
    DEF ArtifactsTypeOK, PhaseOver, Fault, jobVars, fileVars, NextPhase, Resting, NoIds
<1> USE DEF PhaseOver, Fault, jobVars, fileVars, NextPhase, Resting, NoIds
<1>2. SavesAreBounded'
  <2>1. Saving' \subseteq Saving /\ lastId' = lastId
    BY DEF Saving, ArtifactsTypeOK, WorkerState
  <2> QED BY <2>1, SavingShrinks
<1>3. RestsBetweenPhases' /\ ReservationHolds'
  BY PolicyAssumption DEF RestsBetweenPhases, ReservationHolds, ArtifactsTypeOK, CleanerState, EraserState
<1>4. ASSUME NEW q \in Runs PROVE RunInv(q)'
  BY DEF ArtifactsTypeOK, RestsBetweenPhases, ReservationHolds, Active, Ids,
      CleanerState, EraserState, WorkerState, DirState, RunInv, NewIsUntouched,
      PickedIsInactive, ReportedIsOver, SelectedIsCurrent, RowGoesFirst, SavedIsOnDisk,
      Readable
<1>5. OneEntryAtATime'
  BY DEF OneEntryAtATime, RestsBetweenPhases, ArtifactsTypeOK, CleanerState, Ids
<1> QED BY <1>1, <1>2, <1>3, <1>4, <1>5

(* A deletion is reserved.                                                 *)
LEMMA EraseReserveKeepsInv ==
  ASSUME ArtifactsInv, NEW p \in Policies, EraseReserve(p)
  PROVE  ArtifactsInv'
<1> USE DEF ArtifactsInv, EraseReserve
<1>1. ArtifactsTypeOK'
  <2>1. eraser' \in EraserState
    <3>1. ({r \in Runs : life[r] \in {"active", "done"}} \cup cur) \subseteq Runs
      BY DEF ArtifactsTypeOK
    <3> QED BY <3>1, RestingTypes, PolicyAssumption DEF EraserState
  <2> QED
    BY <2>1, PolicyAssumption, ArtifactFaultsAssumption
    DEF ArtifactsTypeOK, Reservable, Reserved, EraserFrame, fileVars, Unasked, NoIds
<1> USE DEF Reservable, Reserved, EraserFrame, fileVars, Unasked, NoIds
<1>2. SavesAreBounded'
  <2>1. Saving' \subseteq Saving /\ lastId' = lastId
    BY DEF Saving, ArtifactsTypeOK, WorkerState
  <2> QED BY <2>1, SavingShrinks
<1>3. RestsBetweenPhases' /\ ReservationHolds'
  BY PolicyAssumption DEF RestsBetweenPhases, ReservationHolds, ArtifactsTypeOK, CleanerState, EraserState
<1>4. ASSUME NEW q \in Runs PROVE RunInv(q)'
  BY DEF ArtifactsTypeOK, RestsBetweenPhases, ReservationHolds, Active, Ids,
      CleanerState, EraserState, WorkerState, DirState, RunInv, NewIsUntouched,
      PickedIsInactive, ReportedIsOver, SelectedIsCurrent, RowGoesFirst, SavedIsOnDisk,
      Readable
<1>5. OneEntryAtATime'
  BY DEF OneEntryAtATime, RestsBetweenPhases, ArtifactsTypeOK, CleanerState, Ids
<1> QED BY <1>1, <1>2, <1>3, <1>4, <1>5

(* A deletion looks at the delivery.                                       *)
LEMMA EraseInspectKeepsInv ==
  ASSUME ArtifactsInv, EraseInspect
  PROVE  ArtifactsInv'
<1> USE DEF ArtifactsInv, EraseInspect
<1>1. ArtifactsTypeOK'
  <2>1. eraser' \in EraserState
    <3>1. eraser \in EraserState
      BY DEF ArtifactsTypeOK
    <3>2. [Unasked EXCEPT !.pc = "final", !.policy = "keep"] \in EraserState
      BY RestingTypes DEF EraserState
    <3>3. [eraser EXCEPT !.pc = "rows"] \in EraserState
      BY <3>1 DEF EraserState
    <3> QED BY <3>2, <3>3, RestingTypes
  <2> QED
    BY <2>1, PolicyAssumption, ArtifactFaultsAssumption
    DEF ArtifactsTypeOK, EraserFrame, fileVars, Unasked, NoIds
<1> USE DEF EraserFrame, fileVars, Unasked, NoIds
<1>2. SavesAreBounded'
  <2>1. Saving' \subseteq Saving /\ lastId' = lastId
    BY DEF Saving, ArtifactsTypeOK, WorkerState
  <2> QED BY <2>1, SavingShrinks
<1>3. RestsBetweenPhases' /\ ReservationHolds'
  <2>1. RestsBetweenPhases'
    BY DEF RestsBetweenPhases
  <2>2. \/ eraser' = Unasked
        \/ eraser.policy = "drop" /\ eraser' = [eraser EXCEPT !.pc = "rows"]
        \/ eraser.policy = "keep" /\ eraser' = [Unasked EXCEPT !.pc = "final", !.policy = "keep"]
    BY DEF ReservationHolds, ArtifactsTypeOK, EraserState
  <2>3. ReservationHolds'
    BY <2>2 DEF ReservationHolds, ArtifactsTypeOK, EraserState
  <2> QED BY <2>1, <2>3
<1>4. ASSUME NEW q \in Runs PROVE RunInv(q)'
  BY DEF ArtifactsTypeOK, RestsBetweenPhases, ReservationHolds, Active, Ids,
      CleanerState, EraserState, WorkerState, DirState, RunInv, NewIsUntouched,
      PickedIsInactive, ReportedIsOver, SelectedIsCurrent, RowGoesFirst, SavedIsOnDisk,
      Readable
<1>5. OneEntryAtATime'
  BY DEF OneEntryAtATime, RestsBetweenPhases, ArtifactsTypeOK, CleanerState, Ids
<1> QED BY <1>1, <1>2, <1>3, <1>4, <1>5

(* A deletion reads the rows.                                              *)
LEMMA EraseRowsKeepsInv ==
  ASSUME ArtifactsInv, EraseRows
  PROVE  ArtifactsInv'
<1> USE DEF ArtifactsInv, EraseRows
<1>1. ArtifactsTypeOK'
  <2>1. eraser' \in EraserState
    BY SavesAssumption DEF ArtifactsTypeOK, EraserState, Ids, EraserFrame, fileVars
  <2> QED
    BY <2>1, PolicyAssumption, ArtifactFaultsAssumption
    DEF ArtifactsTypeOK, EraserFrame, fileVars
<1> USE DEF EraserFrame, fileVars
<1>2. SavesAreBounded'
  <2>1. Saving' \subseteq Saving /\ lastId' = lastId
    BY DEF Saving, ArtifactsTypeOK, WorkerState
  <2> QED BY <2>1, SavingShrinks
<1>3. RestsBetweenPhases' /\ ReservationHolds'
  BY PolicyAssumption DEF RestsBetweenPhases, ReservationHolds, ArtifactsTypeOK, CleanerState, EraserState
<1>4. ASSUME NEW q \in Runs PROVE RunInv(q)'
  BY DEF ArtifactsTypeOK, RestsBetweenPhases, ReservationHolds, Active, Ids,
      CleanerState, EraserState, WorkerState, DirState, RunInv, NewIsUntouched,
      PickedIsInactive, ReportedIsOver, SelectedIsCurrent, RowGoesFirst, SavedIsOnDisk,
      Readable
<1>5. OneEntryAtATime'
  BY DEF OneEntryAtATime, RestsBetweenPhases, ArtifactsTypeOK, CleanerState, Ids
<1> QED BY <1>1, <1>2, <1>3, <1>4, <1>5

(* A deletion removes the directories.                                     *)
LEMMA EraseRemoveKeepsInv ==
  ASSUME ArtifactsInv, EraseRemove
  PROVE  ArtifactsInv'
<1> USE DEF ArtifactsInv, EraseRemove
<1>1. ArtifactsTypeOK'
  <2>1. disk' \in [Runs -> DirState]
    BY SavesAssumption DEF ArtifactsTypeOK, DirState, EraserFrame, NoDir
  <2>2. eraser' \in EraserState
    BY SavesAssumption DEF ArtifactsTypeOK, EraserState, Ids, EraserFrame, NoDir
  <2> QED
    BY <2>1, <2>2, PolicyAssumption, ArtifactFaultsAssumption
    DEF ArtifactsTypeOK, EraserFrame, NoDir
<1> USE DEF EraserFrame, NoDir
<1>2. SavesAreBounded'
  <2>1. Saving' \subseteq Saving /\ lastId' = lastId
    BY DEF Saving, ArtifactsTypeOK, WorkerState
  <2> QED BY <2>1, SavingShrinks
<1>3. RestsBetweenPhases' /\ ReservationHolds'
  BY PolicyAssumption DEF RestsBetweenPhases, ReservationHolds, ArtifactsTypeOK, CleanerState, EraserState
<1>4. ASSUME NEW q \in Runs PROVE RunInv(q)'
  BY DEF ArtifactsTypeOK, RestsBetweenPhases, ReservationHolds, Active, Ids,
      CleanerState, EraserState, WorkerState, DirState, RunInv, NewIsUntouched,
      PickedIsInactive, ReportedIsOver, SelectedIsCurrent, RowGoesFirst, SavedIsOnDisk,
      Readable
<1>5. OneEntryAtATime'
  BY DEF OneEntryAtATime, RestsBetweenPhases, ArtifactsTypeOK, CleanerState, Ids
<1> QED BY <1>1, <1>2, <1>3, <1>4, <1>5

(* A deletion removes the rows.                                            *)
LEMMA EraseIdsKeepsInv ==
  ASSUME ArtifactsInv, EraseIds
  PROVE  ArtifactsInv'
<1> USE DEF ArtifactsInv, EraseIds
<1>1. ArtifactsTypeOK'
  <2>1. eraser' \in EraserState
    <3>1. eraser.policy \in {"none", "keep", "drop"}
      BY DEF ArtifactsTypeOK, EraserState
    <3> QED BY <3>1, RestingTypes DEF EraserState
  <2>2. meta' \in Ids /\ lastId' \in 0..MaxSaves
    BY SavesAssumption DEF ArtifactsTypeOK, Ids, EraserFrame, Unasked, NoIds
  <2> QED
    BY <2>1, <2>2, PolicyAssumption, ArtifactFaultsAssumption
    DEF ArtifactsTypeOK, EraserFrame, Unasked, NoIds
<1> USE DEF EraserFrame, Unasked, NoIds
<1>2. SavesAreBounded'
  <2>1. Saving' \subseteq Saving /\ lastId' = lastId
    BY DEF Saving, ArtifactsTypeOK, WorkerState
  <2> QED BY <2>1, SavingShrinks
<1>3. RestsBetweenPhases' /\ ReservationHolds'
  BY PolicyAssumption DEF RestsBetweenPhases, ReservationHolds, ArtifactsTypeOK, CleanerState, EraserState
<1>4. ASSUME NEW q \in Runs PROVE RunInv(q)'
  BY DEF ArtifactsTypeOK, RestsBetweenPhases, ReservationHolds, Active, Ids,
      CleanerState, EraserState, WorkerState, DirState, RunInv, NewIsUntouched,
      PickedIsInactive, ReportedIsOver, SelectedIsCurrent, RowGoesFirst, SavedIsOnDisk,
      Readable
<1>5. OneEntryAtATime'
  BY DEF OneEntryAtATime, RestsBetweenPhases, ArtifactsTypeOK, CleanerState, Ids
<1> QED BY <1>1, <1>2, <1>3, <1>4, <1>5

(* A deletion drops the job.                                               *)
LEMMA EraseFinalKeepsInv ==
  ASSUME ArtifactsInv, EraseFinal
  PROVE  ArtifactsInv'
<1> USE DEF ArtifactsInv, EraseFinal
<1>1. ArtifactsTypeOK'
  <2>1. eraser' \in EraserState
    BY RestingTypes
  <2> QED
    BY <2>1, PolicyAssumption, ArtifactFaultsAssumption
    DEF ArtifactsTypeOK, Finalized, EraserFrame, fileVars, Unasked, NoIds
<1> USE DEF Finalized, EraserFrame, fileVars, Unasked, NoIds
<1>2. SavesAreBounded'
  <2>1. Saving' \subseteq Saving /\ lastId' = lastId
    BY DEF Saving, ArtifactsTypeOK, WorkerState
  <2> QED BY <2>1, SavingShrinks
<1>3. RestsBetweenPhases' /\ ReservationHolds'
  BY PolicyAssumption DEF RestsBetweenPhases, ReservationHolds, ArtifactsTypeOK, CleanerState, EraserState
<1>4. ASSUME NEW q \in Runs PROVE RunInv(q)'
  BY DEF ArtifactsTypeOK, RestsBetweenPhases, ReservationHolds, Active, Ids,
      CleanerState, EraserState, WorkerState, DirState, RunInv, NewIsUntouched,
      PickedIsInactive, ReportedIsOver, SelectedIsCurrent, RowGoesFirst, SavedIsOnDisk,
      Readable
<1>5. OneEntryAtATime'
  BY DEF OneEntryAtATime, RestsBetweenPhases, ArtifactsTypeOK, CleanerState, Ids
<1> QED BY <1>1, <1>2, <1>3, <1>4, <1>5

(* A deletion fails.                                                       *)
LEMMA EraseFailsKeepsInv ==
  ASSUME ArtifactsInv, EraseFails
  PROVE  ArtifactsInv'
<1> USE DEF ArtifactsInv, EraseFails
<1>1. ArtifactsTypeOK'
  <2>1. eraser' \in EraserState
    BY RestingTypes
  <2> QED
    BY <2>1, PolicyAssumption, ArtifactFaultsAssumption
    DEF ArtifactsTypeOK, Fault, EraserFrame, fileVars, Unasked, NoIds
<1> USE DEF Fault, EraserFrame, fileVars, Unasked, NoIds
<1>2. SavesAreBounded'
  <2>1. Saving' \subseteq Saving /\ lastId' = lastId
    BY DEF Saving, ArtifactsTypeOK, WorkerState
  <2> QED BY <2>1, SavingShrinks
<1>3. RestsBetweenPhases' /\ ReservationHolds'
  BY PolicyAssumption DEF RestsBetweenPhases, ReservationHolds, ArtifactsTypeOK, CleanerState, EraserState
<1>4. ASSUME NEW q \in Runs PROVE RunInv(q)'
  BY DEF ArtifactsTypeOK, RestsBetweenPhases, ReservationHolds, Active, Ids,
      CleanerState, EraserState, WorkerState, DirState, RunInv, NewIsUntouched,
      PickedIsInactive, ReportedIsOver, SelectedIsCurrent, RowGoesFirst, SavedIsOnDisk,
      Readable
<1>5. OneEntryAtATime'
  BY DEF OneEntryAtATime, RestsBetweenPhases, ArtifactsTypeOK, CleanerState, Ids
<1> QED BY <1>1, <1>2, <1>3, <1>4, <1>5

(* The process dies.                                                       *)
LEMMA DieKeepsInv ==
  ASSUME ArtifactsInv, Die
  PROVE  ArtifactsInv'
<1> USE DEF ArtifactsInv, Die
<1>1. ArtifactsTypeOK'
  <2>1. worker' \in [Runs -> WorkerState]
    BY SavesAssumption DEF ArtifactsTypeOK, WorkerState, WorkerPc, Fault, jobVars, Off,
        Resting, Unasked, NoIds
  <2>2. disk' \in [Runs -> DirState]
    BY SavesAssumption DEF ArtifactsTypeOK, DirState, Fault, jobVars, Off, Resting,
        Unasked, NoIds
  <2>3. cleaner' \in CleanerState
    BY SavesAssumption DEF ArtifactsTypeOK, CleanerState, CleanerPc, Phase, Ids, Fault,
        jobVars, Off, Resting, Unasked, NoIds
  <2>4. eraser' \in EraserState
    BY SavesAssumption DEF ArtifactsTypeOK, EraserState, Ids, Fault, jobVars, Off,
        Resting, Unasked, NoIds
  <2> QED
    BY <2>1, <2>2, <2>3, <2>4, PolicyAssumption, ArtifactFaultsAssumption
    DEF ArtifactsTypeOK, Fault, jobVars, Off, Resting, Unasked, NoIds
<1> USE DEF Fault, jobVars, Off, Resting, Unasked, NoIds
<1>2. SavesAreBounded'
  <2>1. Saving' \subseteq Saving /\ lastId' = lastId
    BY DEF Saving, ArtifactsTypeOK, WorkerState
  <2> QED BY <2>1, SavingShrinks
<1>3. RestsBetweenPhases' /\ ReservationHolds'
  BY PolicyAssumption DEF RestsBetweenPhases, ReservationHolds, ArtifactsTypeOK, CleanerState, EraserState
<1>4. ASSUME NEW q \in Runs PROVE RunInv(q)'
  BY DEF ArtifactsTypeOK, RestsBetweenPhases, ReservationHolds, Active, Ids,
      CleanerState, EraserState, WorkerState, DirState, RunInv, NewIsUntouched,
      PickedIsInactive, ReportedIsOver, SelectedIsCurrent, RowGoesFirst, SavedIsOnDisk,
      Readable
<1>5. OneEntryAtATime'
  BY DEF OneEntryAtATime, RestsBetweenPhases, ArtifactsTypeOK, CleanerState, Ids
<1> QED BY <1>1, <1>2, <1>3, <1>4, <1>5

-----------------------------------------------------------------------------
(* The specification.                                                      *)

(* The job starts up, with no run, no artifact and nothing under way.      *)
LEMMA InitInv == Init => ArtifactsInv
<1> SUFFICES ASSUME Init PROVE ArtifactsInv
  OBVIOUS
<1> USE DEF Init
<1>1. ArtifactsTypeOK
  <2>1. NoIds \in Ids
    BY SavesAssumption DEF NoIds, Ids
  <2>2. disk \in [Runs -> DirState] /\ worker \in [Runs -> WorkerState]
    BY RestingTypes
  <2> QED
    BY <2>1, <2>2, RestingTypes, SavesAssumption, ArtifactFaultsAssumption DEF ArtifactsTypeOK
<1>2. SavesAreBounded
  <2>1. Saving = {}
    BY DEF Saving, Off
  <2> QED BY <2>1, FS_EmptySet, SavesAssumption DEF SavesAreBounded
<1>3. RestsBetweenPhases /\ OneEntryAtATime /\ ReservationHolds
  BY DEF RestsBetweenPhases, OneEntryAtATime, ReservationHolds, Resting, Unasked, NoIds
<1>4. ASSUME NEW r \in Runs PROVE RunInv(r)
  BY DEF RunInv, NewIsUntouched, PickedIsInactive, ReportedIsOver, SelectedIsCurrent,
      RowGoesFirst, SavedIsOnDisk, Readable, Active, Resting, Off, NoDir, NoIds
<1> QED BY <1>1, <1>2, <1>3, <1>4 DEF ArtifactsInv

(* Every step keeps the invariant.                                         *)
LEMMA NextKeepsInv == ArtifactsInv /\ [Next]_vars => ArtifactsInv'
<1> SUFFICES ASSUME ArtifactsInv, [Next]_vars PROVE ArtifactsInv'
  OBVIOUS
<1>1. CASE UNCHANGED vars
  BY <1>1 DEF vars, ArtifactsInv, ArtifactsTypeOK, SavesAreBounded, Saving, RestsBetweenPhases,
      OneEntryAtATime, ReservationHolds, RunInv, NewIsUntouched, PickedIsInactive,
      ReportedIsOver, SelectedIsCurrent, RowGoesFirst, SavedIsOnDisk, Readable, Active
<1>2. ASSUME NEW r \in Runs, StartRun(r) \/ RunStep(r) PROVE ArtifactsInv'
  BY <1>2, StartRunKeepsInv, RunFailsKeepsInv, SettleRunKeepsInv, SaveBeginKeepsInv,
      SaveEnsureKeepsInv, SaveWriteKeepsInv, SaveCommitKeepsInv, RestoreKeepsInv,
      BudgetExceededKeepsInv, FinishKeepsInv, DiscardKeepsInv, DiscardLookupKeepsInv,
      DiscardRemoveKeepsInv, DiscardRowKeepsInv, SettleKeepsInv, AgeKeepsInv
      DEF RunStep, WorkerStep
<1>3. CASE CleanerStep
  BY <1>3, RetentionSelectKeepsInv, RetentionCheckKeepsInv, RetentionRowsKeepsInv,
      RetentionFilesKeepsInv, SweepScanKeepsInv, SweepRefsKeepsInv, SweepCheckKeepsInv,
      SweepRemoveKeepsInv, SweepTempKeepsInv, HistorySelectKeepsInv, HistoryFinalKeepsInv
      DEF CleanerStep
<1>4. CASE PhaseFails \/ Die
  BY <1>4, PhaseFailsKeepsInv, DieKeepsInv
<1>5. CASE \E p \in Policies : EraseReserve(p)
  BY <1>5, EraseReserveKeepsInv
<1>6. CASE EraseStep \/ EraseFails
  BY <1>6, EraseInspectKeepsInv, EraseRowsKeepsInv, EraseRemoveKeepsInv, EraseIdsKeepsInv,
      EraseFinalKeepsInv, EraseFailsKeepsInv
      DEF EraseStep
<1> QED BY <1>1, <1>2, <1>3, <1>4, <1>5, <1>6 DEF Next

(* The worker of a run, the cleanup cycle, a deletion request and deaths of *)
(* the process keep the invariant between any two of their steps.          *)
THEOREM ArtifactsInvariant == Spec => []ArtifactsInv
<1> QED BY InitInv, NextKeepsInv, PTL DEF Spec

(* save_result, retention and the orphan sweep: a reported result that is   *)
(* still listed is readable, unless it was saved again while retention had *)
(* its former row selected.                                                *)
THEOREM ReportedIsReadableHolds == Spec => []ReportedIsReadable
<1>1. ArtifactsInv => ReportedIsReadable
  BY DEF ArtifactsInv, ReportedIsReadable, ArtifactsTypeOK, RunInv, Readable
<1> QED BY <1>1, ArtifactsInvariant, PTL

(* A step of the cleanup task takes nothing from an active run.            *)
LEMMA CleanerSparesActive ==
  ASSUME ArtifactsInv, CleanerStep, NEW r \in Runs, Active(r)
  PROVE  (disk[r].file => disk'[r].file) /\ (meta[r] # 0 => meta'[r] # 0)
<1> USE DEF ArtifactsInv
<1>1. CASE RetentionSelect
  BY <1>1 DEF RetentionSelect, fileVars
<1>2. CASE RetentionRows
  BY <1>2 DEF RetentionRows, RunInv, PickedIsInactive, ArtifactsTypeOK, Ids
<1>3. CASE RetentionFiles
  BY <1>3 DEF RetentionFiles, RunInv, PickedIsInactive, ArtifactsTypeOK
<1>4. CASE SweepScan \/ SweepRefs
  BY <1>4 DEF SweepScan, SweepRefs, SweepFrame, fileVars
<1>5. ASSUME NEW q \in Runs, RetentionCheck(q) \/ SweepCheck(q)
      PROVE  disk' = disk /\ meta' = meta
  BY <1>5 DEF RetentionCheck, SweepCheck, SweepFrame, fileVars
<1>6. ASSUME NEW q \in Runs, SweepRemove(q)
      PROVE  (disk[r].file => disk'[r].file) /\ (meta[r] # 0 => meta'[r] # 0)
  BY <1>6 DEF SweepRemove, SweepFrame, Looking, RunInv, PickedIsInactive, ArtifactsTypeOK
<1>7. ASSUME NEW q \in Runs, SweepTemp(q)
      PROVE  (disk[r].file => disk'[r].file) /\ (meta[r] # 0 => meta'[r] # 0)
  BY <1>7 DEF SweepTemp, SweepFrame, ArtifactsTypeOK, DirState
<1>8. CASE HistorySelect \/ HistoryFinal
  BY <1>8 DEF HistorySelect, HistoryFinal, fileVars
<1> QED BY <1>1, <1>2, <1>3, <1>4, <1>5, <1>6, <1>7, <1>8 DEF CleanerStep

(* cleanup.py against execute_run: a step of the cleanup task, or one that *)
(* ends its phase, leaves the file and the row of a queued or running run. *)
THEOREM ActiveIsKeptHolds == Spec => ActiveIsKept
<1> DEFINE Kept(r) == Active(r) /\ worker'[r] = worker[r] /\ cleaner' # cleaner =>
                        (disk[r].file => disk'[r].file) /\ (meta[r] # 0 => meta'[r] # 0)
<1>1. ASSUME ArtifactsInv, [Next]_vars, NEW r \in Runs PROVE Kept(r)
  <2> SUFFICES ASSUME Active(r), cleaner' # cleaner
               PROVE  (disk[r].file => disk'[r].file) /\ (meta[r] # 0 => meta'[r] # 0)
    OBVIOUS
  <2>1. CASE CleanerStep
    BY <1>1, <2>1, CleanerSparesActive
  <2>2. CASE PhaseFails
    BY <2>2 DEF PhaseFails, fileVars
  <2>3. CASE Die
    BY <1>1, <2>3 DEF Die, ArtifactsInv, ArtifactsTypeOK, DirState
  <2>4. CASE UNCHANGED vars
    BY <2>4 DEF vars
  <2>5. ASSUME NEW q \in Runs, StartRun(q) \/ RunStep(q) PROVE cleaner' = cleaner
    BY <2>5 DEF StartRun, RunStep, WorkerStep, RunFails, SaveBegin, SaveEnsure, SaveWrite,
        SaveCommit, Restore, BudgetExceeded, Finish, Discard, DiscardLookup, DiscardRemove, DiscardRow, SettleRun,
        Settle, Age, WorkerFrame, Others
  <2>6. CASE (\E p \in Policies : EraseReserve(p)) \/ EraseStep \/ EraseFails
    BY <2>6 DEF EraseReserve, EraseStep, EraseInspect, EraseRows, EraseRemove, EraseIds,
        EraseFinal, EraseFails, EraserFrame
  <2> QED BY <1>1, <2>1, <2>2, <2>3, <2>4, <2>5, <2>6 DEF Next
<1>2. ArtifactsInv /\ [Next]_vars => [\A r \in Runs : Kept(r)]_vars
  BY <1>1
<1> QED BY <1>2, ArtifactsInvariant, PTL DEF Spec, ActiveIsKept
=============================================================================
