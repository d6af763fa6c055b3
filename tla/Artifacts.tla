----------------------------- MODULE Artifacts -----------------------------
(***************************************************************************)
(* The result artifacts of one job: storage/result_store.py (directories   *)
(* and results_meta.db), the cleanup cycle of storage/cleanup.py with the  *)
(* history retention of storage/job_retention.py, storage/error_store.py,  *)
(* and the deletion of a job across the three databases by                 *)
(* api/job_lifecycle.py.                                                   *)
(*                                                                         *)
(* A transaction or one blocking file operation is a step; between two of  *)
(* them the worker of a run, the cleanup task and a deletion request       *)
(* interleave, and the process may die.  A worker may have lost its run    *)
(* (life is "done") and not know it yet.  Orphan removal is modelled with  *)
(* storage_reconciliation_dry_run off; a dry run removes nothing.          *)
(***************************************************************************)
EXTENDS Integers, FiniteSets

CONSTANTS
    Runs,
    MaxResults,    \* storage_max_results_per_job
    BatchSize,     \* storage_cleanup_batch_size
    Policies,      \* what clients ask of a deletion: "keep" or "drop" the results
    MaxSaves,      \* bound on rows inserted
    MaxFaults      \* bound on deaths and failing operations

ASSUME RunsAssumption == IsFiniteSet(Runs)
ASSUME ResultsAssumption == MaxResults \in Nat \ {0}
ASSUME BatchAssumption == BatchSize \in Nat \ {0}
ASSUME PolicyAssumption == Policies \subseteq {"keep", "drop"}
ASSUME SavesAssumption == MaxSaves \in Nat \ {0}
ASSUME ArtifactFaultsAssumption == MaxFaults \in Nat

VARIABLES
    kind,      \* the job is "adhoc" (one run) or "scheduled"
    job,       \* its row: "up", "deleting" or "gone"
    policy,    \* delete_results_on_delete: "none", "keep" or "drop"
    cur,       \* jobs.current_run_id, as a set of at most one run
    life,      \* the run: "new", "active", "done" or "pruned"
    reported,  \* runs recorded with a result
    disk,      \* the directory of the run
    meta,      \* id of its row in results_meta, 0 without
    old,       \* runs whose row is past the retention window
    lastId,    \* the AUTOINCREMENT counter
    overtaken, \* history: runs whose row was replaced under a retention pass
    worker,    \* the task executing the run
    cleaner,   \* the cleanup task
    eraser,    \* a deletion request
    faults

jobVars == <<kind, job, policy, cur, life, reported>>
fileVars == <<disk, meta, old, lastId, overtaken>>
vars == <<kind, job, policy, cur, life, reported, disk, meta, old, lastId, overtaken,
          worker, cleaner, eraser, faults>>

NoDir == [dir |-> FALSE, file |-> FALSE, tmp |-> FALSE, fresh |-> FALSE]
Ids == [Runs -> 0..MaxSaves]
NoIds == [r \in Runs |-> 0]
Off == [pc |-> "off", budget |-> FALSE, existed |-> FALSE, prev |-> FALSE, id |-> 0]
Resting == [phase |-> "retention", pc |-> "select", todo |-> {}, batch |-> {}, ids |-> NoIds]
Unasked == [pc |-> "idle", policy |-> "none", owned |-> {}, ids |-> NoIds]

WorkerPc == {"off", "run", "ensure", "write", "commit", "restore", "saved",
             "lookup", "remove", "row"}
CleanerPc == {"select", "check", "rows", "files", "refs", "active", "refs2", "active2",
              "remove", "tempcheck", "temp", "final"}
Phase == {"retention", "artifacts", "history"}

DirState == [dir : BOOLEAN, file : BOOLEAN, tmp : BOOLEAN, fresh : BOOLEAN]
\* budget: _handle_budget_exhaustion is running; existed and prev: what the save
\* found on disk; id: the row that delete_result found.
WorkerState ==
    [pc : WorkerPc, budget : BOOLEAN, existed : BOOLEAN, prev : BOOLEAN, id : 0..MaxSaves]
CleanerState == [phase : Phase, pc : CleanerPc, todo : SUBSET Runs, batch : SUBSET Runs, ids : Ids]
EraserState ==
    [pc : {"idle", "inspect", "rows", "remove", "ids", "final"},
     policy : {"none", "keep", "drop"}, owned : SUBSET Runs, ids : Ids]

ArtifactsTypeOK ==
    /\ kind \in {"adhoc", "scheduled"} /\ job \in {"up", "deleting", "gone"}
    /\ policy \in {"none", "keep", "drop"}
    /\ cur \subseteq Runs /\ reported \subseteq Runs /\ old \subseteq Runs /\ overtaken \subseteq Runs
    /\ life \in [Runs -> {"new", "active", "done", "pruned"}]
    /\ disk \in [Runs -> DirState]
    /\ meta \in Ids /\ lastId \in 0..MaxSaves
    /\ worker \in [Runs -> WorkerState]
    /\ cleaner \in CleanerState /\ eraser \in EraserState
    /\ faults \in 0..MaxFaults

Init ==
    /\ kind \in {"adhoc", "scheduled"} /\ job = "up" /\ policy = "none"
    /\ cur = {} /\ reported = {} /\ old = {} /\ overtaken = {}
    /\ life = [r \in Runs |-> "new"]
    /\ disk = [r \in Runs |-> NoDir]
    /\ meta = NoIds /\ lastId = 0
    /\ worker = [r \in Runs |-> Off]
    /\ cleaner = Resting /\ eraser = Unasked
    /\ faults = 0

Fault == faults < MaxFaults /\ faults' = faults + 1

\* result_run_is_active.
Active(r) == job = "up" /\ life[r] = "active"

-----------------------------------------------------------------------------
(* Runs *)

WorkerAt(r, pc) == worker' = [worker EXCEPT ![r].pc = pc]
WorkerOff(r) == worker' = [worker EXCEPT ![r] = Off]
WorkerRests(r, pc, budget) ==
    worker' = [worker EXCEPT ![r] = [Off EXCEPT !.pc = pc, !.budget = budget]]
Others == UNCHANGED <<cleaner, eraser>>
NextRun == CHOOSE r \in Runs : life[r] = "new" \/ \A q \in Runs : life[q] # "new"

\* A run is accepted and started; ids of runs are interchangeable.  A run is
\* executed once: a redelivery of one that is running is skipped.
StartRun(r) ==
    /\ job = "up" /\ worker[r].pc = "off"
    /\ r = NextRun /\ life[r] = "new" /\ \A q \in Runs : ~Active(q)
    /\ kind = "adhoc" => cur = {}
    /\ life' = [life EXCEPT ![r] = "active"] /\ cur' = {r}
    /\ WorkerAt(r, "run")
    /\ UNCHANGED <<kind, job, policy, reported, faults>> /\ UNCHANGED fileVars /\ Others

\* The worker fails its run, if it still has it.
Failed(r) == life' = [life EXCEPT ![r] = IF Active(r) THEN "done" ELSE @]

\* The targets fail, or the task is stopped, before there is a result.
RunFails(r) ==
    /\ worker[r].pc = "run"
    /\ Failed(r) /\ WorkerOff(r)
    /\ UNCHANGED <<kind, job, policy, cur, reported, faults>> /\ UNCHANGED fileVars /\ Others

\* Recovery or a cancel settles the run under its worker, or after its death, or
\* a trigger takes the job away from it.
SettleRun(r) ==
    /\ Active(r)
    /\ life' = [life EXCEPT ![r] = "done"]
    /\ UNCHANGED <<kind, job, policy, cur, reported, worker, faults>>
    /\ UNCHANGED fileVars /\ Others

-----------------------------------------------------------------------------
(* save_result, delete_result *)

WorkerFrame == UNCHANGED jobVars /\ Others

Saving == {q \in Runs : worker[q].pc \in {"ensure", "write", "commit"}}

\* save_result up to its first write; _job_lookup raises once the job is gone.
BeginSave(r, budget) ==
    /\ lastId + Cardinality(Saving) < MaxSaves
    /\ IF job = "gone" THEN WorkerRests(r, "lookup", FALSE) ELSE WorkerRests(r, "ensure", budget)

\* The result of the targets, or of the limit they hit, is saved.
SaveBegin(r) ==
    /\ worker[r].pc = "run"
    /\ \E budget \in BOOLEAN : BeginSave(r, budget)
    /\ WorkerFrame /\ UNCHANGED fileVars /\ UNCHANGED faults

\* The directory is made and a previous file of the run is kept aside.
SaveEnsure(r) ==
    /\ worker[r].pc = "ensure"
    /\ worker' = [worker EXCEPT ![r] = [@ EXCEPT !.pc = "write", !.existed = disk[r].dir,
                                                !.prev = disk[r].file]]
    /\ disk' = [disk EXCEPT ![r].dir = TRUE, ![r].fresh = TRUE]
    /\ WorkerFrame /\ UNCHANGED <<meta, old, lastId, overtaken, faults>>

\* write_json_file_bounded replaces the file at once or not at all; the
\* directory may have been removed meanwhile.
SaveWrite(r) ==
    /\ worker[r].pc = "write"
    /\ \/ /\ disk[r].dir
          /\ disk' = [disk EXCEPT ![r].file = TRUE, ![r].fresh = TRUE]
          /\ WorkerAt(r, "commit") /\ UNCHANGED faults
       \/ /\ ~disk[r].dir
          /\ WorkerAt(r, "restore") /\ UNCHANGED <<disk, faults>>
       \/ Fault /\ WorkerAt(r, "restore") /\ UNCHANGED disk
    /\ WorkerFrame /\ UNCHANGED <<meta, old, lastId, overtaken>>

\* INSERT OR REPLACE gives the row a new id.  A retention pass that selected the
\* former row goes on with its id and its path.
SaveCommit(r) ==
    /\ worker[r].pc = "commit"
    /\ \/ /\ lastId' = lastId + 1 /\ meta' = [meta EXCEPT ![r] = lastId + 1]
          /\ old' = old \ {r}
          /\ overtaken' = IF cleaner.pc = "check" /\ r \in cleaner.todo
                          THEN overtaken \cup {r} ELSE overtaken
          /\ WorkerRests(r, "saved", worker[r].budget) /\ UNCHANGED faults
       \/ Fault /\ WorkerAt(r, "restore") /\ UNCHANGED <<meta, old, lastId, overtaken>>
    /\ WorkerFrame /\ UNCHANGED disk

\* restore_previous.  The run then fails and its result is discarded, or it was
\* the size or the deadline, which the budget handler reports; that one goes on
\* without a result of its own.
Restore(r) ==
    /\ worker[r].pc = "restore"
    /\ disk' = IF ~disk[r].dir THEN disk
               ELSE IF worker[r].prev THEN [disk EXCEPT ![r].file = TRUE, ![r].fresh = TRUE]
               ELSE IF worker[r].existed \/ disk[r].tmp THEN [disk EXCEPT ![r].file = FALSE]
               ELSE [disk EXCEPT ![r] = NoDir]
    /\ \/ worker[r].budget /\ WorkerRests(r, "saved", TRUE)
       \/ ~worker[r].budget /\ WorkerRests(r, "lookup", FALSE)
       \/ ~worker[r].budget /\ BeginSave(r, TRUE)
    /\ WorkerFrame /\ UNCHANGED <<meta, old, lastId, overtaken, faults>>

\* The deadline passes after the result was committed: the budget handler saves
\* another one in its place.
BudgetExceeded(r) ==
    /\ worker[r].pc = "saved" /\ ~worker[r].budget
    /\ BeginSave(r, TRUE)
    /\ WorkerFrame /\ UNCHANGED fileVars /\ UNCHANGED faults

\* The owner records its outcome.
Finish(r) ==
    /\ worker[r].pc = "saved" /\ Active(r)
    /\ life' = [life EXCEPT ![r] = "done"] /\ reported' = reported \cup {r}
    /\ WorkerOff(r)
    /\ UNCHANGED <<kind, job, policy, cur, faults>> /\ UNCHANGED fileVars /\ Others

\* A worker that lost its run, was cancelled or fails discards the result.
Discard(r) ==
    /\ worker[r].pc = "saved"
    /\ WorkerRests(r, "lookup", FALSE)
    /\ WorkerFrame /\ UNCHANGED fileVars /\ UNCHANGED faults

\* delete_result: the row, then the directory, then the row by its id.
DiscardLookup(r) ==
    /\ worker[r].pc = "lookup"
    /\ worker' = IF meta[r] = 0 /\ job = "gone" THEN [worker EXCEPT ![r] = Off]
                 ELSE [worker EXCEPT ![r].pc = "remove", ![r].id = meta[r]]
    /\ WorkerFrame /\ UNCHANGED fileVars /\ UNCHANGED faults

DiscardRemove(r) ==
    /\ worker[r].pc = "remove"
    /\ \/ disk' = [disk EXCEPT ![r] = NoDir] /\ WorkerAt(r, "row") /\ UNCHANGED <<life, faults>>
       \/ Fault /\ WorkerOff(r) /\ Failed(r) /\ UNCHANGED disk
    /\ UNCHANGED <<kind, job, policy, cur, reported, meta, old, lastId, overtaken>> /\ Others

DiscardRow(r) ==
    /\ worker[r].pc = "row"
    /\ meta' = [meta EXCEPT ![r] = IF @ = worker[r].id THEN 0 ELSE @]
    /\ old' = {q \in old : meta'[q] # 0}
    /\ Failed(r) /\ WorkerOff(r)
    /\ UNCHANGED <<kind, job, policy, cur, reported, disk, lastId, overtaken, faults>> /\ Others

WorkerStep(r) ==
    \/ RunFails(r) \/ SaveBegin(r) \/ SaveEnsure(r) \/ SaveWrite(r) \/ SaveCommit(r)
    \/ Restore(r) \/ BudgetExceeded(r) \/ Finish(r)
    \/ Discard(r) \/ DiscardLookup(r) \/ DiscardRemove(r) \/ DiscardRow(r)

-----------------------------------------------------------------------------
(* The cleanup cycle: one task, its phases in order *)

CleanerFrame == UNCHANGED <<worker, eraser, faults>>
NextPhase == [retention |-> "artifacts", artifacts |-> "history", history |-> "retention"]
PhaseOver == cleaner' = [Resting EXCEPT !.phase = NextPhase[cleaner.phase]]

\* The rows of EXPIRED_RESULTS_QUERY and of EXCESS_RESULTS_PER_JOB_QUERY, which
\* go through the same procedure one after the other.
Newer(r) == {q \in Runs : meta[q] > meta[r]}
Eligible == {r \in Runs : meta[r] # 0 /\ (r \in old \/ Cardinality(Newer(r)) >= MaxResults)}
Batch(rs) == {r \in rs : Cardinality({q \in rs : meta[q] < meta[r]}) < BatchSize}

RetentionSelect ==
    /\ cleaner.phase = "retention" /\ cleaner.pc = "select"
    /\ LET rows == Batch(Eligible) IN
       IF rows = {} THEN PhaseOver
       ELSE cleaner' = [cleaner EXCEPT !.pc = "check", !.todo = rows,
                          !.ids = [r \in Runs |-> IF r \in rows THEN meta[r] ELSE 0]]
    /\ UNCHANGED jobVars /\ UNCHANGED fileVars /\ CleanerFrame

\* Mutant: every selected row is taken.
TakeUnchecked(r) ==
    /\ cleaner.pc = "check" /\ r \in cleaner.todo
    /\ cleaner' = [cleaner EXCEPT !.todo = @ \ {r}, !.batch = @ \cup {r}]
    /\ UNCHANGED jobVars /\ UNCHANGED fileVars /\ CleanerFrame

\* Rows of active runs are left out.
RetentionCheck(r) ==
    /\ cleaner.pc = "check" /\ r \in cleaner.todo
    /\ cleaner' = [cleaner EXCEPT !.todo = @ \ {r},
                                  !.batch = IF Active(r) THEN @ ELSE @ \cup {r}]
    /\ UNCHANGED jobVars /\ UNCHANGED fileVars /\ CleanerFrame

\* Mutant: the directories go first.
FilesBeforeRows ==
    /\ cleaner.pc = "check" /\ cleaner.todo = {}
    /\ disk' = [r \in Runs |-> IF r \in cleaner.batch THEN NoDir ELSE disk[r]]
    /\ PhaseOver
    /\ UNCHANGED <<meta, old, lastId, overtaken>> /\ UNCHANGED jobVars /\ CleanerFrame

\* The metadata goes first, by id; a death leaves directories without rows.
RetentionRows ==
    /\ cleaner.pc = "check" /\ cleaner.todo = {}
    /\ meta' = [r \in Runs |-> IF r \in cleaner.batch /\ meta[r] = cleaner.ids[r] THEN 0 ELSE meta[r]]
    /\ cleaner' = [Resting EXCEPT !.pc = "files", !.todo = cleaner.batch]
    /\ old' = {r \in old : meta'[r] # 0}
    /\ UNCHANGED <<disk, lastId, overtaken>> /\ UNCHANGED jobVars /\ CleanerFrame

RetentionFiles ==
    /\ cleaner.pc = "files"
    /\ \/ \E r \in cleaner.todo :
            /\ disk' = [disk EXCEPT ![r] = NoDir]
            /\ cleaner' = [cleaner EXCEPT !.todo = @ \ {r}]
       \/ cleaner.todo = {} /\ PhaseOver /\ UNCHANGED disk
    /\ UNCHANGED <<meta, old, lastId, overtaken>> /\ UNCHANGED jobVars /\ CleanerFrame

\* Mutant: only directories with a row are looked at.
ScanListed ==
    /\ cleaner.phase = "artifacts" /\ cleaner.pc = "select"
    /\ LET seen == {r \in Runs : disk[r].dir /\ meta[r] # 0} IN
       cleaner' = [cleaner EXCEPT !.pc = "refs", !.todo = seen,
                                  !.batch = {r \in seen : disk[r].fresh}]
    /\ UNCHANGED jobVars /\ UNCHANGED fileVars /\ CleanerFrame

\* _scan_artifacts pages through the directories; batch holds those that were
\* recent when they were scanned.
SweepScan ==
    /\ cleaner.phase = "artifacts" /\ cleaner.pc = "select"
    /\ LET seen == {r \in Runs : disk[r].dir} IN
       cleaner' = [cleaner EXCEPT !.pc = "refs", !.todo = seen,
                                  !.batch = {r \in seen : disk[r].fresh}]
    /\ UNCHANGED jobVars /\ UNCHANGED fileVars /\ CleanerFrame

\* One entry at a time; ids marks the entry being looked at.
SweepAt(r, pc) == cleaner' = [cleaner EXCEPT !.pc = pc, !.todo = @ \ {r}, !.ids = [NoIds EXCEPT ![r] = 1]]
SweepSkip == cleaner' = [cleaner EXCEPT !.pc = "refs", !.ids = NoIds]
Looking(pc, r) == cleaner.phase = "artifacts" /\ cleaner.pc = pc /\ cleaner.ids[r] = 1
SweepFrame == UNCHANGED <<meta, old, lastId, overtaken>> /\ UNCHANGED jobVars /\ CleanerFrame

SweepRefs ==
    /\ cleaner.phase = "artifacts" /\ cleaner.pc = "refs"
    /\ \/ cleaner.todo = {} /\ PhaseOver
       \/ \E r \in cleaner.todo :
            SweepAt(r, CASE meta[r] # 0 /\ disk[r].tmp /\ r \notin cleaner.batch -> "tempcheck"
                         [] meta[r] # 0 \/ r \in cleaner.batch -> "refs"
                         [] OTHER -> "active")
    /\ SweepFrame /\ UNCHANGED disk

\* The two looks at a candidate: active, metadata, active again.
SweepCheck(r) ==
    /\ \/ /\ Looking("active", r)
          /\ IF Active(r) THEN SweepSkip ELSE cleaner' = [cleaner EXCEPT !.pc = "refs2"]
       \/ /\ Looking("refs2", r)
          /\ IF meta[r] # 0 THEN SweepSkip ELSE cleaner' = [cleaner EXCEPT !.pc = "active2"]
       \/ /\ Looking("active2", r)
          /\ IF Active(r) THEN SweepSkip ELSE cleaner' = [cleaner EXCEPT !.pc = "remove"]
       \/ /\ Looking("tempcheck", r)
          /\ IF Active(r) THEN SweepSkip ELSE cleaner' = [cleaner EXCEPT !.pc = "temp"]
    /\ SweepFrame /\ UNCHANGED disk

\* _remove_run_candidate looks at the recency again.
SweepRemove(r) ==
    /\ Looking("remove", r)
    /\ disk' = IF disk[r].fresh THEN disk ELSE [disk EXCEPT ![r] = NoDir]
    /\ SweepSkip /\ SweepFrame

\* _remove_temp_candidate.
SweepTemp(r) ==
    /\ Looking("temp", r)
    /\ disk' = IF disk[r].fresh THEN disk ELSE [disk EXCEPT ![r].tmp = FALSE]
    /\ SweepSkip /\ SweepFrame

-----------------------------------------------------------------------------
(* Deletion of the job and of its history *)

\* reserve_job_deletion: TRUE if the caller goes on.
Reservable(p) ==
    \/ job = "up" /\ cur # {} /\ \A r \in Runs : ~Active(r)
    \/ job = "deleting" /\ policy = p

Reserved(p) == job' = "deleting" /\ policy' = p

\* Finalization drops the job with its runs, while the reservation matches.
Finalized(p) ==
    IF job = "deleting" /\ policy = p
      THEN job' = "gone" /\ life' = [r \in Runs |-> "pruned"] /\ cur' = {}
      ELSE UNCHANGED <<job, life, cur>>

\* list_adhoc_jobs_for_retention; the cleanup keeps the results.
AdhocExpired == kind = "adhoc" /\ Reservable("keep")

\* A run that is over and not the current one; asked again when it is pruned.
Prunable(r) == kind = "scheduled" /\ r \notin cur /\ life[r] = "done"

\* _cleanup_durable_history: an ad-hoc job, or a run of a schedule.
HistorySelect ==
    /\ cleaner.phase = "history" /\ cleaner.pc = "select"
    /\ \/ PhaseOver /\ UNCHANGED <<job, policy>>
       \/ /\ AdhocExpired
          /\ Reserved("keep")
          /\ cleaner' = [cleaner EXCEPT !.pc = "final", !.todo = Runs]
       \/ \E r \in Runs :
            /\ Prunable(r)
            /\ cleaner' = [cleaner EXCEPT !.pc = "final", !.todo = {r}]
            /\ UNCHANGED <<job, policy>>
    /\ UNCHANGED <<kind, cur, life, reported>> /\ UNCHANGED fileVars /\ CleanerFrame

HistoryFinal ==
    /\ cleaner.pc = "final"
    /\ \/ kind = "adhoc" /\ Finalized("keep")
       \/ /\ kind = "scheduled"
          /\ life' = [r \in Runs |-> IF r \in cleaner.todo /\ Prunable(r)
                                       THEN "pruned" ELSE life[r]]
          /\ UNCHANGED <<job, cur>>
    /\ PhaseOver
    /\ UNCHANGED <<kind, policy, reported>> /\ UNCHANGED fileVars /\ CleanerFrame

\* A phase fails: it is recorded and the next one runs.
PhaseFails ==
    /\ cleaner.pc # "select"
    /\ Fault /\ PhaseOver
    /\ UNCHANGED <<worker, eraser>> /\ UNCHANGED jobVars /\ UNCHANGED fileVars

CleanerStep ==
    \/ RetentionSelect \/ RetentionRows \/ RetentionFiles \/ SweepScan \/ SweepRefs
    \/ \E r \in Runs : RetentionCheck(r) \/ SweepCheck(r) \/ SweepRemove(r) \/ SweepTemp(r)
    \/ HistorySelect \/ HistoryFinal

EraserFrame == UNCHANGED <<kind, reported, worker, cleaner>>

\* delete_reserved_job, first phase; owned are the runs jobs.db still has.
EraseReserve(p) ==
    /\ eraser.pc = "idle" /\ Reservable(p)
    /\ Reserved(p)
    /\ eraser' = [Unasked EXCEPT !.pc = "inspect", !.policy = p,
                    !.owned = {r \in Runs : life[r] \in {"active", "done"}} \cup cur]
    /\ EraserFrame /\ UNCHANGED <<cur, life, faults>> /\ UNCHANGED fileVars

\* The delivery of the current run must be quiescent.
EraseInspect ==
    /\ eraser.pc = "inspect"
    /\ eraser' = IF \E r \in cur : worker[r].pc # "off" THEN Unasked
                 ELSE IF eraser.policy = "drop" THEN [eraser EXCEPT !.pc = "rows"]
                 ELSE [Unasked EXCEPT !.pc = "final", !.policy = "keep"]
    /\ EraserFrame /\ UNCHANGED <<job, policy, cur, life, faults>> /\ UNCHANGED fileVars

\* delete_results: the rows, all directories, then the rows by id.
EraseRows ==
    /\ eraser.pc = "rows"
    /\ eraser' = [eraser EXCEPT !.pc = "remove", !.ids = meta]
    /\ EraserFrame /\ UNCHANGED <<job, policy, cur, life, faults>> /\ UNCHANGED fileVars

EraseRemove ==
    /\ eraser.pc = "remove"
    /\ disk' = [r \in Runs |-> IF r \in eraser.owned \/ eraser.ids[r] # 0 THEN NoDir ELSE disk[r]]
    /\ eraser' = [eraser EXCEPT !.pc = "ids"]
    /\ EraserFrame /\ UNCHANGED <<job, policy, cur, life, meta, old, lastId, overtaken, faults>>

EraseIds ==
    /\ eraser.pc = "ids"
    /\ meta' = [r \in Runs |-> IF meta[r] = eraser.ids[r] THEN 0 ELSE meta[r]]
    /\ old' = {r \in old : meta'[r] # 0}
    /\ eraser' = [Unasked EXCEPT !.pc = "final", !.policy = eraser.policy]
    /\ EraserFrame /\ UNCHANGED <<job, policy, cur, life, disk, lastId, overtaken, faults>>

EraseFinal ==
    /\ eraser.pc = "final"
    /\ Finalized(eraser.policy)
    /\ eraser' = Unasked
    /\ EraserFrame /\ UNCHANGED <<policy, faults>> /\ UNCHANGED fileVars

\* A phase fails; the reservation stays for a retry with the same policy.
EraseFails ==
    /\ eraser.pc # "idle"
    /\ Fault /\ eraser' = Unasked
    /\ EraserFrame /\ UNCHANGED <<job, policy, cur, life>> /\ UNCHANGED fileVars

EraseStep ==
    EraseInspect \/ EraseRows \/ EraseRemove \/ EraseIds \/ EraseFinal

-----------------------------------------------------------------------------
(* Time and death *)

\* The orphan grace outlasts a save and its finalization.
Settle(r) ==
    /\ disk[r].fresh /\ worker[r].pc \in {"off", "run"}
    /\ disk' = [disk EXCEPT ![r].fresh = FALSE]
    /\ UNCHANGED <<meta, old, lastId, overtaken, worker, faults>> /\ UNCHANGED jobVars /\ Others

\* The retention window, at least a day, outlasts a run with its redelivery.
Age(r) ==
    /\ meta[r] # 0 /\ r \notin old /\ ~Active(r) /\ worker[r].pc = "off"
    /\ old' = old \cup {r}
    /\ UNCHANGED <<disk, meta, lastId, overtaken, worker, faults>> /\ UNCHANGED jobVars /\ Others

\* The process dies; a write in flight leaves its temporary file.
Die ==
    /\ Fault
    /\ disk' = [r \in Runs |-> IF worker[r].pc = "write" /\ disk[r].dir
                                 THEN [disk[r] EXCEPT !.tmp = TRUE] ELSE disk[r]]
    /\ worker' = [r \in Runs |-> Off]
    /\ cleaner' = Resting /\ eraser' = Unasked
    /\ UNCHANGED <<meta, old, lastId, overtaken>> /\ UNCHANGED jobVars

RunStep(r) == WorkerStep(r) \/ SettleRun(r) \/ Settle(r) \/ Age(r)

Next ==
    \/ \E r \in Runs : StartRun(r) \/ RunStep(r)
    \/ CleanerStep \/ PhaseFails
    \/ \E p \in Policies : EraseReserve(p)
    \/ EraseStep \/ EraseFails
    \/ Die

Spec == Init /\ [][Next]_vars

(***************************************************************************)
(* Fairness.  The cleanup loop is periodic and a request that can go on    *)
(* does.  Of the runs it is enough that not all stand still: tasks that    *)
(* can go on do, a run nobody executes is recovered, time passes.  Nothing *)
(* is assumed of clients, so an interrupted deletion may stay reserved.    *)
(***************************************************************************)
Fairness ==
    WF_vars(CleanerStep) /\ WF_vars(EraseStep) /\ WF_vars(\E r \in Runs : RunStep(r))

FairSpec == Spec /\ Fairness

-----------------------------------------------------------------------------
(* Properties *)

\* A result the job store reports is readable as long as it is listed:
\* retention and orphan removal take the row before the file, whatever they saw
\* before; only a deletion that drops results takes the files first.  The one
\* exception is a result that the budget handler saved again while retention had
\* its former row selected, which needs rows of later date from stale workers.
ReportedIsReadable ==
    ArtifactsTypeOK /\ \A r \in reported \ overtaken : meta[r] # 0 /\ policy # "drop" => disk[r].file

\* Cleanup takes neither file nor row from a run that is queued or running: a
\* step that does is a step of the run's own worker.
ActiveIsKept ==
    [][\A r \in Runs : Active(r) /\ worker'[r] = worker[r] /\ cleaner' # cleaner =>
          (disk[r].file => disk'[r].file) /\ (meta[r] # 0 => meta'[r] # 0)]_vars

\* Nothing is kept for ever: once a run is over its directory and its row go,
\* whatever failed or died between the two.
ArtifactsAreReclaimed ==
    \A r \in Runs : (life[r] \in {"done", "pruned"}) ~> (~disk[r].dir /\ meta[r] = 0)
=============================================================================
