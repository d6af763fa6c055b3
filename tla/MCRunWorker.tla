----------------------------- MODULE MCRunWorker -----------------------------
(* One job.  run_worker has one run, whose worker meets every fault.  In        *)
(* superseded a process died while r1 ran: two triggers find r1 stale, and the  *)
(* later one can supersede the run the other queued.                            *)
EXTENDS RunWorker, TLC
CONSTANTS j1, r1, r2, r3
OneRun == {r1}
ThreeRuns == {r1, r2, r3}
MCJobs == {j1}
MCJobOf == [r \in Runs |-> j1]
MCSubscribed == {"complete", "failed"}
AllOutcomes == Settled
OneOutcome == {"complete"}
Triggers == Permutations({r2, r3})

\* r1 was claimed by a process that died, and its delivery was skipped since.
OrphanInit ==
    /\ jobStatus = [j \in Jobs |-> "running"]
    /\ cur = [j \in Jobs |-> r1]
    /\ cron = [j \in Jobs |-> TRUE]
    /\ enabled = [j \in Jobs |-> TRUE]
    /\ runStatus = [r \in Runs |-> IF r = r1 THEN "running" ELSE "none"]
    /\ fresh = [r \in Runs |-> FALSE]
    /\ completedBy = [r \in Runs |-> "none"]
    /\ snapshot = {} /\ reconciled = {} /\ missed = {} /\ used = {r1}
    /\ intent = [r \in Runs |-> "none"]
    /\ delivery = [r \in Runs |-> "missing"]
    /\ worker = [r \in Runs |-> Idle]
    /\ artifact = [r \in Runs |-> "none"]
    /\ sender = [r \in Runs |-> {}]
    /\ recon = NoRecon
    /\ abort = {} /\ waiting = {} /\ acked = {} /\ blind = {r1} /\ unannounced = {}
    /\ faults = MaxFaults

SupersedeSpec == OrphanInit /\ [][Next]_vars

\* Behaviours end where the job is cancelled.
NotCancelled == waiting = {}
=============================================================================
