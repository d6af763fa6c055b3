----------------------------- MODULE MCScheduler -----------------------------
(* One scheduled job, two configurations, one or both triggers. *)
EXTENDS Scheduler, TLC
CONSTANTS j1, r1, r2, r3, c1, c2
MCJobs == {j1}
ThreeRuns == {r1, r2, r3}
MCJobOf == [r \in Runs |-> j1]
MCSubscribed == {"failed"}
Both == {"cron", "manual"}
OneConfig == {c1}
TwoConfigs == {c1, c2}
MCSymmetry == Permutations(Runs) \cup Permutations(Configs)
=============================================================================
