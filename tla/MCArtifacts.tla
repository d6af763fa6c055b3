---------------------------- MODULE MCArtifacts ----------------------------
(* Two runs of a job, one result kept, rows taken one at a time; clients ask  *)
(* for the results to be dropped, the history retention keeps them.           *)
EXTENDS Artifacts
CONSTANTS r1, r2
TwoRuns == {r1, r2}
Dropping == {"drop"}

\* The third save, of one run for the second time beside the other, is followed
\* without faults and deletions; these meet up to two.
ThirdSaveAlone == lastId + Cardinality(Saving) > 2 => faults = 0 /\ job = "up"
=============================================================================
