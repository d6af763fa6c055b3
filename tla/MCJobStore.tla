----------------------------- MODULE MCJobStore -----------------------------
(* Two jobs competing for one or two reservations, three run ids. *)
EXTENDS JobStore, TLC
CONSTANTS j1, j2, r1, r2, r3
MCJobs == {j1, j2}
MCRuns == {r1, r2, r3}
MCJobOf == (r1 :> j1) @@ (r2 :> j1) @@ (r3 :> j2)
MCSubscribed == {"complete", "failed"}
=============================================================================
