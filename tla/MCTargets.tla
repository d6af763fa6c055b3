----------------------------- MODULE MCTargets -----------------------------
(* Run A scrapes a target of each of two domains, the first with a browser *)
(* and the second over two pages; run B scrapes another target of the      *)
(* first domain, twice, and retries what fails or comes back empty.  The   *)
(* breaker and the limiter have room for one domain.                       *)
EXTENDS Targets, TLC
CONSTANTS t1, t2, t3, dA, dB, A, B, q1, q2
ThreeTargets == {t1, t2, t3}
TwoDomains == {dA, dB}
DomainOfTarget == (t1 :> dA) @@ (t2 :> dB) @@ (t3 :> dA)
TwoRuns == {A, B}
RunOfTarget == (t1 :> A) @@ (t2 :> A) @@ (t3 :> B)
AttemptsOfRun == (A :> 1) @@ (B :> 2)
PagesOfTarget == (t1 :> 1) @@ (t2 :> 2) @@ (t3 :> 1)
LaunchesOfRun == (A :> 1) @@ (B :> 2)
RetryEmpty == {B}
OneBrowser == {t1}
TwoRoutes == {q1, q2}
AlikeRoutes == Permutations(TwoRoutes)

(* The requests of a page are explored before run B is launched, which     *)
(* shares neither the page nor the budget with it; from then on the two    *)
(* runs go through half a budget together.                                 *)
OneByOne ==
    launches[B] > 0 =>
        /\ \A c \in Chains : phase[c] = "idle"
        /\ requests[A] + requests[B] <= 2
=============================================================================
