------------------------------ MODULE Targets ------------------------------
(***************************************************************************)
(* Scraping the targets of the runs a worker process executes: the target  *)
(* tasks of queue/worker.py with the circuit breaker, the rate limiter,    *)
(* the domain guard (engine/domain_guard.py), the browser permits          *)
(* (queue/browser_limiter.py), the run's request budget                    *)
(* (common/budgets.py), retries, pagination (engine/scraper.py,            *)
(* engine/pagination.py) and the validation retry.                         *)
(*                                                                         *)
(* The tasks share one event loop: a step runs from one await to the next. *)
(* A page is reduced to the outcome of its attempt                         *)
(*    ok         a page with records, or a legal end of pagination         *)
(*    transient  no answer, 5xx or 429: retried, counts for the circuit    *)
(*    failed     any other answer, a denial, an unsafe URL, a selector     *)
(*    stopped    Scrapeyard refused the page itself (domain guard)         *)
(* The domain guard counts pages per host, and cools hosts down that       *)
(* denied access to this run or to another worker; operators and time      *)
(* clear its memory.  It may answer either way whenever it is asked.       *)
(***************************************************************************)
EXTENDS CircuitBreaker, RateLimiter

CONSTANTS
    Runs,
    RunOf,         \* the run of each target
    Browsers,      \* targets with a dynamic or stealthy fetcher
    Concurrency,   \* execution.concurrency of a run
    Slots,         \* browser permits of the process
    MaxAttempts,   \* retry.max_attempts of each run
    MaxPages,      \* pagination.max_pages of each target
    OnEmptyRetry,  \* runs whose validation.on_empty is retry
    MaxRequests,   \* run_max_requests
    MaxRedirects,  \* _MAX_REDIRECTS of the browsers
    Routes,        \* the requests of a page that are handled at the same time
    MaxLaunches    \* bound on the executions of each run's job

ASSUME RunAssumption ==
    RunOf \in [Targets -> Runs] /\ Browsers \subseteq Targets /\ OnEmptyRetry \subseteq Runs
ASSUME LimitsAssumption ==
    /\ {Concurrency, Slots, MaxRequests} \subseteq Nat \ {0}
    /\ MaxAttempts \in [Runs -> Nat \ {0}] /\ MaxPages \in [Targets -> Nat \ {0}]
    /\ MaxRedirects \in Nat /\ MaxLaunches \in [Runs -> Nat]
    /\ IsFiniteSet(Routes)

VARIABLES
    run,       \* "over", "running", "cancelled" or "exhausted" (budget or deadline)
    requests,  \* requests reserved from the run's budget
    issued,    \* requests that left for the network
    pc,        \* where a target task is
    round,     \* 2 during the retry after a failed validation
    attempt,
    got,       \* pages scraped
    observed,  \* upstream_response_observed
    probe,     \* runtime.circuit_probe, its generation, 0 for None
    slots,     \* targets that hold a browser permit
    live,      \* targets whose browser coroutine runs
    phase,     \* where each request a page routes is
    hops,      \* chains: the requests its redirect chain has come to
    launches

taskVars == <<pc, round, attempt, got, observed, probe>>
runVars == <<run, requests, issued, launches>>
browserVars == <<slots, live, phase, hops>>
vars == <<circuits, limiterVars, taskVars, runVars, browserVars>>

Steps == {"done", "start", "slot", "attempt", "rate", "fetch", "closing"}

(* A request a page has routed is                                          *)
(*    guard      with the route handler (it resolves names)                *)
(*    late       still there when the page is closed                       *)
(*    open       let through, under the reservation of a whole chain       *)
(*    releasing  over; the future that settles the chain is still to run   *)
(*    lost       a reservation that nobody will settle                     *)
Phases == {"idle", "guard", "late", "open", "releasing", "lost"}
Holding == {"open", "releasing", "lost"}
Chains == Targets \X Routes
ChainsOf(t) == {t} \X Routes

TargetsOf(r) == {t \in Targets : RunOf[t] = r}
Active(t) == run[RunOf[t]] = "running"

Init ==
    /\ circuits = [d \in Domains |-> NoCircuit]
    /\ LimiterInit
    /\ run = [r \in Runs |-> "over"]
    /\ requests = [r \in Runs |-> 0]
    /\ issued = [r \in Runs |-> 0]
    /\ launches = [r \in Runs |-> 0]
    /\ pc = [t \in Targets |-> "done"]
    /\ round = [t \in Targets |-> 1]
    /\ attempt = [t \in Targets |-> 1]
    /\ got = [t \in Targets |-> 0]
    /\ observed = [t \in Targets |-> FALSE]
    /\ probe = [t \in Targets |-> 0]
    /\ slots = {}
    /\ live = {}
    /\ phase = [c \in Chains |-> "idle"]
    /\ hops = [c \in Chains |-> 0]

-----------------------------------------------------------------------------
(* Moving on.  Goto leaves everything but the step of the task alone.      *)
Goto(t, step) ==
    /\ pc' = [pc EXCEPT ![t] = step]
    /\ UNCHANGED <<round, attempt, got, observed, probe>>

(* The task of the target is over and its locals are gone.                 *)
Over(t) ==
    /\ pc' = [pc EXCEPT ![t] = "done"]
    /\ round' = [round EXCEPT ![t] = 1]
    /\ attempt' = [attempt EXCEPT ![t] = 1]
    /\ got' = [got EXCEPT ![t] = 0]
    /\ observed' = [observed EXCEPT ![t] = FALSE]
    /\ probe' = [probe EXCEPT ![t] = 0]

(* _process_all_targets: one task per target, a new budget.                *)
Launch(r) ==
    /\ run[r] = "over"
    /\ launches[r] < MaxLaunches[r]
    /\ \A t \in TargetsOf(r) : at[t] = "out"
    /\ launches' = [launches EXCEPT ![r] = @ + 1]
    /\ run' = [run EXCEPT ![r] = "running"]
    /\ pc' = [t \in Targets |-> IF RunOf[t] = r THEN "start" ELSE pc[t]]
    /\ UNCHANGED <<circuits, limiterVars, requests, issued, round, attempt, got,
                   observed, probe, browserVars>>

(* gather has every result: the run closes its shared browsers and goes on *)
(* to save them.                                                           *)
RunEnds(r) ==
    /\ run[r] # "over"
    /\ \A t \in TargetsOf(r) : pc[t] = "done"
    /\ run' = [run EXCEPT ![r] = "over"]
    /\ requests' = [requests EXCEPT ![r] = 0]
    /\ issued' = [issued EXCEPT ![r] = 0]
    /\ phase' = [c \in Chains |-> IF RunOf[c[1]] = r THEN "idle" ELSE phase[c]]
    /\ hops' = [c \in Chains |-> IF RunOf[c[1]] = r THEN 0 ELSE hops[c]]
    /\ UNCHANGED <<circuits, limiterVars, taskVars, launches, slots, live>>

(* _process_one under the run's semaphore: the domain policy, then the     *)
(* circuit, may refuse the target.                                         *)
Begin(t) ==
    LET d == DomainOf[t]
        step == IF t \in Browsers THEN "slot" ELSE "attempt"
    IN  /\ pc[t] = "start"
        /\ Active(t)
        /\ Cardinality({u \in TargetsOf(RunOf[t]) : pc[u] \notin {"start", "done"}}) < Concurrency
        /\ \/ Over(t) /\ UNCHANGED circuits
           \/ /\ ~ Refused(d)
              /\ circuits' = Check(d)
              /\ probe' = [probe EXCEPT ![t] = Granted(d)]
              /\ pc' = [pc EXCEPT ![t] = step]
              /\ UNCHANGED <<round, attempt, got, observed>>
        /\ UNCHANGED <<limiterVars, runVars, browserVars>>

(* BrowserExecutionLimiter.slot: a permit; the wait for memory that        *)
(* follows holds it, as the attempt does.                                  *)
TakeSlot(t) ==
    /\ pc[t] = "slot"
    /\ Active(t)
    /\ Cardinality(slots) < Slots
    /\ slots' = slots \cup {t}
    /\ Goto(t, "attempt")
    /\ UNCHANGED <<circuits, limiterVars, runVars, live, phase, hops>>

-----------------------------------------------------------------------------
(* scrape_target has returned result o.  What it means to the circuit: a   *)
(* failure the site answered closes a half-open circuit, and what          *)
(* Scrapeyard refused itself says nothing.  A validation retry presents no *)
(* probe, the first round used it up.                                      *)
Verdicts(t, o) ==
    LET d == DomainOf[t]
    IN  CASE o = "ok" -> {RecordSuccess(circuits, d, probe[t])}
          [] o = "stopped" -> {AbortProbe(circuits, d, probe[t])}
          [] o = "transient" -> RecordFailure(circuits, d, probe[t])
          [] o = "failed" ->
                {IF probe[t] # 0 THEN RecordSuccess(circuits, d, probe[t]) ELSE circuits}

(* The target is over and its permit is back.                              *)
Closes(t) ==
    /\ slots' = slots \ {t}
    /\ Over(t)

(* A result that fails validation is scraped once more.                    *)
ScrapedAgain(t) ==
    /\ round[t] = 1
    /\ RunOf[t] \in OnEmptyRetry
    /\ round' = [round EXCEPT ![t] = 2]
    /\ attempt' = [attempt EXCEPT ![t] = 1]
    /\ got' = [got EXCEPT ![t] = 0]
    /\ observed' = [observed EXCEPT ![t] = TRUE]
    /\ probe' = [probe EXCEPT ![t] = 0]
    /\ pc' = [pc EXCEPT ![t] = "attempt"]
    /\ UNCHANGED slots

(* apply_validation of a success: accepted, warned about, skipped, failed  *)
(* or an access denial after all; or scraped once more.                    *)
Validated(t) == Closes(t) \/ ScrapedAgain(t)

Result(t, o) ==
    /\ circuits' \in Verdicts(t, o)
    /\ IF o = "ok" THEN Validated(t) ELSE Closes(t)

(* A ScrapeStop on the first page fails the target; on a later page it     *)
(* ends the pagination and keeps the pages.                                *)
Stops(t) == Result(t, IF got[t] = 0 THEN "stopped" ELSE "ok")

(* RetryHandler.execute: a transient failure is tried again, a status only *)
(* if the configuration lists it as retryable.                             *)
Retries(t, o, answered) ==
    /\ o = "transient"
    /\ attempt[t] < MaxAttempts[RunOf[t]]
    /\ attempt' = [attempt EXCEPT ![t] = @ + 1]
    /\ pc' = [pc EXCEPT ![t] = "attempt"]
    /\ observed' = [observed EXCEPT ![t] = answered]
    /\ UNCHANGED <<circuits, slots, round, got, probe>>

Fails(t, o, answered) == Retries(t, o, answered) \/ Result(t, o)

-----------------------------------------------------------------------------
(* One attempt of one page.                                                *)

(* RunDomainPolicy.admit refuses the page.                                 *)
NotAdmitted(t) == Stops(t)

(* The URL does not resolve, or is not public.                             *)
UrlRefused(t) == \E o \in {"transient", "failed"} : Fails(t, o, observed[t])

(* _fetch_page up to the limiter.                                          *)
Attempt(t) ==
    /\ pc[t] = "attempt"
    /\ Active(t)
    /\ \/ (NotAdmitted(t) \/ UrlRefused(t)) /\ UNCHANGED limiterVars
       \/ Acquire(t, DomainOf[t]) /\ Goto(t, "rate") /\ UNCHANGED <<circuits, slots>>
    /\ UNCHANGED <<runVars, live, phase, hops>>

(* The limiter's own steps.                                                *)
LimiterMoves(t) ==
    /\ GetsCondition(t) \/ GetsLock(t)
    /\ UNCHANGED <<circuits, taskVars, runVars, browserVars>>

(* A budget is exhausted: the target raises, and gather cancels the rest.  *)
Exceeds(t) ==
    /\ run' = [run EXCEPT ![RunOf[t]] = "exhausted"]
    /\ UNCHANGED <<requests, issued, launches, taskVars>>

(* A basic fetch reserves each hop before it is sent.                      *)
BasicRequest(t) ==
    LET r == RunOf[t]
    IN  /\ t \notin Browsers
        /\ \/ /\ requests[r] < MaxRequests
              /\ requests' = [requests EXCEPT ![r] = @ + 1]
              /\ issued' = [issued EXCEPT ![r] = @ + 1]
              /\ Goto(t, "fetch")
              /\ UNCHANGED <<run, launches>>
           \/ requests[r] = MaxRequests /\ Exceeds(t)
        /\ UNCHANGED browserVars

(* BrowserSession.fetch: a fresh page.                                     *)
OpenPage(t) ==
    /\ t \in Browsers
    /\ live' = live \cup {t}
    /\ Goto(t, "fetch")
    /\ UNCHANGED <<runVars, slots, phase, hops>>

(* acquire returns, and a target that waited for it sends its request.     *)
LimiterReturns(t) ==
    /\ Paced(t) \/ Drops(t)
    /\ IF pc[t] = "rate" /\ at'[t] = "out" /\ Active(t)
       THEN BasicRequest(t) \/ OpenPage(t)
       ELSE UNCHANGED <<taskVars, runVars, browserVars>>
    /\ UNCHANGED circuits

(* A redirect of a basic fetch: the next hop is checked, and paced for the *)
(* host it leads to.                                                       *)
BasicHop(t) ==
    /\ pc[t] = "fetch"
    /\ t \notin Browsers
    /\ Active(t)
    /\ \/ (\E o \in {"transient", "failed"} : Fails(t, o, TRUE)) /\ UNCHANGED limiterVars
       \/ \E h \in Domains :
            /\ Acquire(t, h)
            /\ pc' = [pc EXCEPT ![t] = "rate"]
            /\ observed' = [observed EXCEPT ![t] = TRUE]
            /\ UNCHANGED <<circuits, slots, round, attempt, got, probe>>
    /\ UNCHANGED <<runVars, live, phase, hops>>

-----------------------------------------------------------------------------
(* The requests of a browser page (engine/browser_session.py).             *)
OnlyChains == UNCHANGED <<circuits, limiterVars, taskVars, launches, slots, live>>

(* Where chain c is now, and how long it is.                               *)
ChainGoes(c, step, n) ==
    /\ phase' = [phase EXCEPT ![c] = step]
    /\ hops' = [hops EXCEPT ![c] = n]

(* What the chains of S have reserved and not used.                        *)
Unused(S) ==
    {p \in S \X (1 .. MaxRedirects + 1) :
        phase[p[1]] \in Holding /\ p[2] > hops[p[1]]}

(* The browser asks for a resource.                                        *)
Route(c) ==
    /\ c[1] \in live
    /\ phase[c] = "idle"
    /\ ChainGoes(c, "guard", 0)
    /\ OnlyChains /\ UNCHANGED <<run, requests, issued>>

(* The handler aborts the request, or answers it from the asset cache.     *)
RouteRefused(c) ==
    /\ phase[c] \in {"guard", "late"}
    /\ ChainGoes(c, "idle", 0)
    /\ OnlyChains /\ UNCHANGED <<run, requests, issued>>

(* reserve: room for a whole redirect chain, or the budget is exhausted. A *)
(* late handler reserves for a page that has already settled its chains.   *)
Reserve(c) ==
    LET r == RunOf[c[1]]
    IN  /\ phase[c] \in {"guard", "late"}
        /\ \/ /\ run[r] \in {"running", "cancelled"}
              /\ requests[r] + MaxRedirects + 1 <= MaxRequests
              /\ requests' = [requests EXCEPT ![r] = @ + MaxRedirects + 1]
              /\ \/ /\ phase[c] = "guard"
                    /\ ChainGoes(c, "open", 1)
                    /\ issued' = [issued EXCEPT ![r] = @ + 1]
                 \/ /\ phase[c] = "late"
                    /\ ChainGoes(c, "lost", 0)
                    /\ UNCHANGED issued
              /\ UNCHANGED run
           \/ /\ run[r] = "running"
              /\ requests[r] + MaxRedirects + 1 > MaxRequests
              /\ run' = [run EXCEPT ![r] = "exhausted"]
              /\ ChainGoes(c, "idle", 0)
              /\ UNCHANGED <<requests, issued>>
        /\ OnlyChains

(* observe_request: the browser follows a redirect by itself.              *)
Redirected(c) ==
    /\ c[1] \in live
    /\ phase[c] = "open"
    /\ hops[c] <= MaxRedirects
    /\ ChainGoes(c, "open", hops[c] + 1)
    /\ issued' = [issued EXCEPT ![RunOf[c[1]]] = @ + 1]
    /\ OnlyChains /\ UNCHANGED <<run, requests>>

(* release_chain: the chain ends in a response, or in a failure.           *)
ChainEnds(c, answered) ==
    LET t == c[1]
    IN  /\ t \in live
        /\ phase[c] = "open"
        /\ ChainGoes(c, "releasing", hops[c])
        /\ observed' = [observed EXCEPT ![t] = @ \/ (answered /\ pc[t] = "fetch")]
        /\ UNCHANGED <<circuits, limiterVars, pc, round, attempt, got, probe, runVars, slots, live>>

(* Mutant: a chain gives back what it did not use when it ends and again   *)
(* when its page is closed.                                                *)
SettlesTwice(c) ==
    /\ phase[c] = "releasing"
    /\ requests' = [requests EXCEPT ![RunOf[c[1]]] = @ - Cardinality(Unused({c}))]
    /\ ChainGoes(c, "open", hops[c])
    /\ OnlyChains /\ UNCHANGED <<run, issued>>

(* settle_requests, in the future release_chain started.                   *)
ChainSettles(c) ==
    /\ phase[c] = "releasing"
    /\ requests' = [requests EXCEPT ![RunOf[c[1]]] = @ - Cardinality(Unused({c}))]
    /\ ChainGoes(c, "idle", 0)
    /\ OnlyChains /\ UNCHANGED <<run, issued>>

(* The page is closed: the chains still open are settled together, after   *)
(* the ones that ended.                                                    *)
PageSettles(t) ==
    LET open == {c \in ChainsOf(t) : phase[c] = "open"}
    IN  /\ \A c \in ChainsOf(t) : phase[c] # "releasing"
        /\ requests' = [requests EXCEPT ![RunOf[t]] = @ - Cardinality(Unused(open))]
        /\ phase' = [c \in Chains |-> CASE c \in open -> "idle"
                                       [] c \in ChainsOf(t) /\ phase[c] = "guard" -> "late"
                                       [] OTHER -> phase[c]]
        /\ hops' = [c \in Chains |-> IF c \in open THEN 0 ELSE hops[c]]

(* The browser could not be stopped, or the wait for the settling futures  *)
(* was cancelled, and the futures with it: nothing is given back.          *)
PageForfeits(t) ==
    /\ phase' = [c \in Chains |->
                    IF c[1] # t THEN phase[c]
                    ELSE CASE phase[c] \in {"open", "releasing"} -> "lost"
                           [] phase[c] = "guard" -> "late"
                           [] OTHER -> phase[c]]
    /\ UNCHANGED <<requests, hops>>

-----------------------------------------------------------------------------
(* paginate_target goes on to another page.                                *)
NextPage(t) ==
    /\ got[t] + 1 < MaxPages[t]
    /\ got' = [got EXCEPT ![t] = @ + 1]
    /\ observed' = [observed EXCEPT ![t] = TRUE]
    /\ attempt' = [attempt EXCEPT ![t] = 1]
    /\ pc' = [pc EXCEPT ![t] = "attempt"]
    /\ UNCHANGED <<circuits, slots, round, probe>>

PageDone(t) == NextPage(t) \/ Result(t, "ok")

(* A page, or the failure it was answered with.                            *)
FetchFails(t) ==
    \E o \in {"transient", "failed"}, answered \in {TRUE, observed[t]} : Fails(t, o, answered)
FetchReturns(t) == PageDone(t) \/ FetchFails(t)

(* The fetch is over; a browser has released its page by then.             *)
FetchEnds(t) ==
    /\ pc[t] = "fetch"
    /\ Active(t)
    /\ live' = live \ {t}
    /\ \/ PageSettles(t) /\ FetchReturns(t)
       \/ PageForfeits(t) /\ FetchFails(t)
    /\ UNCHANGED <<limiterVars, run, issued, launches>>

-----------------------------------------------------------------------------
(* Endings of a run: it is cancelled or loses ownership; its deadline      *)
(* passes, or its bytes or records reach their ceiling.                    *)
Cancel(r) ==
    /\ run[r] = "running"
    /\ run' = [run EXCEPT ![r] = "cancelled"]
    /\ UNCHANGED <<circuits, limiterVars, taskVars, requests, issued, launches,
                   browserVars>>

Exhausts(r) ==
    /\ run[r] = "running"
    /\ run' = [run EXCEPT ![r] = "exhausted"]
    /\ UNCHANGED <<circuits, limiterVars, taskVars, requests, issued, launches, browserVars>>

Deadline(r) == Exhausts(r)
Ceiling(r) == (\E t \in TargetsOf(r) : pc[t] = "fetch") /\ Exhausts(r)

(* The except clauses of _fetch_and_validate_target: cancellation aborts   *)
(* the probe.  An exhausted budget says that the host answered, if it did; *)
(* the targets that did not raise it are cancelled.                        *)
Unwound(t) ==
    LET d == DomainOf[t]
        aborted == AbortProbe(circuits, d, probe[t])
    IN  {aborted} \cup (IF run[RunOf[t]] = "exhausted" /\ observed[t]
                         THEN {RecordSuccess(circuits, d, probe[t])} ELSE {})

Leave(t) ==
    /\ IF pc[t] = "start" THEN UNCHANGED circuits ELSE circuits' \in Unwound(t)
    /\ slots' = slots \ {t}
    /\ Over(t)

(* Mutant: the target does not wait for its browser to stop.               *)
UnwindAtOnce(t) ==
    /\ run[RunOf[t]] \in {"cancelled", "exhausted"}
    /\ pc[t] \notin {"done", "closing"}
    /\ IF pc[t] = "rate" /\ at[t] # "out" THEN CancelAcquire(t) ELSE UNCHANGED limiterVars
    /\ Leave(t)
    /\ UNCHANGED <<runVars, live, phase, hops>>

(* CancelledError or BudgetExceeded reaches the task.  A pending acquire   *)
(* is cancelled and left to itself; a browser fetch is waited for.         *)
Unwind(t) ==
    /\ run[RunOf[t]] \in {"cancelled", "exhausted"}
    /\ pc[t] \notin {"done", "closing"}
    /\ IF pc[t] = "rate" /\ at[t] # "out" THEN CancelAcquire(t) ELSE UNCHANGED limiterVars
    /\ IF t \in live
       THEN Goto(t, "closing") /\ UNCHANGED <<circuits, slots>>
       ELSE Leave(t)
    /\ UNCHANGED <<runVars, live, phase, hops>>

(* The cancelled browser coroutine has released its page.                  *)
BrowserStops(t) ==
    /\ t \in live
    /\ pc[t] # "fetch"
    /\ live' = live \ {t}
    /\ PageSettles(t) \/ PageForfeits(t)
    /\ IF pc[t] = "closing" THEN Leave(t) ELSE UNCHANGED <<circuits, taskVars, slots>>
    /\ UNCHANGED <<limiterVars, run, issued, launches>>

-----------------------------------------------------------------------------
(* Time.                                                                   *)
CircuitTime(d) ==
    /\ CoolsDown(d) \/ PruneInactiveClosed(d)
    /\ UNCHANGED <<limiterVars, taskVars, runVars, browserVars>>

LimiterTime(d) ==
    /\ PruneStale(d)
    /\ UNCHANGED <<circuits, taskVars, runVars, browserVars>>

TaskStep(t) ==
    \/ Begin(t) \/ TakeSlot(t) \/ Attempt(t) \/ BasicHop(t) \/ FetchEnds(t) \/ BrowserStops(t)

ChainStep(c) ==
    \/ Route(c) \/ RouteRefused(c) \/ Reserve(c) \/ Redirected(c) \/ ChainSettles(c)
    \/ \E answered \in BOOLEAN : ChainEnds(c, answered)

LimiterStep(t) == LimiterMoves(t) \/ LimiterReturns(t)

Time(d) == CircuitTime(d) \/ LimiterTime(d)

Next ==
    \/ \E r \in Runs : Launch(r) \/ RunEnds(r) \/ Cancel(r) \/ Deadline(r) \/ Ceiling(r)
    \/ \E t \in Targets : TaskStep(t) \/ LimiterStep(t) \/ Unwind(t)
    \/ \E c \in Chains : ChainStep(c)
    \/ \E d \in Domains : Time(d)

Spec == Init /\ [][Next]_vars

-----------------------------------------------------------------------------
EngineTypeOK ==
    /\ circuits \in [Domains -> CircuitType]
    /\ LimiterTypeOK
    /\ run \in [Runs -> {"over", "running", "cancelled", "exhausted"}]
    /\ requests \in [Runs -> 0 .. MaxRequests]
    /\ issued \in [Runs -> 0 .. MaxRequests]
    /\ launches \in [Runs -> Nat] /\ \A r \in Runs : launches[r] <= MaxLaunches[r]
    /\ pc \in [Targets -> Steps]
    /\ round \in [Targets -> 1 .. 2]
    /\ attempt \in [Targets -> Nat] /\ got \in [Targets -> Nat]
    /\ \A t \in Targets : attempt[t] \in 1 .. MaxAttempts[RunOf[t]] /\ got[t] < MaxPages[t]
    /\ observed \in [Targets -> BOOLEAN]
    /\ probe \in [Targets -> Nat]
    /\ slots \subseteq Targets
    /\ live \subseteq Targets
    /\ phase \in [Chains -> Phases]
    /\ hops \in [Chains -> 0 .. MaxRedirects + 1]

(* A circuit is half open exactly while one unfinished target holds the    *)
(* probe of its current generation: no result of work admitted earlier     *)
(* decides for the probe, and no ending of the target strands the circuit. *)
ProbeIsHeld ==
    /\ \A d \in Domains : circuits[d].state = "half_open" =>
            \E t \in Targets : DomainOf[t] = d /\ probe[t] = circuits[d].generation
    /\ \A t \in Targets : probe[t] # 0 =>
            /\ ProbeMatches(circuits[DomainOf[t]], probe[t])
            /\ pc[t] # "done"
            /\ \A u \in Targets : probe[u] # 0 /\ DomainOf[u] = DomainOf[t] => u = t

EngineInv == EngineTypeOK /\ ProbeIsHeld

(* At most one caller paces a domain, through eviction and expiry of the   *)
(* domain's lock, saturation of the table and cancelled waits.             *)
OnePacerPerDomain ==
    \A t, u \in Targets :
        at[t] = "pace" /\ at[u] = "pace" /\ host[t] = host[u] => t = u

(* Every browser coroutine that still runs is covered by a permit its      *)
(* target holds, although a deadline or a cancellation ends the target     *)
(* first.                                                                  *)
PermitCoversBrowser == live \subseteq slots /\ Cardinality(slots) <= Slots

(* The budget covers every request that left for the network, redirects    *)
(* the browser followed by itself included, while any number of chains is  *)
(* open, ends, and settles in a future of its own or with the page.  What  *)
(* it holds back besides is the unused rest of the chains that are still   *)
(* to be settled or that nobody settles any more: no chain is settled      *)
(* twice.                                                                  *)
Held(r) == Unused({c \in Chains : RunOf[c[1]] = r})
BudgetCoversRequests ==
    \A r \in Runs : requests[r] = issued[r] + Cardinality(Held(r)) /\ requests[r] <= MaxRequests

(* The condition and the locks of the limiter never wait for each other:   *)
(* while somebody waits for one of them, a caller that holds a lock sleeps, *)
(* a lock is free for its next owner, or the condition is free.            *)
Moves(c) ==
    \/ at[c] = "pace"
    \/ at[c] \in {"queue", "queueC"} /\ ~ Locked(lockOf[c]) /\ FirstFor(c)
    \/ at[c] \in {"cond", "drop"} /\ ConditionFree
LimiterNeverDeadlocks ==
    (\E c \in Targets : at[c] \in {"cond", "queue", "queueC", "drop"})
        => \E c \in Targets : Moves(c)
=============================================================================
