--------------------------- MODULE TryOnPipeline ---------------------------
(***************************************************************************)
(* The try-on request pipeline of apps/api (POST /v1/tryons): pipeline.ts  *)
(* and pipeline-execute.ts over the shared in-memory runtime of            *)
(* runtime.ts.  The server is one Node.js process, so everything between   *)
(* two awaits is one step.  A request runs all its gates, the cache lookup *)
(* and the start of its first provider call in the step that takes it up,  *)
(* then waits; every later provider attempt, the cache put, and the        *)
(* recording of audit event and job are steps of their own, interleaved    *)
(* with those of all other requests.                                       *)
(*                                                                         *)
(* Money is counted in cents.  Provider calls are the external system:     *)
(* each one that can fail may answer, throw, time out or return a result   *)
(* the router rejects, and the last three look the same from here.         *)
(***************************************************************************)
EXTENDS Naturals, Sequences, FiniteSets, Functions, SequencesExt

CONSTANTS
  Request,               \* the HTTP requests of one process lifetime
  Tenant, Shopper,
  IdemKey, NoKey,        \* idempotency keys, and the absence of one
  Content,               \* person image hash, product and params together
  Provider,
  Fallible,              \* the providers whose call may fail or time out
  Candidates,            \* [Tenant -> Seq(Provider)] what orderCandidates returns
  Cost, MaxCost,         \* [Provider -> Nat] costPerCallUsd, and a bound on it
  Budget,                \* [Tenant -> Nat] monthlyBudgetUsd
  EstimatedNextCall,     \* ESTIMATED_NEXT_CALL_USD
  PerShopperPerMinute, PerTenantPerMinute,
  MaxEntries,            \* capacity of the result cache
  KillScopes,            \* the kill switches an operator may flip in this run
  RequestSpace,          \* the requests a client may send in this run
  None

\* One HTTP request as it reaches POST: what the gates tell apart.  A credential
\* is "invalid" when the tenant is unknown or verifyApiKey refuses it.
Input ==
  [ credential : {"absent", "invalid", "valid"},
    tenant : Tenant, shopper : Shopper, key : IdemKey \cup {NoKey},
    content : Content, imagesOk : BOOLEAN ]

\* The cache key: tenant, person image, product and params (cache-key.ts).
CacheKey == Tenant \X Content

Result == [by : Request, provider : Provider, cost : Nat, cached : BOOLEAN]

Refusal == {"UNAUTHORIZED", "KILL_SWITCH_ENGAGED", "INVALID_INPUT",
            "RATE_LIMITED", "BUDGET_EXCEEDED"}

Verdict == Refusal \cup {"none", "rejected", "replayed", "succeeded", "PROVIDER_ERROR"}

Event ==
  [ request : Request, tenant : Tenant, outcome : {"allow", "deny", "error"},
    cost : Nat ]

ASSUME RequestsFinite == IsFiniteSet(Request)
ASSUME NoneIsNoValue == None \notin Request \cup Result \cup Input
ASSUME NoKeyIsNoKey == NoKey \notin IdemKey
ASSUME CandidatesAssumption == Candidates \in [Tenant -> Seq(Provider)]
ASSUME CostAssumption ==
  /\ MaxCost \in Nat
  /\ Cost \in [Provider -> Nat]
  /\ \A p \in Provider : Cost[p] <= MaxCost
ASSUME BudgetAssumption == Budget \in [Tenant -> Nat] /\ EstimatedNextCall \in Nat
ASSUME RequestSpaceAssumption == RequestSpace \subseteq Input
ASSUME KillScopesAssumption == KillScopes \subseteq Tenant \cup {"env"}

VARIABLES
  pc,        \* [Request -> {"idle", "routing", "routed", "done"}]
  req,       \* [Request -> Input \cup {None}] the parsed request
  attempt,   \* [Request -> Nat] the candidate being tried; 0 before the first
  result,    \* [Request -> Result \cup {None}] what the request will return
  verdict,   \* [Request -> Verdict] how it was answered
  reply,     \* [Request -> Request \cup {None}] the job it was answered with
  jobs,      \* runtime.jobs: the requests whose succeeded job is stored
  index,     \* runtime.jobsByIdempotencyKey
  cache,     \* runtime.resultCache, as its caller sees it
  taken,     \* runtime.rateLimiter, as its caller sees it
  audit,     \* runtime.auditSink, in append order
  spent,     \* [Tenant -> Nat] sumTenantSpendUsd of audit, kept incrementally
  killed,    \* the kill switches engaged: "env" and tenants
  before,    \* history: the jobs already stored when the request arrived
  peak       \* history: the most calls of the tenant ever in flight at once

vars == <<pc, req, attempt, result, verdict, reply, jobs, index, cache, taken,
          audit, spent, killed, before, peak>>

Limiter == INSTANCE SlotLimiter
ResultCache == INSTANCE BoundedCache
                 WITH Key <- CacheKey, Value <- Result, Absent <- None, live <- cache

TypeOK ==
  /\ pc \in [Request -> {"idle", "routing", "routed", "done"}]
  /\ req \in [Request -> Input \cup {None}]
  /\ attempt \in [Request -> Nat]
  /\ result \in [Request -> Result \cup {None}]
  /\ verdict \in [Request -> Verdict]
  /\ reply \in [Request -> Request \cup {None}]
  /\ jobs \subseteq Request
  /\ index \in [Tenant \X IdemKey -> Request \cup {None}]
  /\ ResultCache!TypeOK
  /\ Limiter!TypeOK
  /\ audit \in Seq(Event)
  /\ spent \in [Tenant -> Nat]
  /\ killed \subseteq Tenant \cup {"env"}
  /\ before \in [Request -> SUBSET Request]
  /\ peak \in [Tenant -> Nat]

Init ==
  /\ pc = [r \in Request |-> "idle"]
  /\ req = [r \in Request |-> None]
  /\ attempt = [r \in Request |-> 0]
  /\ result = [r \in Request |-> None]
  /\ verdict = [r \in Request |-> "none"]
  /\ reply = [r \in Request |-> None]
  /\ jobs = {}
  /\ index = [x \in Tenant \X IdemKey |-> None]
  /\ ResultCache!Init
  /\ Limiter!Init
  /\ audit = << >>
  /\ spent = [t \in Tenant |-> 0]
  /\ killed = {}
  /\ before = [r \in Request |-> {}]
  /\ peak = [t \in Tenant |-> 0]

-----------------------------------------------------------------------------
(* What a step reads *)

\* Mutant: an index keyed by the idempotency key alone.
PriorJobOfAnyTenant(q) ==
  LET found == {index[<<t, q.key>>] : t \in Tenant} \cap jobs
  IN  IF q.key # NoKey /\ found # {} THEN CHOOSE j \in found : TRUE ELSE None

\* The job an earlier request stored under the same tenant and key, or None;
\* an index entry whose job is gone counts as none.
PriorJob(q) ==
  IF q.key # NoKey /\ index[<<q.tenant, q.key>>] \in jobs
  THEN index[<<q.tenant, q.key>>] ELSE None

Killed(t) == "env" \in killed \/ t \in killed

\* sumTenantSpendUsd, read from the audit trail: the allow events of the tenant.
AllowEvents(t) == {i \in DOMAIN audit : audit[i].tenant = t /\ audit[i].outcome = "allow"}

SumTenantSpend(t) == SumFunctionOnSet([i \in DOMAIN audit |-> audit[i].cost], AllowEvents(t))

\* Mutant: the guard forgets the estimate of the call it admits.
WithinBudgetWithoutEstimate(t) == spent[t] <= Budget[t]

WithinBudget(t) == spent[t] + EstimatedNextCall <= Budget[t]

\* Mutant: a cache key that is not namespaced by tenant.
CacheKeyOfAnyTenant(q) == <<CHOOSE t \in Tenant : TRUE, q.content>>

\* deriveCacheKey: the tenant namespaces the hash of the content.
DeriveCacheKey(q) == <<q.tenant, q.content>>

\* Mutants: a hit is billed again; a hit leaves the cost undefined.
HitBilledAgain(v) == [v EXCEPT !.cached = TRUE]
HitWithoutCost(v) == [by |-> v.by, provider |-> v.provider, cost |-> None, cached |-> TRUE]

\* What a hit returns: the stored result, marked cached and free of charge.
AsHit(v) == [by |-> v.by, provider |-> v.provider, cost |-> 0, cached |-> TRUE]

CandidatesOf(r) == Candidates[req[r].tenant]

\* Mutants: the loop over the candidates ends one too early or one too late.
OutOfCandidatesEarly(r) == attempt[r] >= Len(CandidatesOf(r))
OutOfCandidatesLate(r) == attempt[r] > Len(CandidatesOf(r)) + 1

OutOfCandidates(r) == attempt[r] > Len(CandidatesOf(r))

\* Mutant: the job is stored but not indexed by its key.
IndexUnchanged(r) == index

\* The index once the job of r is stored: it replaces whatever entry is there.
IndexWithJobOf(r) ==
  IF req[r].key = NoKey THEN index
  ELSE [index EXCEPT ![<<req[r].tenant, req[r].key>>] = r]

\* Calls of a tenant in flight that will be billed if they succeed.
Paying(t) ==
  {r \in Request : /\ req[r] # None
                   /\ req[r].tenant = t
                   /\ \/ pc[r] = "routing"
                      \/ pc[r] = "routed" /\ ~result[r].cached}

-----------------------------------------------------------------------------
(* Taking up a request: POST and runTryOn up to the first await *)

Arrive(r, q) ==
  /\ pc[r] = "idle"
  /\ req' = [req EXCEPT ![r] = q]
  /\ before' = [before EXCEPT ![r] = jobs]
  /\ UNCHANGED <<jobs, index, cache, spent, killed>>

Answer(r, v, job) ==
  /\ pc' = [pc EXCEPT ![r] = "done"]
  /\ verdict' = [verdict EXCEPT ![r] = v]
  /\ reply' = [reply EXCEPT ![r] = job]

AppendEvent(r, t, outcome, cost) ==
  audit' = Append(audit, [request |-> r, tenant |-> t, outcome |-> outcome, cost |-> cost])

\* A missing bearer token or an unparseable body: refused by the route handler,
\* before the pipeline and without an audit event.
RejectRequest(r, q) ==
  /\ Arrive(r, q)
  /\ q.credential = "absent"
  /\ Answer(r, "rejected", None)
  /\ UNCHANGED <<attempt, result, audit, taken, peak>>

\* Mutant: a refusal that throws before it appends its event.
DenySilently(r, q, code) ==
  /\ Answer(r, code, None)
  /\ UNCHANGED <<attempt, result, audit, peak>>

\* The closure deny of runTryOn: one audit event, then the typed error.
Deny(r, q, code) ==
  /\ Answer(r, code, None)
  /\ AppendEvent(r, q.tenant, "deny", 0)
  /\ UNCHANGED <<attempt, result, peak>>

DenyUnauthorized(r, q) ==
  /\ Arrive(r, q)
  /\ q.credential = "invalid"
  /\ Deny(r, q, "UNAUTHORIZED")
  /\ UNCHANGED taken

\* The replay returns the stored job verbatim, ahead of every other gate and
\* without an audit event.
ReplayJob(r, q) ==
  /\ Arrive(r, q)
  /\ q.credential = "valid"
  /\ PriorJob(q) # None
  /\ Answer(r, "replayed", PriorJob(q))
  /\ UNCHANGED <<attempt, result, audit, taken, peak>>

Fresh(q) == q.credential = "valid" /\ PriorJob(q) = None

DenyKillSwitch(r, q) ==
  /\ Arrive(r, q)
  /\ Fresh(q)
  /\ Killed(q.tenant)
  /\ Deny(r, q, "KILL_SWITCH_ENGAGED")
  /\ UNCHANGED taken

DenyImage(r, q) ==
  /\ Arrive(r, q)
  /\ Fresh(q)
  /\ ~Killed(q.tenant)
  /\ ~q.imagesOk
  /\ Deny(r, q, "INVALID_INPUT")
  /\ UNCHANGED taken

\* Mutant: the kill switch is not consulted on the way to the provider.
ValidWhenKilled(q) == Fresh(q) /\ q.imagesOk

Valid(q) == Fresh(q) /\ ~Killed(q.tenant) /\ q.imagesOk

DenyRateLimit(r, q) ==
  /\ Arrive(r, q)
  /\ Valid(q)
  /\ Limiter!Full(q.tenant, q.shopper)
  /\ Deny(r, q, "RATE_LIMITED")
  /\ UNCHANGED taken

\* The rate limiter has already taken its slots when the budget refuses.
DenyBudget(r, q) ==
  /\ Arrive(r, q)
  /\ Valid(q)
  /\ Limiter!Admit(q.tenant, q.shopper)
  /\ ~WithinBudget(q.tenant)
  /\ Deny(r, q, "BUDGET_EXCEEDED")

Admitted(r, q) ==
  /\ Arrive(r, q)
  /\ Valid(q)
  /\ Limiter!Admit(q.tenant, q.shopper)
  /\ WithinBudget(q.tenant)

ServeFromCache(r, q) ==
  /\ Admitted(r, q)
  /\ cache[DeriveCacheKey(q)] # None
  /\ result' = [result EXCEPT ![r] = AsHit(cache[DeriveCacheKey(q)])]
  /\ pc' = [pc EXCEPT ![r] = "routed"]
  /\ UNCHANGED <<attempt, verdict, reply, audit, peak>>

\* A miss: the router starts on the first candidate, if there is one.
StartRouting(r, q) ==
  /\ Admitted(r, q)
  /\ cache[DeriveCacheKey(q)] = None
  /\ pc' = [pc EXCEPT ![r] = "routing"]
  /\ attempt' = [attempt EXCEPT ![r] = 1]
  /\ LET inFlight == Cardinality(Paying(q.tenant)) + 1
     IN  peak' = [peak EXCEPT ![q.tenant] = IF inFlight > @ THEN inFlight ELSE @]
  /\ UNCHANGED <<result, verdict, reply, audit>>

TakeUp(r, q) ==
  \/ RejectRequest(r, q)
  \/ DenyUnauthorized(r, q)
  \/ ReplayJob(r, q)
  \/ DenyKillSwitch(r, q)
  \/ DenyImage(r, q)
  \/ DenyRateLimit(r, q)
  \/ DenyBudget(r, q)
  \/ ServeFromCache(r, q)
  \/ StartRouting(r, q)

-----------------------------------------------------------------------------
(* After the first await: the router's attempts, then executeAndRecord *)

\* The candidate answers in time with a valid result: getOrCompute stores it.
ProviderAnswers(r) ==
  /\ pc[r] = "routing"
  /\ attempt[r] <= Len(CandidatesOf(r))
  /\ LET p == CandidatesOf(r)[attempt[r]]
         computed == [by |-> r, provider |-> p, cost |-> Cost[p], cached |-> FALSE]
     IN  /\ result' = [result EXCEPT ![r] = computed]
         /\ ResultCache!Put(DeriveCacheKey(req[r]), computed)
  /\ pc' = [pc EXCEPT ![r] = "routed"]
  /\ UNCHANGED <<req, attempt, verdict, reply, jobs, index, taken, audit, spent,
                 killed, before, peak>>

\* It throws, times out or returns an invalid result: on to the next candidate.
AttemptFails(r) ==
  /\ pc[r] = "routing"
  /\ attempt[r] <= Len(CandidatesOf(r))
  /\ CandidatesOf(r)[attempt[r]] \in Fallible
  /\ attempt' = [attempt EXCEPT ![r] = @ + 1]
  /\ UNCHANGED <<pc, req, result, verdict, reply, jobs, index, cache, taken, audit,
                 spent, killed, before, peak>>

\* No candidate is left: an error event and PROVIDER_ERROR; no job is stored.
RouteFails(r) ==
  /\ pc[r] = "routing"
  /\ OutOfCandidates(r)
  /\ Answer(r, "PROVIDER_ERROR", None)
  /\ AppendEvent(r, req[r].tenant, "error", 0)
  /\ UNCHANGED <<req, attempt, result, jobs, index, cache, taken, spent, killed,
                 before, peak>>

\* The allow event with the real cost, the job, and its idempotency entry.
Record(r) ==
  /\ pc[r] = "routed"
  /\ Answer(r, "succeeded", r)
  /\ AppendEvent(r, req[r].tenant, "allow", result[r].cost)
  /\ spent' = [spent EXCEPT ![req[r].tenant] = @ + result[r].cost]
  /\ jobs' = jobs \cup {r}
  /\ index' = IndexWithJobOf(r)
  /\ UNCHANGED <<req, attempt, result, cache, taken, killed, before, peak>>

Settle(r) == ProviderAnswers(r) \/ AttemptFails(r) \/ RouteFails(r) \/ Record(r)

-----------------------------------------------------------------------------
(* The environment: the operator and the passing minute *)

FlipKillSwitch(s) ==
  /\ killed' = IF s \in killed THEN killed \ {s} ELSE killed \cup {s}
  /\ UNCHANGED <<pc, req, attempt, result, verdict, reply, jobs, index, cache, taken,
                 audit, spent, before, peak>>

SlotComesFree(t, s) ==
  /\ Limiter!FreeOne(t, s)
  /\ UNCHANGED <<pc, req, attempt, result, verdict, reply, jobs, index, cache, audit,
                 spent, killed, before, peak>>

Next ==
  \/ \E r \in Request : Settle(r) \/ \E q \in RequestSpace : TakeUp(r, q)
  \/ \E s \in KillScopes : FlipKillSwitch(s)
  \/ \E t \in Tenant, s \in Shopper : SlotComesFree(t, s)

Spec == Init /\ [][Next]_vars

\* Node runs every ready continuation, and runWithTimeout settles every attempt
\* by its deadline, so a request that waits is never left waiting.
FairSpec == Spec /\ \A r \in Request : WF_vars(Settle(r))
-----------------------------------------------------------------------------
(* Properties *)

\* The trail says exactly what happened: a request that passed the bearer check
\* and was not a replay has one event once it is answered, of the kind of its
\* verdict; before that, and for every other request, it has none.  The code
\* appends from three places (deny, the catch, the tail of executeAndRecord).
EventsOf(r) == {i \in DOMAIN audit : audit[i].request = r}

EventKind(v) ==
  CASE v \in Refusal -> "deny"
    [] v = "PROVIDER_ERROR" -> "error"
    [] v = "succeeded" -> "allow"
    [] OTHER -> "no event"

VerdictsAreAudited ==
  \A r \in Request :
    IF EventKind(verdict[r]) = "no event"
    THEN EventsOf(r) = {}
    ELSE \E i \in DOMAIN audit :
           /\ EventsOf(r) = {i}
           /\ audit[i].outcome = EventKind(verdict[r])
           /\ audit[i].tenant = req[r].tenant

\* The budget guard's sum and the money actually charged agree: what the tenant
\* has spent is the cost of the results computed for its stored jobs, each
\* charged once however many later requests the cache or a replay served with it.
ComputedJobs(t) == {r \in jobs : req[r].tenant = t /\ result[r].by = r}

BilledFor(t) == SumFunctionOnSet([r \in jobs |-> Cost[result[r].provider]], ComputedJobs(t))

EachComputationIsBilledOnce ==
  \A t \in Tenant : spent[t] = SumTenantSpend(t) /\ spent[t] = BilledFor(t)

\* A result, computed or cached, was computed for the same tenant and content by
\* a provider on that tenant's list: the cache never crosses tenants or photos.
ResultMatchesRequest ==
  \A r \in Request : result[r] # None =>
    LET origin == req[result[r].by]
    IN  /\ origin # None
        /\ origin.tenant = req[r].tenant
        /\ origin.content = req[r].content
        /\ result[r].provider \in Range(Candidates[req[r].tenant])

\* A replay answers with a job of the same tenant and key that was already
\* stored when the request arrived.
ReplayMatchesRequest ==
  \A r \in Request : verdict[r] = "replayed" =>
    /\ reply[r] \in before[r]
    /\ req[reply[r]].tenant = req[r].tenant
    /\ req[reply[r]].key = req[r].key

\* Idempotency as far as it goes: a retry that arrives after a job of its tenant
\* and key was stored neither calls a provider nor stores a job of its own.
SameKey(q, r) ==
  /\ req[q].tenant = req[r].tenant
  /\ req[q].key = req[r].key
  /\ req[r].key # NoKey

LateRetryIsFree ==
  \A r \in Request : \A q \in before[r] :
    SameKey(q, r) => attempt[r] = 0 /\ r \notin jobs

\* The budget guard reads the spend of finished calls only, so concurrent calls
\* can overshoot; the overshoot is bounded by the most calls ever in flight.
\* With one call at a time and no call dearer than the estimate, none happens.
BudgetOvershootBound ==
  \A t \in Tenant : spent[t] > 0 =>
    spent[t] + EstimatedNextCall <= Budget[t] + MaxCost * peak[t]

\* A tenant whose list holds a provider that cannot fail (the deterministic
\* fallback) never sees PROVIDER_ERROR, whatever the others do.
FallbackAlwaysAnswers ==
  \A r \in Request : verdict[r] = "PROVIDER_ERROR" =>
    Range(CandidatesOf(r)) \subseteq Fallible

\* Each request that misses the cache sees the router as FallThrough describes it
\* and EngineRouter implements it: every candidate once, in order, until one
\* answers, and no result afterwards.
RouteLength(r) == IF attempt[r] = 0 THEN 0 ELSE Len(CandidatesOf(r))

RouteOutcome(r) ==
  IF attempt[r] = 0 \/ pc[r] = "routing" THEN "none"
  ELSE IF verdict[r] = "PROVIDER_ERROR" THEN "failed" ELSE "ok"

Route(r) ==
  INSTANCE FallThrough WITH
    length <- RouteLength(r), attempt <- attempt[r], outcome <- RouteOutcome(r)

RouteStep(r) ==
  Route(r)!Next \/ UNCHANGED <<RouteLength(r), attempt[r], RouteOutcome(r)>>

RoutesFallThrough == [][\A r \in Request : RouteStep(r)]_vars

\* While a tenant's kill switch is engaged no request of it starts routing.
Routing(t) == {r \in Request : pc[r] = "routing" /\ req[r].tenant = t}

KillSwitchAdmitsNone ==
  [][\A t \in Tenant : Killed(t) => Routing(t)' \subseteq Routing(t)]_vars

\* Every request that waits for a provider is answered in the end.
EveryRequestSettles ==
  \A r \in Request : pc[r] \in {"routing", "routed"} ~> pc[r] = "done"

-----------------------------------------------------------------------------
(* A claim of the documentation that the code does not keep *)

\* "A request carrying an idempotencyKey that matches a prior (tenant, key) job
\* returns THAT job - no second provider call, no double-charge" (pipeline.ts:16):
\* of the stored jobs with one key, one at most was computed and charged for.
Charged(r) == ~result[r].cached /\ result[r].cost > 0

KeyIsChargedOnce ==
  \A q, r \in jobs : SameKey(q, r) /\ Charged(q) /\ Charged(r) => q = r
=============================================================================
