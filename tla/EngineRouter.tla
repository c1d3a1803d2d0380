---------------------------- MODULE EngineRouter ----------------------------
(***************************************************************************)
(* One call of EngineRouter.route (packages/engine/src/router.ts) with the *)
(* deadline race of runWithTimeout (router_timeout.ts): every attempt runs *)
(* against a timer and, when the caller passed a signal, against its       *)
(* abort.  A provider that lost its race keeps running and may still       *)
(* answer later.  Each callback, timer and continuation is one step.       *)
(*                                                                         *)
(* The candidates are those RouterOrdering gives for the tenant's          *)
(* allow-list and the registry; an attempt is named by its place in them.  *)
(***************************************************************************)
EXTENDS RouterOrdering, ProviderAdapters

CONSTANTS HasCallerSignal, \* whether the caller passed an AbortSignal
          AdapterOf        \* [Networked -> Adapters] the adapter of each provider

ASSUME SignalAssumption == HasCallerSignal \in BOOLEAN
ASSUME AdapterAssumption == AdapterOf \in [Networked -> Adapters]

\* At most every registered provider is a candidate.
Place == 1..Cardinality(Registered(Networked))

VARIABLES
  wired,       \* the networked providers whose credential or endpoint is set
  allowed,     \* the tenant's allowedProviders
  candidates,  \* what orderCandidates makes of them when the call begins
  attempt,     \* the candidate whose attempt is awaited; 0 before the call
  outcome,     \* "none", "ok" or "failed"
  call,        \* [Place -> {"none", "running", "over"}] the provider's work
  settled,     \* [Place -> Settlement] how the attempt's promise settled
  signalled,   \* candidates whose controller is aborted
  timers,      \* candidates whose deadline timer is armed
  listening,   \* candidates listening to the caller's signal
  aborted      \* whether the caller has aborted

vars == <<wired, allowed, candidates, attempt, outcome, call, settled, signalled, timers,
          listening, aborted>>

Length == Len(candidates)
Candidate == 1..Length

\* The deterministic provider answers validly and without waiting.
Instant == {i \in Candidate : candidates[i] = Deterministic}

\* A value may turn out invalid when validateProviderResult sees it.
Answers == {"value", "invalid", "error"}
Settlement == {"no", "timeout", "cancelled"} \cup Answers

Init ==
  /\ wired \in SUBSET Networked
  /\ allowed \in AllowLists
  /\ candidates = OrderCandidates(allowed, wired)
  /\ attempt = 0
  /\ outcome = "none"
  /\ call = [i \in Place |-> "none"]
  /\ settled = [i \in Place |-> "no"]
  /\ signalled = {}
  /\ timers = {}
  /\ listening = {}
  /\ aborted = FALSE

-----------------------------------------------------------------------------
(* runWithTimeout *)

\* Mutants: a second settlement overwrites the first; the timer stays armed.
FinishAgain(i, how) ==
  /\ settled' = [settled EXCEPT ![i] = how]
  /\ timers' = timers \ {i}
  /\ listening' = listening \ {i}

FinishWithoutClearing(i, how) ==
  /\ settled' = IF settled[i] = "no" THEN [settled EXCEPT ![i] = how] ELSE settled
  /\ UNCHANGED timers
  /\ listening' = listening \ {i}

\* The first settlement wins and takes the timer and the listener with it; any
\* later one is ignored.
Finish(i, how) ==
  IF settled[i] = "no"
  THEN /\ settled' = [settled EXCEPT ![i] = how]
       /\ timers' = timers \ {i}
       /\ listening' = listening \ {i}
  ELSE UNCHANGED <<settled, timers, listening>>

\* Mutant: the provider is called even if the caller has already aborted.
LaunchAnyway(i) ==
  /\ call' = [call EXCEPT ![i] = "running"]
  /\ timers' = timers \cup {i}
  /\ listening' = IF HasCallerSignal THEN listening \cup {i} ELSE listening
  /\ UNCHANGED <<settled, signalled>>

\* An aborted caller gets a settled attempt and no call to the provider.
Launch(i) ==
  IF aborted
  THEN /\ settled' = [settled EXCEPT ![i] = "cancelled"]
       /\ signalled' = signalled \cup {i}
       /\ UNCHANGED <<call, timers, listening>>
  ELSE /\ call' = [call EXCEPT ![i] = "running"]
       /\ timers' = timers \cup {i}
       /\ listening' = IF HasCallerSignal THEN listening \cup {i} ELSE listening
       /\ UNCHANGED <<settled, signalled>>

ProviderEnds(i) ==
  /\ call[i] = "running"
  /\ call' = [call EXCEPT ![i] = "over"]
  /\ \/ i \in Instant /\ Finish(i, "value")
     \/ /\ i \notin Instant
        /\ \E reply \in Replies : Finish(i, Answer(AdapterOf[candidates[i]], reply))
  /\ UNCHANGED <<wired, allowed, candidates, attempt, outcome, signalled, aborted>>

\* Timers are tasks: none runs while a promise callback is ready.
InstantReady == \E i \in Instant : call[i] = "running"

TimerFires(i) ==
  /\ i \in timers
  /\ ~InstantReady
  /\ signalled' = signalled \cup {i}
  /\ Finish(i, "timeout")
  /\ UNCHANGED <<wired, allowed, candidates, attempt, outcome, call, aborted>>

\* Mutant: the attempt is rejected but the provider is not told.
CancelSilently(i) == Finish(i, "cancelled") /\ UNCHANGED signalled

\* onCallerAbort: the provider is told to stop and the attempt is rejected.
Cancel(i) == Finish(i, "cancelled") /\ signalled' = signalled \cup {i}

CallerAborts ==
  /\ HasCallerSignal
  /\ ~aborted
  /\ aborted' = TRUE
  /\ IF listening = {} THEN UNCHANGED <<settled, signalled, timers, listening>>
                       ELSE \E i \in listening : Cancel(i)
  /\ UNCHANGED <<wired, allowed, candidates, attempt, outcome, call>>

-----------------------------------------------------------------------------
(* route *)

Begin ==
  /\ attempt = 0
  /\ attempt' = 1
  /\ IF Length > 0 THEN Launch(1)
                   ELSE UNCHANGED <<call, settled, signalled, timers, listening>>
  /\ UNCHANGED <<wired, allowed, candidates, outcome, aborted>>

Awaited == attempt \in Candidate /\ outcome = "none"

\* The awaited attempt gave a valid result, which is stamped and returned.
ReturnResult ==
  /\ Awaited
  /\ settled[attempt] = "value"
  /\ outcome' = "ok"
  /\ UNCHANGED <<wired, allowed, candidates, attempt, call, settled, signalled, timers,
                 listening, aborted>>

\* Mutants: a candidate is skipped; a timed-out one is tried again.
AdvanceByTwo == attempt + 2
AdvanceUnlessTimeout == IF settled[attempt] = "timeout" THEN attempt ELSE attempt + 1

\* The loop goes on with the next candidate, whatever went wrong.
Advance == attempt + 1

TryNext ==
  /\ Awaited
  /\ settled[attempt] \notin {"no", "value"}
  /\ attempt' = Advance
  /\ IF Advance \in Candidate THEN Launch(Advance)
     ELSE UNCHANGED <<call, settled, signalled, timers, listening>>
  /\ UNCHANGED <<wired, allowed, candidates, outcome, aborted>>

\* No candidate at all, or all of them failed: a typed PROVIDER_ERROR.
GiveUp ==
  /\ attempt = Length + 1
  /\ outcome = "none"
  /\ outcome' = "failed"
  /\ UNCHANGED <<wired, allowed, candidates, attempt, call, settled, signalled, timers,
                 listening, aborted>>

Next ==
  \/ Begin \/ ReturnResult \/ TryNext \/ GiveUp \/ CallerAborts
  \/ \E i \in Place : ProviderEnds(i) \/ TimerFires(i)

Spec == Init /\ [][Next]_vars

\* The event loop runs ready continuations and due timers.  Nothing makes a
\* networked provider answer.
FairSpec ==
  /\ Spec
  /\ WF_vars(ReturnResult)
  /\ WF_vars(TryNext)
  /\ WF_vars(GiveUp)
  /\ \A i \in Place : WF_vars(TimerFires(i))
  /\ \A i \in Place : WF_vars(i \in Instant /\ ProviderEnds(i))

-----------------------------------------------------------------------------
(* The order of the candidates *)

\* Deny by default, no candidate twice, and one order: exactly the providers that
\* are both listed and registered are candidates (router_ordering.ts:42-54), the
\* cheaper before the dearer, and a list with the same members in whatever order
\* and repetition gives the same candidates ("so the order is fully
\* deterministic", router_ordering.ts:6).
CandidatesAreCanonical ==
  /\ ToSet(candidates) = ToSet(allowed) \cap Registered(wired)
  /\ Length = Cardinality(ToSet(candidates))
  /\ \A list \in AllowLists :
       ToSet(list) = ToSet(allowed) => OrderCandidates(list, wired) = candidates
  /\ \A i, j \in Candidate :
       i < j => CostPerCall[candidates[i]] <= CostPerCall[candidates[j]]

\* "a real provider is tried first when configured, with deterministic as the
\* always-present last resort" (provider-registry.ts:38).
DeterministicIsTheLastResort ==
  \A i \in Candidate : candidates[i] = Deterministic => i = Length

-----------------------------------------------------------------------------
(* The call *)

Abstract ==
  INSTANCE FallThrough WITH length <- IF attempt = 0 THEN 0 ELSE Length

\* Timers, aborts and late answers implement the plain fall-through.
ImplementsFallThrough == Abstract!Spec

\* A timer or an answer that comes after its attempt has settled changes nothing
\* about how it settled ("guard against a late timer/abort firing after the
\* attempt already settled", router_timeout.ts:66).
FirstSettlementWins ==
  [][\A i \in Place : settled[i] # "no" => settled'[i] = settled[i]]_vars

\* A settled attempt leaves neither an armed timer nor a listener on the caller's
\* signal, whichever of the racers won.
NothingIsLeftBehind ==
  \A i \in Place : settled[i] # "no" => i \notin timers \cup listening

\* A provider that still runs after the router gave up on it has been told to
\* stop ("so a cooperating provider can stop work", router_timeout.ts:54).
AbandonedCallsAreTold ==
  \A i \in Place : call[i] = "running" /\ settled[i] # "no" => i \in signalled

\* Once the caller has aborted no further provider is called ("in-flight and
\* pending attempts stop", router.ts:53).
NoCallAfterCallerAborts ==
  [][aborted => \A i \in Place : call[i] = "none" => call'[i] = "none"]_vars

\* A call that began ends, even if no networked provider ever answers.
RouteEnds == attempt # 0 ~> outcome # "none"
=============================================================================
