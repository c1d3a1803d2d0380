------------------------ MODULE TryOnPipelineProofs ------------------------
(***************************************************************************)
(* Theorems about TryOnPipeline, for any number of requests, tenants,      *)
(* providers and budgets.                                                  *)
(***************************************************************************)
EXTENDS TryOnPipeline, FoldLemmas, FiniteSetTheorems, TLAPS

\* A request that has been taken up has been parsed, one that has not is blank,
\* and one that is routed carries its result.
Staged ==
  \A r \in Request :
    /\ pc[r] = "idle" <=> req[r] = None
    /\ pc[r] = "idle" => attempt[r] = 0 /\ result[r] = None /\ before[r] = {}
    /\ pc[r] = "routed" => result[r] # None
    /\ pc[r] # "done" => verdict[r] = "none"

\* A request that is being routed is on some candidate.
Tried == \A r \in Request : pc[r] = "routing" => attempt[r] # 0

TypeInv == TypeOK /\ Staged /\ Tried

LEMMA PayingFinite ==
  ASSUME NEW t
  PROVE  IsFiniteSet(Paying(t)) /\ Cardinality(Paying(t)) \in Nat
<1>1. Paying(t) \in SUBSET Request
  BY DEF Paying
<1>2. IsFiniteSet(Paying(t))
  BY <1>1, RequestsFinite, FS_Subset
<1> QED
  BY <1>2, FS_CardinalityType

LEMMA TypeInit == Init => TypeInv
<1> SUFFICES ASSUME Init PROVE TypeInv
  OBVIOUS
<1> USE NoneIsNoValue DEF Init, ResultCache!Init, Limiter!Init
<1>1. TypeOK
  BY DEF TypeOK, ResultCache!TypeOK, Limiter!TypeOK, CacheKey, Verdict
<1>2. Staged
  BY DEF Staged
<1>3. Tried
  BY DEF Tried
<1> QED
  BY <1>1, <1>2, <1>3 DEF TypeInv

\* Reading the cache, the index and the spend under the type invariant.
LEMMA ReadTypes ==
  ASSUME TypeOK, NEW q \in Input
  PROVE  /\ DeriveCacheKey(q) \in CacheKey
         /\ cache[DeriveCacheKey(q)] # None =>
              /\ cache[DeriveCacheKey(q)] \in Result
              /\ AsHit(cache[DeriveCacheKey(q)]) \in Result
         /\ PriorJob(q) \in jobs \cup {None}
<1> USE DEF TypeOK, DeriveCacheKey, CacheKey, Input
<1>1. DeriveCacheKey(q) \in CacheKey
  OBVIOUS
<1>2. cache[DeriveCacheKey(q)] \in Result \cup {None}
  BY <1>1 DEF ResultCache!TypeOK
<1>3. cache[DeriveCacheKey(q)] # None => AsHit(cache[DeriveCacheKey(q)]) \in Result
  BY <1>2 DEF AsHit, Result
<1>4. PriorJob(q) \in jobs \cup {None}
  BY DEF PriorJob
<1> QED
  BY <1>1, <1>2, <1>3, <1>4

LEMMA AdmitType ==
  ASSUME Limiter!TypeOK, NEW t \in Tenant, NEW s \in Shopper, Limiter!Admit(t, s)
  PROVE  Limiter!TypeOK'
BY DEF Limiter!TypeOK, Limiter!Admit

LEMMA PutType ==
  ASSUME ResultCache!TypeOK, NEW k, NEW v \in Result, ResultCache!Put(k, v)
  PROVE  ResultCache!TypeOK'
BY DEF ResultCache!TypeOK, ResultCache!Put, ResultCache!PutWithRoom,
       ResultCache!PutEvicting

LEMMA AppendType ==
  ASSUME TypeOK, NEW r \in Request, NEW t \in Tenant, NEW o \in {"allow", "deny", "error"},
         NEW c \in Nat, AppendEvent(r, t, o, c)
  PROVE  audit' \in Seq(Event)
<1>1. [request |-> r, tenant |-> t, outcome |-> o, cost |-> c] \in Event
  BY DEF Event
<1> QED
  BY <1>1 DEF TypeOK, AppendEvent

LEMMA TakeUpType ==
  ASSUME TypeInv, NEW r \in Request, NEW q \in RequestSpace, TakeUp(r, q)
  PROVE  TypeInv'
<1> USE DEF TypeInv
<1>q. q \in Input
  BY RequestSpaceAssumption
<1>f. q.tenant \in Tenant /\ q.shopper \in Shopper /\ q # None
  BY <1>q, NoneIsNoValue DEF Input
<1>a. Arrive(r, q)
  BY DEF TakeUp, RejectRequest, DenyUnauthorized, ReplayJob, DenyKillSwitch, DenyImage,
         DenyRateLimit, DenyBudget, Admitted, ServeFromCache, StartRouting
<1>b. /\ req' \in [Request -> Input \cup {None}]
      /\ before' \in [Request -> SUBSET Request]
      /\ jobs' \subseteq Request
      /\ index' \in [Tenant \X IdemKey -> Request \cup {None}]
      /\ ResultCache!TypeOK'
      /\ spent' \in [Tenant -> Nat]
      /\ killed' \subseteq Tenant \cup {"env"}
  BY <1>a, <1>q DEF Arrive, TypeOK, ResultCache!TypeOK
<1>1. CASE RejectRequest(r, q)
  BY <1>1, <1>a, <1>b, <1>f DEF RejectRequest, Answer, Arrive, TypeOK, Staged, Tried, Verdict,
     Limiter!TypeOK
<1>d. ASSUME NEW code \in Refusal, Deny(r, q, code), Limiter!TypeOK'
      PROVE  TypeInv'
  <2>1. audit' \in Seq(Event)
    BY <1>d, <1>f, AppendType DEF Deny
  <2>2. TypeOK'
    BY <1>d, <1>b, <2>1 DEF Deny, Answer, TypeOK, Verdict
  <2>3. Staged' /\ Tried'
    BY <1>d, <1>a, <1>f DEF Deny, Answer, Arrive, TypeOK, Staged, Tried
  <2> QED
    BY <2>2, <2>3
<1>u. UNCHANGED taken => Limiter!TypeOK'
  BY DEF TypeOK, Limiter!TypeOK
<1>2. CASE DenyUnauthorized(r, q)
  BY <1>2, <1>d, <1>u DEF DenyUnauthorized, Refusal
<1>3. CASE ReplayJob(r, q)
  <2>1. PriorJob(q) \in Request
    BY <1>3, <1>q, ReadTypes DEF ReplayJob, TypeOK
  <2> QED
    BY <1>3, <2>1, <1>a, <1>b, <1>f, <1>u DEF ReplayJob, Answer, Arrive, TypeOK, Staged, Tried,
       Verdict
<1>4. CASE DenyKillSwitch(r, q)
  BY <1>4, <1>d, <1>u DEF DenyKillSwitch, Refusal
<1>5. CASE DenyImage(r, q)
  BY <1>5, <1>d, <1>u DEF DenyImage, Refusal
<1>6. CASE DenyRateLimit(r, q)
  BY <1>6, <1>d, <1>u DEF DenyRateLimit, Refusal
<1>7. CASE DenyBudget(r, q)
  BY <1>7, <1>d, <1>f, AdmitType DEF DenyBudget, Refusal, TypeOK
<1>8. CASE ServeFromCache(r, q)
  <2>1. AsHit(cache[DeriveCacheKey(q)]) \in Result
    BY <1>8, <1>q, ReadTypes DEF ServeFromCache
  <2>2. Limiter!TypeOK'
    BY <1>8, <1>f, AdmitType DEF ServeFromCache, Admitted, TypeOK
  <2>3. AsHit(cache[DeriveCacheKey(q)]) # None
    BY <2>1, NoneIsNoValue
  <2>4. TypeOK'
    BY <1>8, <1>b, <2>1, <2>2 DEF ServeFromCache, TypeOK
  <2>5. Staged' /\ Tried'
    BY <1>8, <1>a, <1>f, <2>3 DEF ServeFromCache, Arrive, TypeOK, Staged, Tried
  <2> QED
    BY <2>4, <2>5
<1>9. CASE StartRouting(r, q)
  <2>1. Limiter!TypeOK'
    BY <1>9, <1>f, AdmitType DEF StartRouting, Admitted, TypeOK
  <2>2. peak' \in [Tenant -> Nat]
    <3>1. Cardinality(Paying(q.tenant)) + 1 \in Nat
      BY PayingFinite
    <3> QED
      BY <1>9, <1>f, <3>1 DEF StartRouting, TypeOK
  <2>3. TypeOK'
    BY <1>9, <1>b, <2>1, <2>2 DEF StartRouting, TypeOK
  <2>4. Staged' /\ Tried'
    BY <1>9, <1>a, <1>f DEF StartRouting, Arrive, TypeOK, Staged, Tried
  <2> QED
    BY <2>3, <2>4
<1> QED
  BY <1>1, <1>2, <1>3, <1>4, <1>5, <1>6, <1>7, <1>8, <1>9 DEF TakeUp

LEMMA SettleType ==
  ASSUME TypeInv, NEW r \in Request, Settle(r)
  PROVE  TypeInv'
<1> USE DEF TypeInv
<1>a. pc[r] \in {"routing", "routed"}
  BY DEF Settle, ProviderAnswers, AttemptFails, RouteFails, Record
<1>b. req[r] \in Input /\ req[r].tenant \in Tenant
  BY <1>a DEF Staged, TypeOK, Input
<1>1. CASE ProviderAnswers(r)
  <2> DEFINE p == CandidatesOf(r)[attempt[r]]
             computed == [by |-> r, provider |-> p, cost |-> Cost[p], cached |-> FALSE]
  <2>1. computed \in Result
    <3>1. CandidatesOf(r) \in Seq(Provider) /\ attempt[r] \in Nat
      BY <1>b, CandidatesAssumption DEF CandidatesOf, TypeOK
    <3>2. attempt[r] # 0
      BY <1>1 DEF ProviderAnswers, Tried
    <3>3. p \in Provider
      BY <3>1, <3>2, <1>1 DEF ProviderAnswers
    <3> QED
      BY <3>3, CostAssumption DEF Result
  <2>2. /\ result' = [result EXCEPT ![r] = computed]
        /\ pc' = [pc EXCEPT ![r] = "routed"]
        /\ ResultCache!Put(DeriveCacheKey(req[r]), computed)
        /\ UNCHANGED <<req, attempt, verdict, reply, jobs, index, taken, audit, spent,
                       killed, before, peak>>
    BY <1>1 DEF ProviderAnswers
  <2> HIDE DEF computed
  <2>3. ResultCache!TypeOK'
    BY <2>1, <2>2, PutType DEF TypeOK
  <2>4. TypeOK'
    BY <2>1, <2>2, <2>3 DEF TypeOK, Limiter!TypeOK
  <2>5. Staged' /\ Tried'
    BY <2>1, <2>2, <1>a, NoneIsNoValue DEF Staged, Tried, TypeOK
  <2> QED
    BY <2>4, <2>5
<1>2. CASE AttemptFails(r)
  BY <1>2 DEF AttemptFails, TypeOK, Staged, Tried, Limiter!TypeOK, ResultCache!TypeOK
<1>3. CASE RouteFails(r)
  <2>1. audit' \in Seq(Event)
    BY <1>3, <1>b, AppendType DEF RouteFails
  <2>2. TypeOK'
    BY <1>3, <2>1 DEF RouteFails, Answer, TypeOK, Verdict, Limiter!TypeOK,
       ResultCache!TypeOK
  <2>3. Staged' /\ Tried'
    BY <1>3 DEF RouteFails, Answer, Staged, Tried, TypeOK
  <2> QED
    BY <2>2, <2>3
<1>4. CASE Record(r)
  <2>0. result[r] \in Result /\ result[r].cost \in Nat
    BY <1>4 DEF Record, Staged, TypeOK, Result
  <2>1. audit' \in Seq(Event)
    BY <1>4, <1>b, <2>0, AppendType DEF Record
  <2>2. index' \in [Tenant \X IdemKey -> Request \cup {None}]
    BY <1>4, <1>b DEF Record, IndexWithJobOf, TypeOK
  <2>3. spent' \in [Tenant -> Nat]
    BY <1>4, <1>b, <2>0 DEF Record, TypeOK
  <2>4. TypeOK'
    BY <1>4, <2>1, <2>2, <2>3 DEF Record, Answer, TypeOK, Verdict, Limiter!TypeOK,
       ResultCache!TypeOK
  <2>5. Staged' /\ Tried'
    BY <1>4 DEF Record, Answer, Staged, Tried, TypeOK
  <2> QED
    BY <2>4, <2>5
<1> QED
  BY <1>1, <1>2, <1>3, <1>4 DEF Settle

LEMMA EnvironmentType ==
  ASSUME TypeInv,
         \/ \E s \in KillScopes : FlipKillSwitch(s)
         \/ \E t \in Tenant, s \in Shopper : SlotComesFree(t, s)
         \/ UNCHANGED vars
  PROVE  TypeInv'
<1> USE DEF TypeInv
<1>1. ASSUME NEW s \in KillScopes, FlipKillSwitch(s)
      PROVE  TypeInv'
  BY <1>1, KillScopesAssumption DEF FlipKillSwitch, TypeOK, Staged, Tried,
     Limiter!TypeOK, ResultCache!TypeOK
<1>2. ASSUME NEW t \in Tenant, NEW s \in Shopper, SlotComesFree(t, s)
      PROVE  TypeInv'
  <2>1. Limiter!TypeOK'
    BY <1>2 DEF SlotComesFree, Limiter!FreeOne, Limiter!TypeOK, TypeOK
  <2> QED
    BY <1>2, <2>1 DEF SlotComesFree, TypeOK, Staged, Tried, ResultCache!TypeOK
<1>3. CASE UNCHANGED vars
  BY <1>3 DEF vars, TypeOK, Staged, Tried, Limiter!TypeOK, ResultCache!TypeOK
<1> QED
  BY <1>1, <1>2, <1>3

LEMMA TypeStep == TypeInv /\ [Next]_vars => TypeInv'
BY TakeUpType, SettleType, EnvironmentType DEF Next

LEMMA TypeInvariant == Spec => []TypeInv
BY TypeInit, TypeStep, PTL DEF Spec

\* Every variable keeps its type in every reachable state.
THEOREM TypeCorrect == Spec => []TypeOK
<1>1. TypeInv => TypeOK
  BY DEF TypeInv
<1> QED
  BY <1>1, TypeInvariant, PTL

-----------------------------------------------------------------------------
(* How a request is taken up: answered on the spot, served from the cache,  *)
(* or sent to its first provider.                                           *)

AnsweredAtOnce(r, q) ==
  /\ pc' = [pc EXCEPT ![r] = "done"]
  /\ UNCHANGED <<attempt, result, peak>>
  /\ verdict'[r] = "replayed" => PriorJob(q) # None /\ reply'[r] = PriorJob(q)
  /\ verdict'[r] # "PROVIDER_ERROR"

LEMMA TakeUpCases ==
  ASSUME TypeInv, NEW r \in Request, NEW q \in RequestSpace, TakeUp(r, q)
  PROVE  /\ Arrive(r, q)
         /\ AnsweredAtOnce(r, q) \/ ServeFromCache(r, q) \/ StartRouting(r, q)
         /\ \A s \in Request \ {r} : verdict'[s] = verdict[s] /\ reply'[s] = reply[s]
         /\ PriorJob(q) # None => AnsweredAtOnce(r, q)
         /\ q.credential = "valid" \/ AnsweredAtOnce(r, q)
<1> USE DEF AnsweredAtOnce
<1>t. TypeOK
  BY DEF TypeInv
<1>d. ASSUME NEW code \in Refusal, Arrive(r, q), Deny(r, q, code)
      PROVE  /\ AnsweredAtOnce(r, q)
             /\ \A s \in Request \ {r} : verdict'[s] = verdict[s] /\ reply'[s] = reply[s]
  BY <1>d, <1>t DEF Deny, Answer, TypeOK, Refusal
<1>1. CASE RejectRequest(r, q)
  BY <1>1, <1>t DEF RejectRequest, Answer, TypeOK
<1>2. CASE DenyUnauthorized(r, q)
  BY <1>2, <1>d DEF DenyUnauthorized, Refusal
<1>3. CASE ReplayJob(r, q)
  BY <1>3, <1>t DEF ReplayJob, Answer, TypeOK
<1>4. CASE DenyKillSwitch(r, q)
  BY <1>4, <1>d DEF DenyKillSwitch, Refusal
<1>5. CASE DenyImage(r, q)
  BY <1>5, <1>d DEF DenyImage, Refusal
<1>6. CASE DenyRateLimit(r, q)
  BY <1>6, <1>d DEF DenyRateLimit, Refusal
<1>7. CASE DenyBudget(r, q)
  BY <1>7, <1>d DEF DenyBudget, Refusal
<1>8. CASE ServeFromCache(r, q)
  BY <1>8 DEF ServeFromCache, Admitted, Valid, Fresh
<1>9. CASE StartRouting(r, q)
  BY <1>9 DEF StartRouting, Admitted, Valid, Fresh
<1> QED
  BY <1>1, <1>2, <1>3, <1>4, <1>5, <1>6, <1>7, <1>8, <1>9 DEF TakeUp

-----------------------------------------------------------------------------
(* The idempotency index *)

\* What the index knows: every entry is a stored job of its tenant and key, and
\* every stored job with a key has an entry that is a stored job.
IndexInv ==
  /\ \A r \in jobs : pc[r] = "done" /\ req[r] # None
  /\ \A t \in Tenant, k \in IdemKey : index[<<t, k>>] # None =>
       /\ index[<<t, k>>] \in jobs
       /\ req[index[<<t, k>>]].tenant = t
       /\ req[index[<<t, k>>]].key = k
  /\ \A r \in jobs : req[r].key # NoKey =>
       index[<<req[r].tenant, req[r].key>>] # None

\* What a request saw stored when it arrived is still stored, and if a job of
\* its own key was among it, the request is already answered.
BeforeInv ==
  \A r \in Request :
    /\ before[r] \subseteq jobs
    /\ \A q \in before[r] : SameKey(q, r) =>
         pc[r] = "done" /\ attempt[r] = 0 /\ r \notin jobs

ReplayInv == IndexInv /\ BeforeInv /\ ReplayMatchesRequest

LEMMA ReplayInit == Init => ReplayInv
BY DEF Init, ReplayInv, IndexInv, BeforeInv, ReplayMatchesRequest

\* The prior job of a request is a stored job of its tenant and key, and there is
\* one whenever any stored job has them.
LEMMA PriorJobFound ==
  ASSUME TypeInv, IndexInv, NEW q \in Input
  PROVE  /\ PriorJob(q) # None =>
              /\ PriorJob(q) \in jobs
              /\ req[PriorJob(q)].tenant = q.tenant
              /\ req[PriorJob(q)].key = q.key
              /\ q.key # NoKey
         /\ \A j \in jobs :
              req[j].tenant = q.tenant /\ req[j].key = q.key /\ q.key # NoKey
              => PriorJob(q) # None
<1>1. q.tenant \in Tenant /\ (q.key # NoKey => q.key \in IdemKey)
  BY DEF Input
<1>2. None \notin jobs
  BY NoneIsNoValue DEF TypeInv, TypeOK
<1> QED
  BY <1>1, <1>2 DEF PriorJob, IndexInv

LEMMA ReplayTakeUp ==
  ASSUME TypeInv, ReplayInv, NEW r \in Request, NEW q \in RequestSpace, TakeUp(r, q)
  PROVE  ReplayInv'
<1> USE DEF ReplayInv
<1>q. q \in Input /\ q # None
  BY RequestSpaceAssumption, NoneIsNoValue
<1>a. /\ pc[r] = "idle" /\ req[r] = None /\ attempt[r] = 0
      /\ req' = [req EXCEPT ![r] = q]
      /\ before' = [before EXCEPT ![r] = jobs]
      /\ UNCHANGED <<jobs, index>>
  BY TakeUpCases DEF Arrive, TypeInv, Staged
<1>b. r \notin jobs
  BY <1>a DEF IndexInv
<1>t. /\ pc \in [Request -> {"idle", "routing", "routed", "done"}]
      /\ req \in [Request -> Input \cup {None}]
      /\ attempt \in [Request -> Nat]
      /\ before \in [Request -> SUBSET Request]
      /\ verdict \in [Request -> Verdict]
      /\ reply \in [Request -> Request \cup {None}]
      /\ jobs \subseteq Request
  BY DEF TypeInv, TypeOK
<1>c. /\ \A s \in Request \ {r} : pc'[s] = pc[s] /\ attempt'[s] = attempt[s]
                                   /\ req'[s] = req[s] /\ before'[s] = before[s]
                                   /\ verdict'[s] = verdict[s] /\ reply'[s] = reply[s]
      /\ req'[r] = q /\ before'[r] = jobs
  BY <1>a, <1>t, TakeUpCases DEF AnsweredAtOnce, ServeFromCache, StartRouting
<1>1. IndexInv'
  BY <1>a, <1>b, <1>c, <1>t DEF IndexInv
<1>2. BeforeInv'
  <2> SUFFICES ASSUME NEW s \in Request
               PROVE  /\ before'[s] \subseteq jobs'
                      /\ \A j \in before'[s] : SameKey(j, s)' =>
                           pc'[s] = "done" /\ attempt'[s] = 0 /\ s \notin jobs'
    BY DEF BeforeInv
  <2>1. CASE s # r
    <3>1. \A j \in before[s] : j # r
      BY <1>b, <2>1 DEF BeforeInv
    <3> QED
      BY <2>1, <3>1, <1>a, <1>c, <1>t DEF BeforeInv, SameKey
  <2>2. CASE s = r
    <3>1. ASSUME NEW j \in jobs, SameKey(j, r)'
          PROVE  pc'[r] = "done" /\ attempt'[r] = 0
      <4>1. /\ req[j].tenant = q.tenant /\ req[j].key = q.key /\ q.key # NoKey
        BY <3>1, <1>b, <1>c, <1>t DEF SameKey
      <4>2. AnsweredAtOnce(r, q)
        BY <4>1, <1>q, PriorJobFound, TakeUpCases
      <4> QED
        BY <4>2, <1>a, <1>t DEF AnsweredAtOnce
    <3> QED
      BY <2>2, <3>1, <1>a, <1>b, <1>c
  <2> QED
    BY <2>1, <2>2
<1>3. ReplayMatchesRequest'
  <2> SUFFICES ASSUME NEW s \in Request, verdict'[s] = "replayed"
               PROVE  /\ reply'[s] \in before'[s]
                      /\ req'[reply'[s]].tenant = req'[s].tenant
                      /\ req'[reply'[s]].key = req'[s].key
    BY DEF ReplayMatchesRequest
  <2>1. CASE s # r
    <3>1. reply[s] \in jobs
      BY <2>1, <1>c DEF ReplayMatchesRequest, BeforeInv
    <3> QED
      BY <2>1, <3>1, <1>b, <1>c, <1>t DEF ReplayMatchesRequest
  <2>2. CASE s = r
    <3>1. AnsweredAtOnce(r, q)
      BY <2>2, <1>a, TakeUpCases DEF ServeFromCache, StartRouting, TypeInv, Staged
    <3> QED
      BY <2>2, <3>1, <1>b, <1>c, <1>q, <1>t, PriorJobFound DEF AnsweredAtOnce
  <2> QED
    BY <2>1, <2>2
<1> QED
  BY <1>1, <1>2, <1>3

LEMMA ReplaySettle ==
  ASSUME TypeInv, ReplayInv, NEW r \in Request, Settle(r)
  PROVE  ReplayInv'
<1> USE DEF ReplayInv
<1>t. /\ pc \in [Request -> {"idle", "routing", "routed", "done"}]
      /\ req \in [Request -> Input \cup {None}]
      /\ attempt \in [Request -> Nat]
      /\ before \in [Request -> SUBSET Request]
      /\ verdict \in [Request -> Verdict]
      /\ reply \in [Request -> Request \cup {None}]
      /\ jobs \subseteq Request
      /\ index \in [Tenant \X IdemKey -> Request \cup {None}]
  BY DEF TypeInv, TypeOK
<1>a. /\ pc[r] \in {"routing", "routed"} /\ req[r] \in Input /\ req[r] # None
      /\ UNCHANGED <<req, before>>
      /\ \A s \in Request \ {r} : /\ pc'[s] = pc[s] /\ attempt'[s] = attempt[s]
                                   /\ verdict'[s] = verdict[s] /\ reply'[s] = reply[s]
  BY <1>t DEF Settle, ProviderAnswers, AttemptFails, RouteFails, Record, Answer, TypeInv,
     Staged
<1>b. r \notin jobs
  BY <1>a DEF IndexInv
<1>r. verdict'[r] # "replayed"
  BY <1>a, <1>t DEF Settle, ProviderAnswers, AttemptFails, RouteFails, Record, Answer,
     TypeInv, Staged
<1>j. ReplayMatchesRequest'
  BY <1>a, <1>r DEF ReplayMatchesRequest
<1>1. CASE Record(r)
  <2>1. jobs' = jobs \cup {r} /\ pc' = [pc EXCEPT ![r] = "done"]
    BY <1>1 DEF Record, Answer
  <2>2. req[r].tenant \in Tenant /\ (req[r].key # NoKey => req[r].key \in IdemKey)
    BY <1>a DEF Input
  <2>3. /\ req[r].key = NoKey => index' = index
        /\ req[r].key # NoKey =>
             index' = [index EXCEPT ![<<req[r].tenant, req[r].key>>] = r]
    BY <1>1 DEF Record, IndexWithJobOf
  <2>4. r # None
    BY NoneIsNoValue
  <2>5. IndexInv'
    <3>1. \A s \in jobs' : pc'[s] = "done" /\ req'[s] # None
      BY <1>a, <1>t, <2>1 DEF IndexInv
    <3>2. ASSUME NEW t \in Tenant, NEW k \in IdemKey, index'[<<t, k>>] # None
          PROVE  /\ index'[<<t, k>>] \in jobs'
                 /\ req'[index'[<<t, k>>]].tenant = t
                 /\ req'[index'[<<t, k>>]].key = k
      <4>1. CASE req[r].key # NoKey /\ t = req[r].tenant /\ k = req[r].key
        BY <4>1, <1>a, <1>t, <2>1, <2>3
      <4>2. CASE ~(req[r].key # NoKey /\ t = req[r].tenant /\ k = req[r].key)
        <5>1. index'[<<t, k>>] = index[<<t, k>>]
          BY <4>2, <1>t, <2>2, <2>3
        <5> QED
          BY <5>1, <3>2, <1>a, <2>1 DEF IndexInv
      <4> QED
        BY <4>1, <4>2
    <3>3. ASSUME NEW s \in jobs', req'[s].key # NoKey
          PROVE  index'[<<req'[s].tenant, req'[s].key>>] # None
      <4> DEFINE x == <<req[s].tenant, req[s].key>>
      <4>1. x \in Tenant \X IdemKey
        BY <3>3, <1>a, <1>t, <2>1, <2>2 DEF IndexInv, Input
      <4>2. CASE s = r
        BY <4>1, <4>2, <3>3, <1>a, <1>t, <2>3, <2>4
      <4>3. CASE s # r
        BY <4>1, <4>3, <3>3, <1>a, <1>t, <2>1, <2>3, <2>4, ZenonT(40) DEF IndexInv
      <4> QED
        BY <4>2, <4>3
    <3> QED
      BY <3>1, <3>2, <3>3 DEF IndexInv
  <2>6. BeforeInv'
    BY <1>a, <1>b, <1>t, <2>1 DEF BeforeInv, SameKey
  <2> QED
    BY <1>j, <2>5, <2>6
<1>2. CASE ~Record(r)
  <2>1. UNCHANGED <<jobs, index>>
    BY <1>2 DEF Settle, ProviderAnswers, AttemptFails, RouteFails
  <2>2. IndexInv'
    <3>1. \A s \in jobs : s \in Request \ {r}
      BY <1>b, <1>t
    <3> QED
      BY <1>a, <2>1, <3>1 DEF IndexInv
  <2>3. BeforeInv'
    BY <1>a, <2>1 DEF BeforeInv, SameKey
  <2> QED
    BY <1>j, <2>2, <2>3
<1> QED
  BY <1>1, <1>2

LEMMA ReplayStep == TypeInv /\ ReplayInv /\ [Next]_vars => ReplayInv'
<1> SUFFICES ASSUME TypeInv, ReplayInv, [Next]_vars
             PROVE  ReplayInv'
  OBVIOUS
<1>1. CASE \E r \in Request : Settle(r) \/ \E q \in RequestSpace : TakeUp(r, q)
  BY <1>1, ReplayTakeUp, ReplaySettle
<1>2. CASE \/ \E s \in KillScopes : FlipKillSwitch(s)
           \/ \E t \in Tenant, s \in Shopper : SlotComesFree(t, s)
           \/ UNCHANGED vars
  BY <1>2 DEF FlipKillSwitch, SlotComesFree, vars, ReplayInv, IndexInv, BeforeInv,
     ReplayMatchesRequest, SameKey
<1> QED
  BY <1>1, <1>2 DEF Next

LEMMA ReplayInvariant == Spec => []ReplayInv
BY ReplayInit, ReplayStep, TypeInvariant, PTL DEF Spec

\* A replay answers with a job of the caller's own tenant and key, one that was
\* already stored when the request arrived.
THEOREM ReplaysMatch == Spec => []ReplayMatchesRequest
<1>1. ReplayInv => ReplayMatchesRequest
  BY DEF ReplayInv
<1> QED
  BY <1>1, ReplayInvariant, PTL

\* A retry that arrives after a job of its tenant and key was stored neither
\* calls a provider nor stores a second job.
THEOREM LateRetriesAreFree == Spec => []LateRetryIsFree
<1>1. ReplayInv => LateRetryIsFree
  BY DEF ReplayInv, BeforeInv, LateRetryIsFree
<1> QED
  BY <1>1, ReplayInvariant, PTL

-----------------------------------------------------------------------------
(* The budget: every call in flight is counted at the highest cost.         *)

Costed ==
  \A r \in Request : result[r] # None =>
    /\ result[r].cost <= MaxCost
    /\ result[r].cached => result[r].cost = 0

\* What is spent, plus what the calls in flight may still add, stays within the
\* budget and one call of the highest cost for each call of the peak.
Covered(t) ==
  spent[t] > 0 \/ Paying(t) # {} =>
    spent[t] + MaxCost * Cardinality(Paying(t)) + EstimatedNextCall
      <= Budget[t] + MaxCost * peak[t]

BudgetInv == Costed /\ \A t \in Tenant : Covered(t)

LEMMA BudgetInit == Init => BudgetInv
<1> SUFFICES ASSUME Init PROVE BudgetInv
  OBVIOUS
<1>1. \A t \in Tenant : Paying(t) = {} /\ ~(spent[t] > 0)
  BY DEF Init, Paying
<1>2. Costed
  BY DEF Init, Costed
<1> QED
  BY <1>1, <1>2 DEF BudgetInv, Covered

\* The products with MaxCost that the steps below need.
LEMMA Products ==
  ASSUME NEW m \in Nat, NEW n \in Nat
  PROVE  /\ MaxCost * m \in Nat
         /\ MaxCost * (m + 1) = MaxCost * m + MaxCost
         /\ m <= n => MaxCost * m <= MaxCost * n
<1>1. MaxCost \in Nat
  BY CostAssumption
<1>2. MaxCost * m \in Nat /\ MaxCost * (m + 1) = MaxCost * m + MaxCost
  BY <1>1
<1>3. ASSUME m <= n PROVE MaxCost * m <= MaxCost * n
  <2>1. PICK d \in Nat : n = m + d
    BY <1>3
  <2>2. MaxCost * n = MaxCost * m + MaxCost * d /\ MaxCost * d \in Nat
    BY <1>1, <2>1
  <2> QED
    BY <1>2, <2>2
<1> QED
  BY <1>2, <1>3

\* A step that leaves the paying calls and the money of a tenant alone.
LEMMA CoveredKept ==
  ASSUME NEW t \in Tenant, Covered(t), Paying(t)' = Paying(t),
         spent'[t] = spent[t], peak'[t] = peak[t]
  PROVE  Covered(t)'
BY DEF Covered

LEMMA BudgetTakeUp ==
  ASSUME TypeInv, BudgetInv, NEW r \in Request, NEW q \in RequestSpace, TakeUp(r, q)
  PROVE  BudgetInv'
<1> USE DEF BudgetInv
<1>q. q \in Input /\ q.tenant \in Tenant /\ q # None
  BY RequestSpaceAssumption, NoneIsNoValue DEF Input
<1>a. /\ pc[r] = "idle" /\ req[r] = None /\ result[r] = None
      /\ req' = [req EXCEPT ![r] = q]
      /\ UNCHANGED spent
  BY TakeUpCases DEF Arrive, TypeInv, Staged
<1>t. /\ pc \in [Request -> {"idle", "routing", "routed", "done"}]
      /\ req \in [Request -> Input \cup {None}]
      /\ result \in [Request -> Result \cup {None}]
      /\ spent \in [Tenant -> Nat]
      /\ peak \in [Tenant -> Nat]
  BY DEF TypeInv, TypeOK
<1>m. MaxCost \in Nat /\ 0 <= MaxCost
  BY CostAssumption
<1>1. CASE AnsweredAtOnce(r, q)
  <2>1. Costed'
    BY <1>1 DEF AnsweredAtOnce, Costed
  <2>2. ASSUME NEW t \in Tenant PROVE Paying(t)' = Paying(t)
    BY <1>1, <1>a, <1>t DEF AnsweredAtOnce, Paying
  <2> QED
    BY <1>1, <1>a, <2>1, <2>2, CoveredKept DEF AnsweredAtOnce
<1>2. CASE ServeFromCache(r, q)
  <2> DEFINE hit == AsHit(cache[DeriveCacheKey(q)])
  <2>1. result' = [result EXCEPT ![r] = hit] /\ pc' = [pc EXCEPT ![r] = "routed"]
        /\ UNCHANGED peak
    BY <1>2 DEF ServeFromCache
  <2>2. hit.cached /\ hit.cost = 0
    BY DEF AsHit
  <2> HIDE DEF hit
  <2>3. Costed'
    BY <1>m, <1>t, <2>1, <2>2 DEF Costed
  <2>4. ASSUME NEW t \in Tenant PROVE Paying(t)' = Paying(t)
    BY <1>a, <1>t, <2>1, <2>2 DEF Paying
  <2> QED
    BY <1>a, <2>1, <2>3, <2>4, CoveredKept
<1>3. CASE StartRouting(r, q)
  <2>1. /\ pc' = [pc EXCEPT ![r] = "routing"]
        /\ UNCHANGED result
        /\ spent[q.tenant] + EstimatedNextCall <= Budget[q.tenant]
    BY <1>3 DEF StartRouting, Admitted, WithinBudget
  <2>2. Costed'
    BY <2>1 DEF Costed
  <2>3. ASSUME NEW t \in Tenant \ {q.tenant} PROVE Covered(t)'
    <3>1. Paying(t)' = Paying(t)
      BY <1>a, <1>t, <2>1 DEF Paying
    <3>2. peak'[t] = peak[t]
      BY <1>3, <1>t DEF StartRouting
    <3> QED
      BY <1>a, <3>1, <3>2, CoveredKept
  <2>4. Covered(q.tenant)'
    <3> DEFINE t == q.tenant
               n == Cardinality(Paying(t))
    <3>1. Paying(t)' = Paying(t) \cup {r} /\ r \notin Paying(t)
      BY <1>a, <1>q, <1>t, <2>1 DEF Paying
    <3>2. n \in Nat /\ Cardinality(Paying(t)') = n + 1
      BY <3>1, PayingFinite, FS_AddElement
    <3>3. peak'[t] \in Nat /\ n + 1 <= peak'[t]
      BY <1>3, <1>q, <1>t, <3>2 DEF StartRouting
    <3>4. MaxCost * (n + 1) <= MaxCost * peak'[t]
      BY <3>2, <3>3, Products
    <3>5. /\ spent'[t] = spent[t] /\ spent[t] \in Nat
          /\ Budget[t] \in Nat /\ EstimatedNextCall \in Nat
          /\ MaxCost * (n + 1) \in Nat /\ MaxCost * peak'[t] \in Nat
      BY <1>a, <1>q, <1>t, <3>2, <3>3, BudgetAssumption, Products
    <3>6. spent'[t] + MaxCost * (n + 1) + EstimatedNextCall
            <= Budget[t] + MaxCost * peak'[t]
      <4> DEFINE a == MaxCost * (n + 1)
                 b == MaxCost * peak'[t]
      <4>1. a \in Nat /\ b \in Nat /\ a <= b
        BY <3>4, <3>5
      <4> HIDE DEF a, b
      <4>2. spent'[t] + a + EstimatedNextCall <= Budget[t] + b
        BY <2>1, <3>5, <4>1
      <4> QED
        BY <4>2 DEF a, b
    <3> QED
      BY <3>2, <3>6 DEF Covered
  <2> QED
    BY <2>2, <2>3, <2>4
<1> QED
  BY <1>1, <1>2, <1>3, TakeUpCases

LEMMA BudgetSettle ==
  ASSUME TypeInv, BudgetInv, NEW r \in Request, Settle(r)
  PROVE  BudgetInv'
<1> USE DEF BudgetInv
<1>t. /\ pc \in [Request -> {"idle", "routing", "routed", "done"}]
      /\ req \in [Request -> Input \cup {None}]
      /\ attempt \in [Request -> Nat]
      /\ result \in [Request -> Result \cup {None}]
      /\ spent \in [Tenant -> Nat]
      /\ peak \in [Tenant -> Nat]
  BY DEF TypeInv, TypeOK
<1>a. /\ pc[r] \in {"routing", "routed"} /\ req[r] \in Input /\ req[r] # None
      /\ req[r].tenant \in Tenant
      /\ UNCHANGED <<req, peak>>
  BY <1>t DEF Settle, ProviderAnswers, AttemptFails, RouteFails, Record, TypeInv, Staged,
     Input
<1>1. CASE ProviderAnswers(r)
  <2> DEFINE p == CandidatesOf(r)[attempt[r]]
             computed == [by |-> r, provider |-> p, cost |-> Cost[p], cached |-> FALSE]
  <2>1. /\ result' = [result EXCEPT ![r] = computed]
        /\ pc[r] = "routing"
        /\ pc' = [pc EXCEPT ![r] = "routed"]
        /\ UNCHANGED spent
    BY <1>1 DEF ProviderAnswers
  <2>2. computed.cost <= MaxCost /\ ~computed.cached
    <3>1. CandidatesOf(r) \in Seq(Provider)
      BY <1>a, CandidatesAssumption DEF CandidatesOf
    <3>2. attempt[r] \in 1..Len(CandidatesOf(r))
      BY <1>1, <1>t, <3>1 DEF ProviderAnswers, TypeInv, Tried
    <3>3. p \in Provider
      BY <3>1, <3>2
    <3> QED
      BY <3>3, CostAssumption
  <2> HIDE DEF computed
  <2>3. Costed'
    BY <1>t, <2>1, <2>2 DEF Costed
  <2>4. ASSUME NEW t \in Tenant PROVE Paying(t)' = Paying(t)
    BY <1>a, <1>t, <2>1, <2>2 DEF Paying
  <2> QED
    BY <1>a, <2>1, <2>3, <2>4, CoveredKept
<1>2. CASE AttemptFails(r)
  <2>1. UNCHANGED <<pc, result, spent>>
    BY <1>2 DEF AttemptFails
  <2>2. Costed'
    BY <2>1 DEF Costed
  <2>3. ASSUME NEW t \in Tenant PROVE Paying(t)' = Paying(t)
    BY <1>a, <2>1 DEF Paying
  <2> QED
    BY <1>a, <2>1, <2>2, <2>3, CoveredKept
<1>3. ASSUME RouteFails(r) \/ Record(r)
      PROVE  BudgetInv'
  <2>0. PICK t \in Tenant : t = req[r].tenant
    BY <1>a
  <2>1. UNCHANGED result /\ pc' = [pc EXCEPT ![r] = "done"]
    BY <1>3 DEF RouteFails, Record, Answer
  <2>2. Costed'
    BY <2>1 DEF Costed
  <2>3. ASSUME NEW u \in Tenant \ {t} PROVE Covered(u)'
    <3>1. Paying(u)' = Paying(u)
      BY <2>0, <1>a, <1>t, <2>1 DEF Paying
    <3>2. spent'[u] = spent[u]
      BY <2>0, <1>3, <1>t DEF RouteFails, Record
    <3> QED
      BY <2>0, <1>a, <3>1, <3>2, CoveredKept
  <2>4. CASE RouteFails(r) \/ (Record(r) /\ ~result[r].cached)
    <3> DEFINE n == Cardinality(Paying(t)')
    <3>1. r \in Paying(t) /\ Paying(t)' = Paying(t) \ {r}
      BY <2>0, <1>a, <1>t, <2>1, <2>4 DEF Paying, RouteFails, Record
    <3>2. Cardinality(Paying(t)) \in Nat /\ n = Cardinality(Paying(t)) - 1 /\ n \in Nat
      <4>1. IsFiniteSet(Paying(t)) /\ Cardinality(Paying(t)) \in Nat
        BY PayingFinite
      <4>2. /\ IsFiniteSet(Paying(t) \ {r})
            /\ Cardinality(Paying(t) \ {r}) = Cardinality(Paying(t)) - 1
        BY <3>1, <4>1, FS_RemoveElement
      <4>3. Cardinality(Paying(t) \ {r}) \in Nat
        BY <4>2, FS_CardinalityType
      <4> QED
        BY <3>1, <4>1, <4>2, <4>3
    <3>3. /\ spent[t] \in Nat /\ peak[t] \in Nat /\ Budget[t] \in Nat
          /\ EstimatedNextCall \in Nat /\ MaxCost \in Nat
      BY <2>0, <1>a, <1>t, BudgetAssumption, CostAssumption
    <3>4. /\ spent'[t] \in Nat
          /\ spent'[t] <= spent[t] + MaxCost
      <4>1. CASE RouteFails(r)
        BY <4>1, <3>3 DEF RouteFails
      <4>2. CASE Record(r)
        <5>1. result[r] # None /\ result[r].cost \in Nat
          BY <4>2, <1>t DEF Record, TypeInv, Staged, Result
        <5>2. result[r].cost <= MaxCost
          BY <5>1 DEF Costed
        <5>3. spent'[t] = spent[t] + result[r].cost
          BY <4>2, <2>0, <1>a, <1>t DEF Record
        <5> QED
          BY <3>3, <5>1, <5>2, <5>3
      <4> QED
        BY <4>1, <4>2, <2>4
    <3>5. spent[t] + MaxCost * (n + 1) + EstimatedNextCall <= Budget[t] + MaxCost * peak[t]
      <4>1. n + 1 = Cardinality(Paying(t))
        BY <3>2
      <4> QED
        BY <4>1, <3>1, <1>a DEF Covered
    <3>6. spent'[t] + MaxCost * n + EstimatedNextCall <= Budget[t] + MaxCost * peak'[t]
      <4> DEFINE a == MaxCost * n
                 b == MaxCost * peak[t]
      <4>1. a \in Nat /\ b \in Nat /\ MaxCost * (n + 1) = a + MaxCost
        BY <3>2, <3>3, Products
      <4>2. spent[t] + (a + MaxCost) + EstimatedNextCall <= Budget[t] + b
        BY <3>5, <4>1
      <4> HIDE DEF a, b
      <4>3. spent'[t] + a + EstimatedNextCall <= Budget[t] + b
        BY <3>3, <3>4, <4>1, <4>2
      <4> QED
        BY <4>3, <1>a DEF a, b
    <3> QED
      BY <2>2, <2>3, <3>6 DEF Covered
  <2>5. CASE Record(r) /\ result[r].cached
    <3>1. Paying(t)' = Paying(t)
      BY <2>0, <1>a, <1>t, <2>1, <2>5 DEF Paying, Record
    <3>2. result[r] # None
      BY <2>5 DEF Record, TypeInv, Staged
    <3>3. spent'[t] = spent[t]
      BY <2>5, <2>0, <3>2, <1>a, <1>t DEF Record, Costed
    <3>4. Covered(t)'
      BY <2>0, <1>a, <3>1, <3>3, CoveredKept
    <3> QED
      BY <2>2, <2>3, <3>4
  <2> QED
    BY <1>3, <2>4, <2>5
<1> QED
  BY <1>1, <1>2, <1>3 DEF Settle

LEMMA BudgetStep == TypeInv /\ BudgetInv /\ [Next]_vars => BudgetInv'
<1> SUFFICES ASSUME TypeInv, BudgetInv, [Next]_vars
             PROVE  BudgetInv'
  OBVIOUS
<1>1. CASE \E r \in Request : Settle(r) \/ \E q \in RequestSpace : TakeUp(r, q)
  BY <1>1, BudgetTakeUp, BudgetSettle
<1>2. CASE \/ \E s \in KillScopes : FlipKillSwitch(s)
           \/ \E t \in Tenant, s \in Shopper : SlotComesFree(t, s)
           \/ UNCHANGED vars
  BY <1>2 DEF FlipKillSwitch, SlotComesFree, vars, BudgetInv, Costed, Covered, Paying
<1> QED
  BY <1>1, <1>2 DEF Next

\* The spend of a tenant exceeds its budget, less the estimate, by at most one
\* call of the highest cost for each call that was ever in flight at once.
THEOREM BudgetOvershootIsBounded == Spec => []BudgetOvershootBound
<1>1. TypeInv /\ BudgetInv => BudgetOvershootBound
  <2> SUFFICES ASSUME TypeInv, BudgetInv, NEW t \in Tenant, spent[t] > 0
               PROVE  spent[t] + EstimatedNextCall <= Budget[t] + MaxCost * peak[t]
    BY DEF BudgetOvershootBound
  <2> DEFINE a == MaxCost * Cardinality(Paying(t))
             b == MaxCost * peak[t]
  <2>1. spent[t] + a + EstimatedNextCall <= Budget[t] + b
    BY DEF BudgetInv, Covered
  <2>2. a \in Nat /\ b \in Nat
    BY PayingFinite, Products DEF TypeInv, TypeOK
  <2>3. spent[t] \in Nat /\ EstimatedNextCall \in Nat /\ Budget[t] \in Nat
    BY BudgetAssumption DEF TypeInv, TypeOK
  <2> HIDE DEF a, b
  <2>4. spent[t] + EstimatedNextCall <= Budget[t] + b
    BY <2>1, <2>2, <2>3
  <2> QED
    BY <2>4 DEF b
<1>2. Spec => []BudgetInv
  BY BudgetInit, BudgetStep, TypeInvariant, PTL DEF Spec
<1> QED
  BY <1>1, <1>2, TypeInvariant, PTL

-----------------------------------------------------------------------------
(* Isolation: what the cache holds under a key was computed for that key.   *)

Matches(v, t, c) ==
  /\ req[v.by] # None
  /\ req[v.by].tenant = t
  /\ req[v.by].content = c
  /\ v.provider \in Range(Candidates[t])

IsolationInv ==
  /\ \A t \in Tenant, c \in Content :
       cache[<<t, c>>] # None => Matches(cache[<<t, c>>], t, c)
  /\ \A r \in Request :
       result[r] # None => Matches(result[r], req[r].tenant, req[r].content)

LEMMA IsolationInit == Init => IsolationInv
BY DEF Init, IsolationInv, ResultCache!Init, CacheKey

\* What matched keeps matching: a parsed request never changes.
LEMMA MatchesKept ==
  ASSUME TypeInv, NEW v \in Result, NEW t, NEW c, Matches(v, t, c),
         \A s \in Request : req[s] # None => req'[s] = req[s]
  PROVE  Matches(v, t, c)'
<1>1. v.by \in Request
  BY DEF Result
<1> QED
  BY <1>1 DEF Matches

LEMMA IsolationTakeUp ==
  ASSUME TypeInv, IsolationInv, NEW r \in Request, NEW q \in RequestSpace, TakeUp(r, q)
  PROVE  IsolationInv'
<1>q. /\ q \in Input /\ q # None /\ q.tenant \in Tenant /\ q.content \in Content
      /\ <<q.tenant, q.content>> \in CacheKey
  BY RequestSpaceAssumption, NoneIsNoValue DEF Input, CacheKey
<1>t. /\ req \in [Request -> Input \cup {None}]
      /\ result \in [Request -> Result \cup {None}]
      /\ cache \in [Tenant \X Content -> Result \cup {None}]
  BY DEF TypeInv, TypeOK, ResultCache!TypeOK, CacheKey
<1>a. /\ req[r] = None /\ result[r] = None
      /\ req' = [req EXCEPT ![r] = q]
      /\ UNCHANGED cache
  BY TakeUpCases DEF Arrive, TypeInv, Staged
<1>b. \A s \in Request : req[s] # None => req'[s] = req[s]
  BY <1>a, <1>t
<1>1. ASSUME NEW t \in Tenant, NEW c \in Content, cache'[<<t, c>>] # None
      PROVE  Matches(cache[<<t, c>>], t, c)'
  <2>1. cache[<<t, c>>] # None /\ cache[<<t, c>>] \in Result
    BY <1>1, <1>a, <1>t
  <2>2. PICK v \in Result : v = cache[<<t, c>>]
    BY <2>1
  <2>3. Matches(v, t, c)
    BY <2>1, <2>2 DEF IsolationInv
  <2>4. Matches(v, t, c)'
    BY <2>3, <1>b, MatchesKept
  <2> QED
    BY <2>2, <2>4, <1>a DEF Matches
<1>2. ASSUME NEW s \in Request \ {r}, result'[s] # None
      PROVE  Matches(result[s], req[s].tenant, req[s].content)'
  <2>1. result'[s] = result[s] /\ result[s] \in Result
    BY <1>2, <1>t, TakeUpCases DEF AnsweredAtOnce, ServeFromCache, StartRouting
  <2>2. req[s] # None
    BY <2>1, NoneIsNoValue DEF TypeInv, Staged
  <2>a. req[s].tenant \in Tenant /\ req[s].content \in Content
    BY <2>2, <1>t DEF TypeInv, TypeOK, Input
  <2>3. PICK v \in Result, t \in Tenant, c \in Content :
          v = result[s] /\ t = req[s].tenant /\ c = req[s].content
    BY <2>1, <2>a
  <2>4. Matches(v, t, c)
    BY <2>1, <2>3, NoneIsNoValue DEF IsolationInv
  <2>5. Matches(v, t, c)'
    BY <2>4, <1>b, MatchesKept
  <2> QED
    BY <2>1, <2>2, <2>3, <2>5, <1>b DEF Matches
<1>3. ASSUME result'[r] # None
      PROVE  Matches(result[r], req[r].tenant, req[r].content)'
  <2>1. ServeFromCache(r, q)
    BY <1>3, <1>a, TakeUpCases DEF AnsweredAtOnce, StartRouting
  <2>2. PICK v \in Result : v = cache[<<q.tenant, q.content>>] /\ v # None
    BY <2>1, <1>q, <1>t DEF ServeFromCache, DeriveCacheKey
  <2>3. Matches(v, q.tenant, q.content)
    BY <2>2, <1>q DEF IsolationInv
  <2>4. Matches(v, q.tenant, q.content)'
    BY <2>3, <1>b, MatchesKept
  <2>5. result'[r].by = v.by /\ result'[r].provider = v.provider
    BY <2>1, <2>2, <1>t DEF ServeFromCache, DeriveCacheKey, AsHit
  <2>6. req'[r] = q
    BY <1>a, <1>t
  <2> QED
    BY <2>4, <2>5, <2>6 DEF Matches
<1> QED
  BY <1>1, <1>2, <1>3 DEF IsolationInv

LEMMA IsolationSettle ==
  ASSUME TypeInv, IsolationInv, NEW r \in Request, Settle(r)
  PROVE  IsolationInv'
<1>t. /\ req \in [Request -> Input \cup {None}]
      /\ result \in [Request -> Result \cup {None}]
      /\ cache \in [Tenant \X Content -> Result \cup {None}]
  BY DEF TypeInv, TypeOK, ResultCache!TypeOK, CacheKey
<1>a. /\ req[r] \in Input /\ req[r] # None
      /\ req[r].tenant \in Tenant /\ req[r].content \in Content
      /\ UNCHANGED req
  BY <1>t DEF Settle, ProviderAnswers, AttemptFails, RouteFails, Record, TypeInv, Staged,
     Input
<1>1. CASE ProviderAnswers(r)
  <2> DEFINE p == CandidatesOf(r)[attempt[r]]
             computed == [by |-> r, provider |-> p, cost |-> Cost[p], cached |-> FALSE]
  <2>1. /\ result' = [result EXCEPT ![r] = computed]
        /\ ResultCache!Put(<<req[r].tenant, req[r].content>>, computed)
    BY <1>1 DEF ProviderAnswers, DeriveCacheKey
  <2>2. Matches(computed, req[r].tenant, req[r].content)
    <3>1. CandidatesOf(r) \in Seq(Provider)
      BY <1>a, CandidatesAssumption DEF CandidatesOf
    <3>2. attempt[r] \in DOMAIN CandidatesOf(r)
      BY <1>1, <3>1 DEF ProviderAnswers, TypeInv, TypeOK, Tried
    <3>3. p \in Range(CandidatesOf(r))
      BY <3>2 DEF Range
    <3> QED
      BY <3>3, <1>a DEF Matches, CandidatesOf
  <2> HIDE DEF computed
  <2>3. ASSUME NEW k \in CacheKey
        PROVE  \/ cache'[k] = cache[k]
               \/ cache'[k] = None
               \/ k = <<req[r].tenant, req[r].content>> /\ cache'[k] = computed
    BY <2>1, <1>t DEF ResultCache!Put, ResultCache!PutWithRoom, ResultCache!PutEvicting,
       CacheKey
  <2>4. ASSUME NEW t \in Tenant, NEW c \in Content, cache'[<<t, c>>] # None
        PROVE  Matches(cache[<<t, c>>], t, c)'
    <3>1. <<t, c>> \in CacheKey
      BY DEF CacheKey
    <3>2. CASE cache'[<<t, c>>] = cache[<<t, c>>]
      BY <3>2, <2>4, <1>a DEF IsolationInv, Matches
    <3>3. CASE <<t, c>> = <<req[r].tenant, req[r].content>> /\ cache'[<<t, c>>] = computed
      BY <3>3, <2>2, <1>a DEF Matches
    <3> QED
      BY <3>1, <3>2, <3>3, <2>3, <2>4
  <2>5. ASSUME NEW s \in Request, result'[s] # None
        PROVE  Matches(result[s], req[s].tenant, req[s].content)'
    <3>1. CASE s = r
      BY <3>1, <2>1, <2>2, <1>a, <1>t DEF Matches
    <3>2. CASE s # r
      BY <3>2, <2>1, <2>5, <1>a, <1>t DEF Matches, IsolationInv
    <3> QED
      BY <3>1, <3>2
  <2> QED
    BY <2>4, <2>5 DEF IsolationInv
<1>2. CASE ~ProviderAnswers(r)
  <2>1. UNCHANGED <<cache, result, req>>
    BY <1>2 DEF Settle, AttemptFails, RouteFails, Record
  <2> QED
    BY <2>1 DEF IsolationInv, Matches
<1> QED
  BY <1>1, <1>2

LEMMA IsolationStep == TypeInv /\ IsolationInv /\ [Next]_vars => IsolationInv'
<1> SUFFICES ASSUME TypeInv, IsolationInv, [Next]_vars
             PROVE  IsolationInv'
  OBVIOUS
<1>1. CASE \E r \in Request : Settle(r) \/ \E q \in RequestSpace : TakeUp(r, q)
  BY <1>1, IsolationTakeUp, IsolationSettle
<1>2. CASE \/ \E s \in KillScopes : FlipKillSwitch(s)
           \/ \E t \in Tenant, s \in Shopper : SlotComesFree(t, s)
           \/ UNCHANGED vars
  BY <1>2 DEF FlipKillSwitch, SlotComesFree, vars, IsolationInv, Matches
<1> QED
  BY <1>1, <1>2 DEF Next

LEMMA IsolationInvariant == Spec => []IsolationInv
BY IsolationInit, IsolationStep, TypeInvariant, PTL DEF Spec

\* A result never crosses from one tenant or one photo to another, however the
\* cache served it, and it comes from a provider on the tenant's own list.
THEOREM ResultsAreIsolated == Spec => []ResultMatchesRequest
<1>1. TypeInv /\ IsolationInv => ResultMatchesRequest
  BY DEF IsolationInv, Matches, ResultMatchesRequest
<1> QED
  BY <1>1, IsolationInvariant, TypeInvariant, PTL

-----------------------------------------------------------------------------
(* Billing *)

\* A computed result is its request's own and costs what its provider charges;
\* a hit is another request's and costs nothing.
Priced ==
  \A r \in Request : result[r] # None =>
    \/ result[r].cached = FALSE /\ result[r].by = r /\ result[r].cost = Cost[result[r].provider]
    \/ result[r].cached = TRUE /\ result[r].by # r /\ result[r].cost = 0

Delivered == \A r \in jobs : pc[r] = "done" /\ result[r] # None

BillingInv == Priced /\ Delivered /\ EachComputationIsBilledOnce

LEMMA SumOfNone ==
  ASSUME NEW f
  PROVE  SumFunctionOnSet(f, {}) = 0
<1>1. IsFiniteSet({}) /\ \A x \in {} : f[x] \in Nat
  BY FS_EmptySet
<1> QED
  BY <1>1, SumStep

LEMMA BillingInit == Init => BillingInv
<1> SUFFICES ASSUME Init PROVE BillingInv
  OBVIOUS
<1>1. Priced /\ Delivered
  BY DEF Init, Priced, Delivered
<1>2. ASSUME NEW t \in Tenant PROVE AllowEvents(t) = {} /\ ComputedJobs(t) = {} /\ spent[t] = 0
  BY DEF Init, AllowEvents, ComputedJobs
<1>3. EachComputationIsBilledOnce
  BY <1>2, SumOfNone DEF EachComputationIsBilledOnce, SumTenantSpend, BilledFor
<1> QED
  BY <1>1, <1>3 DEF BillingInv

\* An event of another kind, or of another tenant, adds nothing; an allow event
\* adds its cost.
LEMMA SpendAppended ==
  ASSUME TypeOK, NEW r \in Request, NEW t \in Tenant, NEW o \in {"allow", "deny", "error"},
         NEW c \in Nat, AppendEvent(r, t, o, c), NEW u \in Tenant
  PROVE  /\ ~(u = t /\ o = "allow") => SumTenantSpend(u)' = SumTenantSpend(u)
         /\ u = t /\ o = "allow" => SumTenantSpend(u)' = SumTenantSpend(u) + c
<1> DEFINE e == [request |-> r, tenant |-> t, outcome |-> o, cost |-> c]
           n == Len(audit) + 1
           f == [i \in DOMAIN audit |-> audit[i].cost]
           g == [i \in DOMAIN audit' |-> audit'[i].cost]
           S == AllowEvents(u)
           T == AllowEvents(u)'
<1>1. audit \in Seq(Event) /\ e \in Event /\ audit' = Append(audit, e)
  BY DEF TypeOK, Event, AppendEvent
<1>0. /\ Len(audit) \in Nat
      /\ DOMAIN audit = 1..Len(audit)
      /\ DOMAIN audit' = 1..n
      /\ \A i \in DOMAIN audit : audit'[i] = audit[i]
      /\ audit'[n] = e
  BY <1>1
<1>2. /\ DOMAIN audit' = DOMAIN audit \cup {n}
      /\ n \notin DOMAIN audit
      /\ \A i \in DOMAIN audit : audit'[i] = audit[i] /\ audit[i].cost \in Nat
  <2>1. \A i \in DOMAIN audit : audit[i] \in Event
    BY <1>0, <1>1
  <2>2. \A i \in DOMAIN audit : audit[i].cost \in Nat
    BY <2>1 DEF Event
  <2>3. DOMAIN audit' = DOMAIN audit \cup {n} /\ n \notin DOMAIN audit
    BY <1>0 DEF n
  <2> QED
    BY <1>0, <2>2, <2>3
<1>3. e.outcome = o /\ e.tenant = t /\ e.cost = c
  OBVIOUS
<1> HIDE DEF e, n
<1>4. S \subseteq DOMAIN audit /\ n \notin S /\ IsFiniteSet(S)
  <2>1. IsFiniteSet(DOMAIN audit)
    BY <1>0, FS_Interval
  <2> QED
    BY <1>2, <2>1, FS_Subset DEF AllowEvents
<1>5. Extends(g, f, S)
  BY <1>2, <1>4 DEF Extends
<1>6. g[n] = c /\ g[n] \in Nat
  BY <1>0, <1>2, <1>3
<1>7. SumTenantSpend(u) = SumFunctionOnSet(f, S) /\ SumTenantSpend(u)' = SumFunctionOnSet(g, T)
  BY DEF SumTenantSpend
<1>8. CASE u = t /\ o = "allow"
  <2>1. T = S \cup {n}
    BY <1>0, <1>2, <1>3, <1>8 DEF AllowEvents
  <2> HIDE DEF f, g, S, T
  <2>2. SumFunctionOnSet(g, S \cup {n}) = SumFunctionOnSet(f, S) + g[n]
    BY <1>4, <1>5, <1>6, SumGrows
  <2> QED
    BY <1>6, <1>7, <1>8, <2>1, <2>2
<1>9. CASE ~(u = t /\ o = "allow")
  <2>1. T = S
    BY <1>0, <1>2, <1>3, <1>9 DEF AllowEvents
  <2> HIDE DEF f, g, S, T
  <2>2. SumFunctionOnSet(f, S) = SumFunctionOnSet(g, S)
    BY <1>4, <1>5, SumCongruent DEF Extends
  <2> QED
    BY <1>7, <1>9, <2>1, <2>2
<1> QED
  BY <1>8, <1>9

\* The bill of stored jobs does not change while no job is stored.
LEMMA BillKept ==
  ASSUME UNCHANGED jobs, \A r \in jobs : result'[r] = result[r] /\ req'[r] = req[r], NEW t
  PROVE  BilledFor(t)' = BilledFor(t)
<1>1. ComputedJobs(t)' = ComputedJobs(t)
  BY DEF ComputedJobs
<1>2. [r \in jobs |-> Cost[result[r].provider]]' = [r \in jobs |-> Cost[result[r].provider]]
  OBVIOUS
<1> QED
  BY <1>1, <1>2 DEF BilledFor

LEMMA BillingTakeUp ==
  ASSUME TypeInv, IsolationInv, BillingInv, NEW r \in Request, NEW q \in RequestSpace,
         TakeUp(r, q)
  PROVE  BillingInv'
<1> USE DEF BillingInv
<1>q. q \in Input /\ q.tenant \in Tenant /\ q.content \in Content
  BY RequestSpaceAssumption DEF Input
<1>t. /\ TypeOK
      /\ pc \in [Request -> {"idle", "routing", "routed", "done"}]
      /\ req \in [Request -> Input \cup {None}]
      /\ result \in [Request -> Result \cup {None}]
      /\ jobs \subseteq Request
  BY DEF TypeInv, TypeOK
<1>a. /\ pc[r] = "idle" /\ req[r] = None /\ result[r] = None
      /\ req' = [req EXCEPT ![r] = q]
      /\ UNCHANGED <<spent, jobs>>
      /\ AnsweredAtOnce(r, q) \/ ServeFromCache(r, q) \/ StartRouting(r, q)
  BY TakeUpCases DEF Arrive, TypeInv, Staged
<1>b. /\ r \notin jobs
      /\ \A s \in Request \ {r} : pc'[s] = pc[s] /\ req'[s] = req[s] /\ result'[s] = result[s]
  BY <1>a, <1>t DEF Delivered, AnsweredAtOnce, ServeFromCache, StartRouting
<1>1. Delivered'
  BY <1>a, <1>b, <1>t DEF Delivered
<1>2. Priced'
  <2>1. CASE ServeFromCache(r, q)
    <3>1. PICK v : v = cache[DeriveCacheKey(q)]
      OBVIOUS
    <3>2. v \in Result /\ v # None
      BY <2>1, <3>1, <1>q, <1>t, ReadTypes DEF ServeFromCache
    <3>3. req[v.by] # None
      BY <3>1, <3>2, <1>q DEF DeriveCacheKey, IsolationInv, Matches
    <3>4. result'[r] = AsHit(v)
      BY <2>1, <3>1, <1>t DEF ServeFromCache
    <3>5. result'[r].cached = TRUE /\ result'[r].by # r /\ result'[r].cost = 0
      BY <3>3, <3>4, <1>a DEF AsHit
    <3> QED
      BY <3>5, <1>b DEF Priced
  <2>2. CASE AnsweredAtOnce(r, q) \/ StartRouting(r, q)
    <3>1. UNCHANGED result
      BY <2>2 DEF AnsweredAtOnce, StartRouting
    <3> QED
      BY <3>1 DEF Priced
  <2> QED
    BY <1>a, <2>1, <2>2
<1>3. ASSUME NEW t \in Tenant PROVE SumTenantSpend(t)' = SumTenantSpend(t)
  <2>1. ASSUME NEW code, Deny(r, q, code) PROVE SumTenantSpend(t)' = SumTenantSpend(t)
    <3>1. AppendEvent(r, q.tenant, "deny", 0)
      BY <2>1 DEF Deny
    <3> QED
      BY <3>1, <1>q, <1>t, SpendAppended
  <2>2. CASE UNCHANGED audit
    BY <2>2 DEF SumTenantSpend, AllowEvents
  <2> QED
    BY <2>1, <2>2 DEF TakeUp, RejectRequest, DenyUnauthorized, ReplayJob, DenyKillSwitch,
       DenyImage, DenyRateLimit, DenyBudget, ServeFromCache, StartRouting
<1>4. ASSUME NEW t \in Tenant PROVE BilledFor(t)' = BilledFor(t)
  BY <1>a, <1>b, <1>t, BillKept
<1>5. EachComputationIsBilledOnce'
  BY <1>a, <1>3, <1>4 DEF EachComputationIsBilledOnce
<1> QED
  BY <1>1, <1>2, <1>5

\* A job is stored: the bill grows by the cost of its result, which is nothing
\* for a hit and what the provider charges for a computed one.
LEMMA BillGrows ==
  ASSUME TypeInv, BillingInv, NEW r \in Request, Record(r), NEW t \in Tenant
  PROVE  /\ t # req[r].tenant => BilledFor(t)' = BilledFor(t)
         /\ t = req[r].tenant => BilledFor(t)' = BilledFor(t) + result[r].cost
<1> USE DEF BillingInv
<1> DEFINE f == [s \in jobs |-> Cost[result[s].provider]]
           g == [s \in jobs' |-> Cost[result'[s].provider]]
           S == ComputedJobs(t)
           T == ComputedJobs(t)'
<1>t. /\ result \in [Request -> Result \cup {None}] /\ jobs \subseteq Request
      /\ spent \in [Tenant -> Nat]
  BY DEF TypeInv, TypeOK
<1>a. /\ jobs' = jobs \cup {r} /\ UNCHANGED <<req, result>>
      /\ r \notin jobs /\ result[r] # None
  BY DEF Record, Delivered, TypeInv, Staged
<1>c. \A s \in Request : result[s] # None => Cost[result[s].provider] \in Nat
  BY <1>t, CostAssumption DEF Result
<1>1. S \subseteq jobs /\ r \notin S /\ IsFiniteSet(S)
  BY <1>a, <1>t, RequestsFinite, FS_Subset DEF ComputedJobs
<1>2. Extends(g, f, S)
  BY <1>1, <1>a, <1>c, <1>t DEF Delivered, Extends
<1>3. g[r] = Cost[result[r].provider] /\ g[r] \in Nat
  BY <1>a, <1>c
<1>4. BilledFor(t) = SumFunctionOnSet(f, S) /\ BilledFor(t)' = SumFunctionOnSet(g, T)
  BY DEF BilledFor
<1>5. CASE t = req[r].tenant /\ result[r].by = r
  <2>1. T = S \cup {r}
    BY <1>5, <1>a DEF ComputedJobs
  <2>2. result[r].cost = g[r]
    BY <1>3, <1>5, <1>a DEF Priced
  <2> HIDE DEF f, g, S, T
  <2>3. SumFunctionOnSet(g, S \cup {r}) = SumFunctionOnSet(f, S) + g[r]
    BY <1>1, <1>2, <1>3, SumGrows
  <2> QED
    BY <1>4, <1>5, <2>1, <2>2, <2>3
<1>6. CASE ~(t = req[r].tenant /\ result[r].by = r)
  <2>1. T = S
    BY <1>6, <1>a DEF ComputedJobs
  <2>2. t = req[r].tenant => result[r].cost = 0
    BY <1>6, <1>a DEF Priced
  <2>3. BilledFor(t) \in Nat
    BY <1>t DEF EachComputationIsBilledOnce
  <2> HIDE DEF f, g, S, T
  <2>4. SumFunctionOnSet(f, S) = SumFunctionOnSet(g, S)
    BY <1>1, <1>2, SumCongruent DEF Extends
  <2> QED
    BY <1>4, <2>1, <2>2, <2>3, <2>4
<1> QED
  BY <1>5, <1>6

LEMMA BillingSettle ==
  ASSUME TypeInv, BillingInv, NEW r \in Request, Settle(r)
  PROVE  BillingInv'
<1> USE DEF BillingInv
<1>t. /\ TypeOK
      /\ pc \in [Request -> {"idle", "routing", "routed", "done"}]
      /\ req \in [Request -> Input \cup {None}]
      /\ result \in [Request -> Result \cup {None}]
      /\ spent \in [Tenant -> Nat]
      /\ jobs \subseteq Request
  BY DEF TypeInv, TypeOK
<1>a. /\ pc[r] \in {"routing", "routed"} /\ req[r].tenant \in Tenant
      /\ UNCHANGED req
      /\ \A s \in Request \ {r} : pc'[s] = pc[s] /\ result'[s] = result[s]
      /\ r \notin jobs
  BY <1>t DEF Settle, ProviderAnswers, AttemptFails, RouteFails, Record, Answer, TypeInv,
     Staged, Input, Delivered
<1>b. ASSUME UNCHANGED <<jobs, spent>>, \A t \in Tenant : SumTenantSpend(t)' = SumTenantSpend(t)
      PROVE  Delivered' /\ EachComputationIsBilledOnce'
  <2>1. \A s \in jobs : pc'[s] = pc[s] /\ result'[s] = result[s] /\ req'[s] = req[s]
    BY <1>a, <1>t
  <2>2. \A t \in Tenant : BilledFor(t)' = BilledFor(t)
    BY <1>b, <2>1, BillKept
  <2>3. Delivered'
    BY <1>b, <2>1 DEF Delivered
  <2> QED
    BY <1>b, <2>2, <2>3 DEF EachComputationIsBilledOnce
<1>u. UNCHANGED audit => \A t \in Tenant : SumTenantSpend(t)' = SumTenantSpend(t)
  BY DEF SumTenantSpend, AllowEvents
<1>1. CASE ProviderAnswers(r)
  <2> DEFINE p == CandidatesOf(r)[attempt[r]]
             computed == [by |-> r, provider |-> p, cost |-> Cost[p], cached |-> FALSE]
  <2>1. /\ result' = [result EXCEPT ![r] = computed]
        /\ UNCHANGED <<jobs, spent, audit>>
    BY <1>1 DEF ProviderAnswers
  <2>2. computed.cached = FALSE /\ computed.by = r /\ computed.cost = Cost[computed.provider]
    OBVIOUS
  <2> HIDE DEF computed
  <2>3. Priced'
    BY <2>1, <2>2, <1>t DEF Priced
  <2> QED
    BY <2>1, <2>3, <1>b, <1>u
<1>2. CASE AttemptFails(r)
  BY <1>2, <1>b, <1>u DEF AttemptFails, Priced
<1>3. CASE RouteFails(r)
  <2>1. AppendEvent(r, req[r].tenant, "error", 0) /\ UNCHANGED <<result, jobs, spent>>
    BY <1>3 DEF RouteFails
  <2>2. \A t \in Tenant : SumTenantSpend(t)' = SumTenantSpend(t)
    BY <2>1, <1>a, <1>t, SpendAppended
  <2> QED
    BY <2>1, <2>2, <1>b DEF Priced
<1>4. CASE Record(r)
  <2>1. /\ AppendEvent(r, req[r].tenant, "allow", result[r].cost)
        /\ spent' = [spent EXCEPT ![req[r].tenant] = @ + result[r].cost]
        /\ pc' = [pc EXCEPT ![r] = "done"]
        /\ jobs' = jobs \cup {r} /\ UNCHANGED result
        /\ result[r] # None /\ result[r].cost \in Nat
    BY <1>4, <1>t DEF Record, Answer, TypeInv, Staged, Result
  <2>2. Priced' /\ Delivered'
    BY <2>1, <1>a, <1>t DEF Priced, Delivered
  <2>3. ASSUME NEW t \in Tenant
        PROVE  spent'[t] = SumTenantSpend(t)' /\ spent'[t] = BilledFor(t)'
    <3>1. /\ t # req[r].tenant => SumTenantSpend(t)' = SumTenantSpend(t)
          /\ t = req[r].tenant => SumTenantSpend(t)' = SumTenantSpend(t) + result[r].cost
      BY <2>1, <1>a, <1>t, SpendAppended
    <3>2. /\ t # req[r].tenant => BilledFor(t)' = BilledFor(t)
          /\ t = req[r].tenant => BilledFor(t)' = BilledFor(t) + result[r].cost
      BY <1>4, BillGrows
    <3>3. spent[t] = SumTenantSpend(t) /\ spent[t] = BilledFor(t)
      BY DEF EachComputationIsBilledOnce
    <3>4. /\ t # req[r].tenant => spent'[t] = spent[t]
          /\ t = req[r].tenant => spent'[t] = spent[t] + result[r].cost
      BY <2>1, <1>t
    <3> QED
      BY <3>1, <3>2, <3>3, <3>4
  <2> QED
    BY <2>2, <2>3 DEF EachComputationIsBilledOnce
<1> QED
  BY <1>1, <1>2, <1>3, <1>4 DEF Settle

LEMMA BillingStep == TypeInv /\ IsolationInv /\ BillingInv /\ [Next]_vars => BillingInv'
<1> SUFFICES ASSUME TypeInv, IsolationInv, BillingInv, [Next]_vars
             PROVE  BillingInv'
  OBVIOUS
<1>1. CASE \E r \in Request : Settle(r) \/ \E q \in RequestSpace : TakeUp(r, q)
  BY <1>1, BillingTakeUp, BillingSettle
<1>2. CASE \/ \E s \in KillScopes : FlipKillSwitch(s)
           \/ \E t \in Tenant, s \in Shopper : SlotComesFree(t, s)
           \/ UNCHANGED vars
  <2>1. UNCHANGED <<pc, req, result, jobs, spent, audit>>
    BY <1>2 DEF FlipKillSwitch, SlotComesFree, vars
  <2>2. \A t \in Tenant : SumTenantSpend(t)' = SumTenantSpend(t)
    BY <2>1 DEF SumTenantSpend, AllowEvents
  <2>3. \A t \in Tenant : BilledFor(t)' = BilledFor(t)
    BY <2>1, BillKept
  <2>4. Priced' /\ Delivered'
    BY <2>1 DEF BillingInv, Priced, Delivered
  <2> QED
    BY <2>1, <2>2, <2>3, <2>4 DEF BillingInv, EachComputationIsBilledOnce
<1> QED
  BY <1>1, <1>2 DEF Next

\* However many requests compute one key at once, and whatever the cache and the
\* replays then serve, what a tenant is charged is the sum of its allow events and
\* the cost of the results computed for its stored jobs, each once.
THEOREM ComputationsAreBilledOnce == Spec => []EachComputationIsBilledOnce
<1>1. BillingInv => EachComputationIsBilledOnce
  BY DEF BillingInv
<1>2. Spec => []BillingInv
  BY BillingInit, BillingStep, IsolationInvariant, TypeInvariant, PTL DEF Spec
<1> QED
  BY <1>1, <1>2, PTL

-----------------------------------------------------------------------------
(* The fallback *)

\* The candidates a request has left behind could fail, and a request that failed
\* has left all of its candidates behind.
LeftBehind ==
  \A r \in Request :
    pc[r] = "routing" =>
      \A i \in DOMAIN CandidatesOf(r) : i < attempt[r] => CandidatesOf(r)[i] \in Fallible

FallbackInv == LeftBehind /\ FallbackAlwaysAnswers

LEMMA FallbackInit == Init => FallbackInv
BY DEF Init, FallbackInv, LeftBehind, FallbackAlwaysAnswers

LEMMA FallbackTakeUp ==
  ASSUME TypeInv, FallbackInv, NEW r \in Request, NEW q \in RequestSpace, TakeUp(r, q)
  PROVE  FallbackInv'
<1>q. q \in Input /\ q # None /\ q.tenant \in Tenant
  BY RequestSpaceAssumption, NoneIsNoValue DEF Input
<1>t. /\ pc \in [Request -> {"idle", "routing", "routed", "done"}]
      /\ req \in [Request -> Input \cup {None}]
      /\ attempt \in [Request -> Nat]
      /\ verdict \in [Request -> Verdict]
  BY DEF TypeInv, TypeOK
<1>a. /\ pc[r] = "idle" /\ verdict[r] = "none"
      /\ req' = [req EXCEPT ![r] = q]
      /\ AnsweredAtOnce(r, q) \/ ServeFromCache(r, q) \/ StartRouting(r, q)
      /\ \A s \in Request \ {r} : verdict'[s] = verdict[s]
  BY TakeUpCases DEF Arrive, TypeInv, Staged
<1>b. \A s \in Request \ {r} : /\ pc'[s] = pc[s] /\ attempt'[s] = attempt[s]
                               /\ CandidatesOf(s)' = CandidatesOf(s)
  BY <1>a, <1>t DEF AnsweredAtOnce, ServeFromCache, StartRouting, CandidatesOf
<1>c. verdict'[r] # "PROVIDER_ERROR"
  BY <1>a DEF AnsweredAtOnce, ServeFromCache, StartRouting
<1>d. pc'[r] = "routing" => attempt'[r] = 1
  BY <1>a, <1>t DEF AnsweredAtOnce, ServeFromCache, StartRouting
<1>e. DOMAIN Candidates[q.tenant] \subseteq Nat \ {0} /\ CandidatesOf(r)' = Candidates[q.tenant]
  BY <1>q, <1>a, <1>t, CandidatesAssumption DEF CandidatesOf
<1>1. LeftBehind'
  BY <1>b, <1>d, <1>e DEF FallbackInv, LeftBehind
<1>2. FallbackAlwaysAnswers'
  BY <1>a, <1>b, <1>c DEF FallbackInv, FallbackAlwaysAnswers
<1> QED
  BY <1>1, <1>2 DEF FallbackInv

LEMMA FallbackSettle ==
  ASSUME TypeInv, FallbackInv, NEW r \in Request, Settle(r)
  PROVE  FallbackInv'
<1>t. /\ pc \in [Request -> {"idle", "routing", "routed", "done"}]
      /\ attempt \in [Request -> Nat]
      /\ verdict \in [Request -> Verdict]
  BY DEF TypeInv, TypeOK
<1>a. UNCHANGED req /\ \A s \in Request : CandidatesOf(s)' = CandidatesOf(s)
  BY DEF Settle, ProviderAnswers, AttemptFails, RouteFails, Record, CandidatesOf
<1>s. Len(CandidatesOf(r)) \in Nat /\ DOMAIN CandidatesOf(r) = 1..Len(CandidatesOf(r))
  <2>1. req[r] \in Input
    BY DEF Settle, ProviderAnswers, AttemptFails, RouteFails, Record, TypeInv, TypeOK, Staged
  <2> QED
    BY <2>1, CandidatesAssumption DEF CandidatesOf, Input
<1>1. CASE ProviderAnswers(r) \/ Record(r)
  <2>1. verdict'[r] # "PROVIDER_ERROR" \/ verdict'[r] = verdict[r]
    BY <1>1, <1>t DEF ProviderAnswers, Record, Answer
  <2>2. /\ pc'[r] # "routing"
        /\ \A s \in Request \ {r} : pc'[s] = pc[s] /\ verdict'[s] = verdict[s]
        /\ UNCHANGED attempt
    BY <1>1, <1>t DEF ProviderAnswers, Record, Answer
  <2> QED
    BY <2>1, <2>2, <1>a DEF FallbackInv, LeftBehind, FallbackAlwaysAnswers
<1>2. CASE AttemptFails(r)
  <2>1. /\ UNCHANGED <<pc, verdict>>
        /\ CandidatesOf(r)[attempt[r]] \in Fallible
        /\ attempt' = [attempt EXCEPT ![r] = attempt[r] + 1]
        /\ pc[r] = "routing"
    BY <1>2 DEF AttemptFails
  <2>2. \A i \in DOMAIN CandidatesOf(r) : i < attempt'[r] => CandidatesOf(r)[i] \in Fallible
    BY <2>1, <1>s, <1>t DEF FallbackInv, LeftBehind
  <2> QED
    BY <2>1, <2>2, <1>a, <1>t DEF FallbackInv, LeftBehind, FallbackAlwaysAnswers
<1>3. CASE RouteFails(r)
  <2>1. /\ pc[r] = "routing" /\ attempt[r] > Len(CandidatesOf(r))
        /\ pc' = [pc EXCEPT ![r] = "done"]
        /\ verdict' = [verdict EXCEPT ![r] = "PROVIDER_ERROR"]
        /\ UNCHANGED attempt
    BY <1>3 DEF RouteFails, OutOfCandidates, Answer
  <2>2. \A i \in DOMAIN CandidatesOf(r) : CandidatesOf(r)[i] \in Fallible
    BY <2>1, <1>s, <1>t DEF FallbackInv, LeftBehind
  <2>3. Range(CandidatesOf(r)) \subseteq Fallible
    BY <2>2 DEF Range
  <2> QED
    BY <2>1, <2>3, <1>a, <1>t DEF FallbackInv, LeftBehind, FallbackAlwaysAnswers
<1> QED
  BY <1>1, <1>2, <1>3 DEF Settle

LEMMA FallbackStep == TypeInv /\ FallbackInv /\ [Next]_vars => FallbackInv'
<1> SUFFICES ASSUME TypeInv, FallbackInv, [Next]_vars
             PROVE  FallbackInv'
  OBVIOUS
<1>1. CASE \E r \in Request : Settle(r) \/ \E q \in RequestSpace : TakeUp(r, q)
  BY <1>1, FallbackTakeUp, FallbackSettle
<1>2. CASE \/ \E s \in KillScopes : FlipKillSwitch(s)
           \/ \E t \in Tenant, s \in Shopper : SlotComesFree(t, s)
           \/ UNCHANGED vars
  BY <1>2 DEF FlipKillSwitch, SlotComesFree, vars, FallbackInv, LeftBehind,
     FallbackAlwaysAnswers, CandidatesOf
<1> QED
  BY <1>1, <1>2 DEF Next

\* A request fails with PROVIDER_ERROR only when each of its tenant's providers can
\* fail: one that cannot, wherever it stands in the list, rules the error out.
THEOREM FallbackAnswers == Spec => []FallbackAlwaysAnswers
<1>1. FallbackInv => FallbackAlwaysAnswers
  BY DEF FallbackInv
<1>2. Spec => []FallbackInv
  BY FallbackInit, FallbackStep, TypeInvariant, PTL DEF Spec
<1> QED
  BY <1>1, <1>2, PTL

-----------------------------------------------------------------------------
(* The kill switch *)

LEMMA KillSwitchStep ==
  ASSUME TypeInv, [Next]_vars, NEW t \in Tenant, Killed(t)
  PROVE  Routing(t)' \subseteq Routing(t)
<1>t. /\ pc \in [Request -> {"idle", "routing", "routed", "done"}]
      /\ req \in [Request -> Input \cup {None}]
  BY DEF TypeInv, TypeOK
<1>1. ASSUME NEW r \in Request, NEW q \in RequestSpace, TakeUp(r, q)
      PROVE  Routing(t)' \subseteq Routing(t)
  <2>1. /\ req' = [req EXCEPT ![r] = q]
        /\ AnsweredAtOnce(r, q) \/ ServeFromCache(r, q) \/ StartRouting(r, q)
    BY <1>1, TakeUpCases DEF Arrive
  <2>2. \A s \in Request \ {r} : pc'[s] = pc[s] /\ req'[s] = req[s]
    BY <2>1, <1>t DEF AnsweredAtOnce, ServeFromCache, StartRouting
  <2>3. pc'[r] = "routing" => ~Killed(q.tenant)
    BY <2>1, <1>t DEF AnsweredAtOnce, ServeFromCache, StartRouting, Admitted, Valid
  <2>4. req'[r] = q
    BY <2>1, <1>t
  <2> QED
    BY <2>2, <2>3, <2>4 DEF Routing
<1>2. ASSUME NEW r \in Request, Settle(r)
      PROVE  Routing(t)' \subseteq Routing(t)
  BY <1>2, <1>t DEF Settle, ProviderAnswers, AttemptFails, RouteFails, Record, Answer, Routing
<1>3. CASE \/ \E s \in KillScopes : FlipKillSwitch(s)
           \/ \E u \in Tenant, s \in Shopper : SlotComesFree(u, s)
           \/ UNCHANGED vars
  BY <1>3 DEF FlipKillSwitch, SlotComesFree, vars, Routing
<1> QED
  BY <1>1, <1>2, <1>3 DEF Next

\* However requests interleave with the operator, no request of a tenant starts
\* routing in a state in which the tenant's kill switch, or the global one, is on.
THEOREM KillSwitchIsHonoured == Spec => KillSwitchAdmitsNone
<1>1. TypeInv /\ [Next]_vars => [\A t \in Tenant : Killed(t) => Routing(t)' \subseteq Routing(t)]_vars
  BY KillSwitchStep
<1> QED
  BY <1>1, TypeInvariant, PTL DEF Spec, KillSwitchAdmitsNone

-----------------------------------------------------------------------------
(* The audit trail *)

\* Appending an event of r leaves the events of the others where they are.
LEMMA EventsAppended ==
  ASSUME TypeOK, NEW r \in Request, NEW t \in Tenant, NEW o \in {"allow", "deny", "error"},
         NEW c \in Nat, AppendEvent(r, t, o, c)
  PROVE  /\ EventsOf(r)' = EventsOf(r) \cup {Len(audit) + 1}
         /\ \A s \in Request \ {r} : EventsOf(s)' = EventsOf(s)
         /\ \A i \in DOMAIN audit : i \in DOMAIN audit' /\ audit'[i] = audit[i]
         /\ Len(audit) + 1 \in DOMAIN audit'
         /\ audit'[Len(audit) + 1].outcome = o
         /\ audit'[Len(audit) + 1].tenant = t
<1> DEFINE e == [request |-> r, tenant |-> t, outcome |-> o, cost |-> c]
<1>1. audit \in Seq(Event) /\ e \in Event /\ audit' = Append(audit, e)
  BY DEF TypeOK, Event, AppendEvent
<1>2. /\ Len(audit) \in Nat
      /\ DOMAIN audit = 1..Len(audit)
      /\ DOMAIN audit' = 1..Len(audit) + 1
      /\ \A i \in DOMAIN audit : audit'[i] = audit[i]
      /\ audit'[Len(audit) + 1] = e
  BY <1>1
<1>3. e.request = r /\ e.outcome = o /\ e.tenant = t
  OBVIOUS
<1> HIDE DEF e
<1> QED
  BY <1>2, <1>3 DEF EventsOf

\* A request without a verdict gets one, together with its event.
LEMMA VerdictWithEvent ==
  ASSUME TypeInv, VerdictsAreAudited, NEW r \in Request, verdict[r] = "none",
         NEW t \in Tenant, NEW o \in {"allow", "deny", "error"}, NEW c \in Nat,
         AppendEvent(r, t, o, c), EventKind(verdict'[r]) = o, req'[r].tenant = t,
         \A s \in Request \ {r} : verdict'[s] = verdict[s] /\ req'[s] = req[s]
  PROVE  VerdictsAreAudited'
<1>1. EventsOf(r) = {}
  BY DEF VerdictsAreAudited, EventKind, Refusal
<1>2. EventsOf(r)' = {Len(audit) + 1}
  BY <1>1, EventsAppended DEF TypeInv
<1>3. \A s \in Request \ {r} :
        /\ EventsOf(s)' = EventsOf(s)
        /\ \A i \in EventsOf(s) : i \in DOMAIN audit' /\ audit'[i] = audit[i]
  BY EventsAppended DEF TypeInv, EventsOf
<1>4. /\ Len(audit) + 1 \in DOMAIN audit'
      /\ audit'[Len(audit) + 1].outcome = o
      /\ audit'[Len(audit) + 1].tenant = t
  BY EventsAppended DEF TypeInv
<1>5. ASSUME NEW s \in Request \ {r}
      PROVE  EventKind(verdict'[s]) = EventKind(verdict[s])
  OBVIOUS
<1> SUFFICES ASSUME NEW s \in Request
             PROVE  IF EventKind(verdict'[s]) = "no event"
                    THEN EventsOf(s)' = {}
                    ELSE \E i \in DOMAIN audit' :
                           /\ EventsOf(s)' = {i}
                           /\ audit'[i].outcome = EventKind(verdict'[s])
                           /\ audit'[i].tenant = req'[s].tenant
  BY DEF VerdictsAreAudited, EventKind
<1>6. CASE s = r
  BY <1>2, <1>4, <1>6
<1>7. CASE s # r
  <2>1. EventKind(verdict'[s]) = EventKind(verdict[s]) /\ req'[s] = req[s]
    BY <1>5, <1>7
  <2>2. CASE EventKind(verdict[s]) = "no event"
    BY <2>1, <2>2, <1>3, <1>7 DEF VerdictsAreAudited
  <2>3. CASE EventKind(verdict[s]) # "no event"
    <3>1. PICK i \in DOMAIN audit : /\ EventsOf(s) = {i}
                                    /\ audit[i].outcome = EventKind(verdict[s])
                                    /\ audit[i].tenant = req[s].tenant
      BY <2>3 DEF VerdictsAreAudited
    <3>2. EventsOf(s)' = {i} /\ i \in DOMAIN audit' /\ audit'[i] = audit[i]
      BY <3>1, <1>3, <1>7
    <3> QED
      BY <3>1, <3>2, <2>1, <2>3
  <2> QED
    BY <2>2, <2>3
<1> QED
  BY <1>6, <1>7

\* A request without a verdict moves on without an event.
LEMMA StepWithoutEvent ==
  ASSUME VerdictsAreAudited, NEW r \in Request, verdict[r] = "none",
         UNCHANGED audit, EventKind(verdict'[r]) = "no event",
         \A s \in Request \ {r} : verdict'[s] = verdict[s] /\ req'[s] = req[s]
  PROVE  VerdictsAreAudited'
<1>1. \A s \in Request : EventsOf(s)' = EventsOf(s)
  BY DEF EventsOf
<1>2. EventsOf(r) = {}
  BY DEF VerdictsAreAudited, EventKind, Refusal
<1>3. ASSUME NEW s \in Request \ {r}
      PROVE  EventKind(verdict'[s]) = EventKind(verdict[s])
  OBVIOUS
<1> SUFFICES ASSUME NEW s \in Request
             PROVE  IF EventKind(verdict'[s]) = "no event"
                    THEN EventsOf(s)' = {}
                    ELSE \E i \in DOMAIN audit' :
                           /\ EventsOf(s)' = {i}
                           /\ audit'[i].outcome = EventKind(verdict'[s])
                           /\ audit'[i].tenant = req'[s].tenant
  BY DEF VerdictsAreAudited, EventKind
<1>4. CASE s = r
  BY <1>1, <1>2, <1>4
<1>5. CASE s # r
  BY <1>1, <1>3, <1>5, ZenonT(40) DEF VerdictsAreAudited
<1> QED
  BY <1>4, <1>5

LEMMA AuditTakeUp ==
  ASSUME TypeInv, VerdictsAreAudited, NEW r \in Request, NEW q \in RequestSpace, TakeUp(r, q)
  PROVE  VerdictsAreAudited'
<1>q. q \in Input /\ q.tenant \in Tenant
  BY RequestSpaceAssumption DEF Input
<1>t. /\ req \in [Request -> Input \cup {None}]
      /\ verdict \in [Request -> Verdict]
  BY DEF TypeInv, TypeOK
<1>a. /\ verdict[r] = "none"
      /\ req' = [req EXCEPT ![r] = q]
      /\ \A s \in Request \ {r} : verdict'[s] = verdict[s]
  BY TakeUpCases DEF Arrive, TypeInv, Staged
<1>b. /\ \A s \in Request \ {r} : verdict'[s] = verdict[s] /\ req'[s] = req[s]
      /\ req'[r] = q
  BY <1>a, <1>t
<1>1. ASSUME NEW code \in Refusal, Deny(r, q, code)
      PROVE  VerdictsAreAudited'
  <2>1. verdict'[r] = code /\ AppendEvent(r, q.tenant, "deny", 0)
    BY <1>1, <1>t DEF Deny, Answer
  <2>a. code # "PROVIDER_ERROR" /\ code # "succeeded"
    BY DEF Refusal
  <2>2. EventKind(verdict'[r]) = "deny"
    BY <2>1, <2>a DEF EventKind
  <2> QED
    BY <2>1, <2>2, <1>a, <1>b, <1>q, VerdictWithEvent
<1>2. ASSUME verdict'[r] \in {"none", "rejected", "replayed"}, UNCHANGED audit
      PROVE  VerdictsAreAudited'
  <2>1. EventKind(verdict'[r]) = "no event"
    BY <1>2 DEF EventKind, Refusal
  <2> QED
    BY <2>1, <1>2, <1>a, <1>b, StepWithoutEvent
<1>3. CASE RejectRequest(r, q) \/ ReplayJob(r, q)
  BY <1>3, <1>2, <1>t DEF RejectRequest, ReplayJob, Answer
<1>4. CASE ServeFromCache(r, q) \/ StartRouting(r, q)
  BY <1>4, <1>2, <1>a DEF ServeFromCache, StartRouting
<1>5. CASE \/ DenyUnauthorized(r, q) \/ DenyKillSwitch(r, q) \/ DenyImage(r, q)
           \/ DenyRateLimit(r, q) \/ DenyBudget(r, q)
  BY <1>5, <1>1 DEF DenyUnauthorized, DenyKillSwitch, DenyImage, DenyRateLimit,
     DenyBudget, Refusal
<1> QED
  BY <1>3, <1>4, <1>5 DEF TakeUp

LEMMA AuditSettle ==
  ASSUME TypeInv, VerdictsAreAudited, NEW r \in Request, Settle(r)
  PROVE  VerdictsAreAudited'
<1>t. /\ verdict \in [Request -> Verdict]
      /\ result \in [Request -> Result \cup {None}]
  BY DEF TypeInv, TypeOK
<1>a. /\ verdict[r] = "none" /\ req[r].tenant \in Tenant
      /\ UNCHANGED req
  BY DEF Settle, ProviderAnswers, AttemptFails, RouteFails, Record, TypeInv, TypeOK,
     Staged, Input
<1>1. CASE ProviderAnswers(r) \/ AttemptFails(r)
  <2>1. UNCHANGED <<verdict, audit>>
    BY <1>1 DEF ProviderAnswers, AttemptFails
  <2>2. EventKind(verdict'[r]) = "no event"
    BY <2>1, <1>a DEF EventKind, Refusal
  <2> QED
    BY <2>1, <2>2, <1>a, StepWithoutEvent
<1>2. CASE RouteFails(r)
  <2>1. /\ verdict' = [verdict EXCEPT ![r] = "PROVIDER_ERROR"]
        /\ AppendEvent(r, req[r].tenant, "error", 0)
    BY <1>2 DEF RouteFails, Answer
  <2>2. EventKind(verdict'[r]) = "error"
    BY <2>1, <1>t DEF EventKind, Refusal
  <2> QED
    BY <2>1, <2>2, <1>a, <1>t, VerdictWithEvent
<1>3. CASE Record(r)
  <2>1. /\ verdict' = [verdict EXCEPT ![r] = "succeeded"]
        /\ AppendEvent(r, req[r].tenant, "allow", result[r].cost)
    BY <1>3 DEF Record, Answer
  <2>2. EventKind(verdict'[r]) = "allow"
    BY <2>1, <1>t DEF EventKind, Refusal
  <2>3. result[r].cost \in Nat
    BY <1>3, <1>t DEF Record, TypeInv, Staged, Result
  <2> QED
    BY <2>1, <2>2, <2>3, <1>a, <1>t, VerdictWithEvent
<1> QED
  BY <1>1, <1>2, <1>3 DEF Settle

LEMMA AuditStep == TypeInv /\ VerdictsAreAudited /\ [Next]_vars => VerdictsAreAudited'
<1> SUFFICES ASSUME TypeInv, VerdictsAreAudited, [Next]_vars
             PROVE  VerdictsAreAudited'
  OBVIOUS
<1>1. CASE \E r \in Request : Settle(r) \/ \E q \in RequestSpace : TakeUp(r, q)
  BY <1>1, AuditTakeUp, AuditSettle
<1>2. CASE \/ \E s \in KillScopes : FlipKillSwitch(s)
           \/ \E t \in Tenant, s \in Shopper : SlotComesFree(t, s)
           \/ UNCHANGED vars
  <2>1. UNCHANGED <<verdict, req, audit>>
    BY <1>2 DEF FlipKillSwitch, SlotComesFree, vars
  <2>2. \A s \in Request : EventsOf(s)' = EventsOf(s)
    BY <2>1 DEF EventsOf
  <2> QED
    BY <2>1, <2>2 DEF VerdictsAreAudited
<1> QED
  BY <1>1, <1>2 DEF Next

\* Whatever the interleaving, an answered request that passed the bearer check and
\* was not a replay has exactly one event, of its tenant and of the kind of its
\* verdict, and no other request has any.
THEOREM AuditIsComplete == Spec => []VerdictsAreAudited
<1>1. Init => VerdictsAreAudited
  BY DEF Init, VerdictsAreAudited, EventsOf, EventKind, Refusal
<1> QED
  BY <1>1, AuditStep, TypeInvariant, PTL DEF Spec

-----------------------------------------------------------------------------
(* The fall-through *)

\* The router never gets further than one past its last candidate.
InReach ==
  \A r \in Request : pc[r] = "routing" => attempt[r] <= Len(CandidatesOf(r)) + 1

LEMMA LengthType ==
  ASSUME TypeInv, NEW r \in Request, req[r] # None
  PROVE  Len(CandidatesOf(r)) \in Nat
BY CandidatesAssumption DEF CandidatesOf, TypeInv, TypeOK, Input

LEMMA InReachStep == TypeInv /\ InReach /\ [Next]_vars => InReach'
<1> SUFFICES ASSUME TypeInv, InReach, [Next]_vars
             PROVE  InReach'
  OBVIOUS
<1>t. /\ pc \in [Request -> {"idle", "routing", "routed", "done"}]
      /\ req \in [Request -> Input \cup {None}]
      /\ attempt \in [Request -> Nat]
  BY DEF TypeInv, TypeOK
<1>1. ASSUME NEW r \in Request, NEW q \in RequestSpace, TakeUp(r, q)
      PROVE  InReach'
  <2>1. /\ req' = [req EXCEPT ![r] = q] /\ q \in Input
        /\ AnsweredAtOnce(r, q) \/ ServeFromCache(r, q) \/ StartRouting(r, q)
    BY <1>1, TakeUpCases, RequestSpaceAssumption DEF Arrive
  <2>2. \A s \in Request \ {r} : /\ pc'[s] = pc[s] /\ attempt'[s] = attempt[s]
                                 /\ CandidatesOf(s)' = CandidatesOf(s)
    BY <2>1, <1>t DEF AnsweredAtOnce, ServeFromCache, StartRouting, CandidatesOf
  <2>3. pc'[r] = "routing" => attempt'[r] = 1
    BY <2>1, <1>t DEF AnsweredAtOnce, ServeFromCache, StartRouting
  <2>4. Len(CandidatesOf(r)') \in Nat
    BY <2>1, <1>t, CandidatesAssumption DEF CandidatesOf, Input
  <2> QED
    BY <2>2, <2>3, <2>4 DEF InReach
<1>2. ASSUME NEW r \in Request, Settle(r)
      PROVE  InReach'
  <2>1. \A s \in Request : CandidatesOf(s)' = CandidatesOf(s)
    BY <1>2 DEF Settle, ProviderAnswers, AttemptFails, RouteFails, Record, CandidatesOf
  <2>2. CASE AttemptFails(r)
    <3>1. req[r] # None
      BY <2>2 DEF AttemptFails, TypeInv, Staged
    <3> QED
      BY <2>1, <2>2, <3>1, <1>t, LengthType DEF AttemptFails, InReach
  <2>3. CASE ~AttemptFails(r)
    <3>1. UNCHANGED attempt /\ pc'[r] # "routing" /\ \A s \in Request \ {r} : pc'[s] = pc[s]
      BY <1>2, <2>3, <1>t DEF Settle, ProviderAnswers, RouteFails, Record, Answer
    <3> QED
      BY <2>1, <3>1 DEF InReach
  <2> QED
    BY <2>2, <2>3
<1>3. CASE \/ \E s \in KillScopes : FlipKillSwitch(s)
           \/ \E u \in Tenant, s \in Shopper : SlotComesFree(u, s)
           \/ UNCHANGED vars
  BY <1>3 DEF FlipKillSwitch, SlotComesFree, vars, InReach, CandidatesOf
<1> QED
  BY <1>1, <1>2, <1>3 DEF Next

\* A step of its own takes a request through the router as FallThrough says.
LEMMA RouteSettle ==
  ASSUME TypeInv, InReach, NEW r \in Request, Settle(r)
  PROVE  RouteStep(r)
<1>t. /\ pc \in [Request -> {"idle", "routing", "routed", "done"}]
      /\ attempt \in [Request -> Nat]
      /\ verdict \in [Request -> Verdict]
  BY DEF TypeInv, TypeOK
<1>a. UNCHANGED req /\ req[r] # None
  BY DEF Settle, ProviderAnswers, AttemptFails, RouteFails, Record, TypeInv, Staged
<1>b. CandidatesOf(r)' = CandidatesOf(r) /\ Len(CandidatesOf(r)) \in Nat
  BY <1>a, LengthType DEF CandidatesOf
<1>c. ASSUME pc[r] = "routing"
      PROVE  /\ attempt[r] \in Nat \ {0} /\ verdict[r] = "none"
             /\ RouteOutcome(r) = "none"
             /\ RouteLength(r) = Len(CandidatesOf(r))
  <2>1. attempt[r] \in Nat \ {0} /\ verdict[r] = "none"
    BY <1>c, <1>t DEF TypeInv, Tried, Staged
  <2> QED
    BY <1>c, <2>1 DEF RouteOutcome, RouteLength
<1>1. CASE ProviderAnswers(r)
  <2>1. /\ pc[r] = "routing" /\ pc'[r] = "routed" /\ attempt[r] <= Len(CandidatesOf(r))
        /\ UNCHANGED <<attempt, verdict>>
    BY <1>1, <1>t DEF ProviderAnswers
  <2>2. RouteOutcome(r)' = "ok" /\ RouteLength(r)' = RouteLength(r)
    BY <2>1, <1>b, <1>c DEF RouteOutcome, RouteLength
  <2>3. attempt[r] \in 1..RouteLength(r)
    BY <2>1, <1>b, <1>c
  <2> QED
    BY <2>1, <2>2, <2>3, <1>c DEF RouteStep, Route!Next, Route!Succeed
<1>2. CASE AttemptFails(r)
  <2>1. /\ pc[r] = "routing" /\ attempt[r] <= Len(CandidatesOf(r))
        /\ attempt'[r] = attempt[r] + 1
        /\ UNCHANGED <<pc, verdict>>
    BY <1>2, <1>t DEF AttemptFails
  <2>2. attempt[r] \in 1..RouteLength(r) /\ attempt'[r] # 0
    BY <2>1, <1>b, <1>c
  <2>3. RouteOutcome(r)' = "none" /\ RouteLength(r)' = RouteLength(r)
    BY <2>1, <2>2, <1>b, <1>c DEF RouteOutcome, RouteLength
  <2> QED
    BY <2>1, <2>2, <2>3, <1>c DEF RouteStep, Route!Next, Route!FallOn
<1>3. CASE RouteFails(r)
  <2>1. /\ pc[r] = "routing" /\ attempt[r] > Len(CandidatesOf(r))
        /\ pc'[r] = "done" /\ verdict'[r] = "PROVIDER_ERROR"
        /\ UNCHANGED attempt
    BY <1>3, <1>t DEF RouteFails, OutOfCandidates, Answer
  <2>2. attempt[r] = RouteLength(r) + 1
    BY <2>1, <1>b, <1>c DEF InReach
  <2>3. RouteOutcome(r)' = "failed" /\ RouteLength(r)' = RouteLength(r)
    BY <2>1, <1>b, <1>c DEF RouteOutcome, RouteLength
  <2> QED
    BY <2>1, <2>2, <2>3, <1>c DEF RouteStep, Route!Next, Route!Exhaust
<1>4. CASE Record(r)
  <2>1. /\ pc[r] = "routed" /\ pc'[r] = "done"
        /\ verdict[r] = "none" /\ verdict'[r] = "succeeded"
        /\ UNCHANGED attempt
    BY <1>4, <1>t DEF Record, Answer, TypeInv, Staged
  <2>2. RouteOutcome(r)' = RouteOutcome(r) /\ RouteLength(r)' = RouteLength(r)
    BY <2>1, <1>b DEF RouteOutcome, RouteLength
  <2> QED
    BY <2>1, <2>2 DEF RouteStep
<1> QED
  BY <1>1, <1>2, <1>3, <1>4 DEF Settle

\* Taking a request up starts the router or leaves it alone.
LEMMA RouteTakeUp ==
  ASSUME TypeInv, NEW r \in Request, NEW q \in RequestSpace, TakeUp(r, q)
  PROVE  RouteStep(r)
<1>t. /\ pc \in [Request -> {"idle", "routing", "routed", "done"}]
      /\ req \in [Request -> Input \cup {None}]
      /\ attempt \in [Request -> Nat]
  BY DEF TypeInv, TypeOK
<1>1. /\ attempt[r] = 0 /\ q \in Input
      /\ req' = [req EXCEPT ![r] = q]
      /\ AnsweredAtOnce(r, q) \/ ServeFromCache(r, q) \/ StartRouting(r, q)
  BY TakeUpCases, RequestSpaceAssumption DEF Arrive, TypeInv, Staged
<1>2. RouteOutcome(r) = "none" /\ RouteLength(r) = 0
  BY <1>1 DEF RouteOutcome, RouteLength
<1>3. CASE AnsweredAtOnce(r, q) \/ ServeFromCache(r, q)
  <2>1. UNCHANGED attempt
    BY <1>3 DEF AnsweredAtOnce, ServeFromCache
  <2>2. RouteOutcome(r)' = "none" /\ RouteLength(r)' = 0
    BY <2>1, <1>1 DEF RouteOutcome, RouteLength
  <2> QED
    BY <2>1, <2>2, <1>2 DEF RouteStep
<1>4. CASE StartRouting(r, q)
  <2>1. attempt'[r] = 1 /\ pc'[r] = "routing"
    BY <1>4, <1>t DEF StartRouting
  <2>2. Len(CandidatesOf(r)') \in Nat
    BY <1>1, <1>t, CandidatesAssumption DEF CandidatesOf, Input
  <2>3. RouteOutcome(r)' = "none" /\ RouteLength(r)' \in Nat
    BY <2>1, <2>2 DEF RouteOutcome, RouteLength
  <2> QED
    BY <2>1, <2>3, <1>1, <1>2 DEF RouteStep, Route!Next, Route!Start
<1> QED
  BY <1>1, <1>3, <1>4

\* The step of another request, of the operator or of the clock is none of r's.
LEMMA RouteUndisturbed ==
  ASSUME TypeInv, NEW r \in Request,
         pc'[r] = pc[r] /\ attempt'[r] = attempt[r] /\ verdict'[r] = verdict[r],
         req'[r] = req[r]
  PROVE  RouteStep(r)
<1>1. RouteLength(r)' = RouteLength(r)
  BY DEF RouteLength, CandidatesOf
<1>2. RouteOutcome(r)' = RouteOutcome(r)
  BY DEF RouteOutcome
<1> QED
  BY <1>1, <1>2 DEF RouteStep

LEMMA RouteKept ==
  ASSUME TypeInv, InReach, [Next]_vars, NEW r \in Request
  PROVE  RouteStep(r)
<1>t. /\ pc \in [Request -> {"idle", "routing", "routed", "done"}]
      /\ req \in [Request -> Input \cup {None}]
      /\ attempt \in [Request -> Nat]
      /\ verdict \in [Request -> Verdict]
  BY DEF TypeInv, TypeOK
<1>1. ASSUME NEW s \in Request, NEW q \in RequestSpace, TakeUp(s, q), s # r
      PROVE  /\ pc'[r] = pc[r] /\ attempt'[r] = attempt[r] /\ verdict'[r] = verdict[r]
             /\ req'[r] = req[r]
  <2>1. /\ req' = [req EXCEPT ![s] = q]
        /\ AnsweredAtOnce(s, q) \/ ServeFromCache(s, q) \/ StartRouting(s, q)
        /\ \A u \in Request \ {s} : verdict'[u] = verdict[u]
    BY <1>1, TakeUpCases DEF Arrive
  <2> QED
    BY <2>1, <1>1, <1>t DEF AnsweredAtOnce, ServeFromCache, StartRouting
<1>2. ASSUME NEW s \in Request, Settle(s), s # r
      PROVE  /\ pc'[r] = pc[r] /\ attempt'[r] = attempt[r] /\ verdict'[r] = verdict[r]
             /\ req'[r] = req[r]
  BY <1>2, <1>t DEF Settle, ProviderAnswers, AttemptFails, RouteFails, Record, Answer
<1>3. CASE \/ \E s \in KillScopes : FlipKillSwitch(s)
           \/ \E u \in Tenant, s \in Shopper : SlotComesFree(u, s)
           \/ UNCHANGED vars
  <2>1. UNCHANGED <<pc, attempt, verdict, req>>
    BY <1>3 DEF FlipKillSwitch, SlotComesFree, vars
  <2> QED
    BY <2>1, RouteUndisturbed
<1>4. ASSUME NEW s \in Request, Settle(s) \/ \E q \in RequestSpace : TakeUp(s, q)
      PROVE  RouteStep(r)
  BY <1>4, <1>1, <1>2, RouteUndisturbed, RouteTakeUp, RouteSettle
<1> QED
  BY <1>3, <1>4 DEF Next

\* Every request that misses the cache goes through its tenant's candidates one
\* after the other as FallThrough prescribes, whatever all others do meanwhile.
THEOREM EveryRouteFallsThrough == Spec => RoutesFallThrough
<1>1. Spec => []InReach
  <2>1. Init => InReach
    BY DEF Init, InReach
  <2> QED
    BY <2>1, InReachStep, TypeInvariant, PTL DEF Spec
<1>2. TypeInv /\ InReach /\ [Next]_vars =>
        [\A r \in Request : RouteStep(r)]_vars
  BY RouteKept
<1> QED
  BY <1>1, <1>2, TypeInvariant, PTL DEF Spec, RoutesFallThrough
=============================================================================
