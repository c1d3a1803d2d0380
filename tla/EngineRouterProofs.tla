------------------------- MODULE EngineRouterProofs -------------------------
(***************************************************************************)
(* Theorems about EngineRouter, for any providers, registry and allow-list *)
(* and however answers, timers and the caller's abort interleave.          *)
(***************************************************************************)
EXTENDS EngineRouter, FoldLemmas, TLAPS

\* The types the arguments below need.
Typed ==
  /\ attempt \in Nat
  /\ call \in [Place -> {"none", "running", "over"}]
  /\ settled \in [Place -> Settlement]

\* Nothing has happened yet to the attempts that lie ahead.
Ahead ==
  \A i \in Place : i > attempt =>
    /\ settled[i] = "no" /\ call[i] = "none"
    /\ i \notin timers \cup listening

RaceInv == Typed /\ Ahead /\ NothingIsLeftBehind /\ AbandonedCallsAreTold

LEMMA RaceInit == Init => RaceInv
BY DEF Init, RaceInv, Typed, Ahead, NothingIsLeftBehind, AbandonedCallsAreTold, Settlement

LEMMA PlaceType == Place \subseteq Nat \ {0}
BY DEF Place

\* The router moves on to the attempt after the current one, or none.
LEMMA LaunchKeeps ==
  ASSUME RaceInv, attempt' = attempt + 1,
         \/ Launch(attempt + 1)
         \/ UNCHANGED <<call, settled, signalled, timers, listening>>
  PROVE  /\ RaceInv'
         /\ \A j \in Place : settled[j] # "no" => settled'[j] = settled[j]
<1> USE DEF RaceInv, Typed
<1> DEFINE i == attempt + 1
<1>1. CASE UNCHANGED <<call, settled, signalled, timers, listening>>
  <2>1. Ahead'
    BY <1>1, PlaceType DEF Ahead
  <2> QED
    BY <1>1, <2>1 DEF NothingIsLeftBehind, AbandonedCallsAreTold
<1>2. CASE Launch(i)
  <2>1. /\ settled' = settled \/ settled' = [settled EXCEPT ![i] = "cancelled"]
        /\ call' = call \/ call' = [call EXCEPT ![i] = "running"]
        /\ timers' \subseteq timers \cup {i} /\ listening' \subseteq listening \cup {i}
        /\ signalled \subseteq signalled'
        /\ settled' # settled => call' = call /\ timers' = timers /\ listening' = listening
    BY <1>2 DEF Launch
  <2>2. i \in Place => settled[i] = "no" /\ call[i] = "none" /\ i \notin timers \cup listening
    BY DEF Ahead
  <2>3. Typed'
    BY <2>1 DEF Settlement
  <2>4. Ahead'
    BY <2>1, PlaceType DEF Ahead
  <2>5. NothingIsLeftBehind'
    <3> SUFFICES ASSUME NEW j \in Place, settled'[j] # "no"
                 PROVE  j \notin timers' \cup listening'
      BY DEF NothingIsLeftBehind
    <3>1. CASE j = i
      BY <3>1, <2>1, <2>2
    <3>2. CASE j # i
      BY <3>2, <2>1 DEF NothingIsLeftBehind
    <3> QED
      BY <3>1, <3>2
  <2>6. AbandonedCallsAreTold'
    <3> SUFFICES ASSUME NEW j \in Place, call'[j] = "running", settled'[j] # "no"
                 PROVE  j \in signalled'
      BY DEF AbandonedCallsAreTold
    <3>1. CASE j = i
      BY <3>1, <2>1, <2>2
    <3>2. CASE j # i
      BY <3>2, <2>1 DEF AbandonedCallsAreTold
    <3> QED
      BY <3>1, <3>2
  <2> QED
    BY <2>1, <2>2, <2>3, <2>4, <2>5, <2>6
<1> QED
  BY <1>1, <1>2

\* The attempt of place i settles, if it has not already, and whatever else
\* happens to i its provider has ended or has been told to stop.
LEMMA FinishKeeps ==
  ASSUME RaceInv, NEW i, NEW how \in Settlement, Finish(i, how),
         i \in Place => i <= attempt,
         attempt' = attempt,
         call' = call \/ call' = [call EXCEPT ![i] = "over"],
         signalled' = signalled \/ signalled' = signalled \cup {i},
         call' = call => i \in signalled'
  PROVE  /\ RaceInv'
         /\ \A j \in Place : settled[j] # "no" => settled'[j] = settled[j]
<1> USE DEF RaceInv, Typed
<1>1. /\ settled' = settled \/ settled' = [settled EXCEPT ![i] = how]
      /\ settled' # settled => settled[i] = "no" /\ i \notin timers' \cup listening'
      /\ timers' \subseteq timers /\ listening' \subseteq listening
  BY DEF Finish
<1>2. Typed'
  BY <1>1
<1>3. Ahead'
  BY <1>1, PlaceType DEF Ahead
<1>4. NothingIsLeftBehind'
  BY <1>1 DEF NothingIsLeftBehind
<1>5. AbandonedCallsAreTold'
  BY <1>1 DEF AbandonedCallsAreTold
<1> QED
  BY <1>1, <1>2, <1>3, <1>4, <1>5

-----------------------------------------------------------------------------
(* The steps *)

\* Whatever an adapter is sent, it answers, rejects the answer or fails.
LEMMA AnswersAreKnown ==
  ASSUME NEW adapter, NEW reply
  PROVE  Answer(adapter, reply) \in Answers
BY DEF Answer, Answers, FalAnswer, ReplicateAnswer, GoogleVtoAnswer, SelfHostedAnswer, Validated

LEMMA RaceStep ==
  ASSUME RaceInv, [Next]_vars
  PROVE  /\ RaceInv'
         /\ \A j \in Place : settled[j] # "no" => settled'[j] = settled[j]
<1>1. CASE Begin
  <2>1. attempt' = attempt + 1
    BY <1>1 DEF Begin
  <2>2. \/ Launch(attempt + 1)
        \/ UNCHANGED <<call, settled, signalled, timers, listening>>
    BY <1>1 DEF Begin
  <2> QED
    BY <2>1, <2>2, LaunchKeeps
<1>2. CASE TryNext
  BY <1>2, LaunchKeeps DEF TryNext, Advance
<1>3. CASE ReturnResult \/ GiveUp \/ UNCHANGED vars
  BY <1>3 DEF ReturnResult, GiveUp, vars, RaceInv, Typed, Ahead,
              NothingIsLeftBehind, AbandonedCallsAreTold
<1>4. CASE CallerAborts
  <2>1. CASE listening = {}
    BY <1>4, <2>1 DEF CallerAborts, RaceInv, Typed, Ahead,
                      NothingIsLeftBehind, AbandonedCallsAreTold
  <2>2. CASE listening # {}
    <3>1. PICK i \in listening : Cancel(i)
      BY <1>4, <2>2 DEF CallerAborts
    <3>2. i \in Place => i <= attempt
      BY <3>1, PlaceType DEF RaceInv, Typed, Ahead
    <3>3. /\ Finish(i, "cancelled") /\ signalled' = signalled \cup {i}
          /\ attempt' = attempt /\ call' = call
      BY <1>4, <3>1 DEF CallerAborts, Cancel
    <3> QED
      BY <3>2, <3>3, FinishKeeps DEF Settlement
  <2> QED
    BY <2>1, <2>2
<1>5. ASSUME NEW i \in Place, ProviderEnds(i)
      PROVE  /\ RaceInv'
             /\ \A j \in Place : settled[j] # "no" => settled'[j] = settled[j]
  <2>1. PICK how \in Answers : Finish(i, how)
    BY <1>5, AnswersAreKnown DEF ProviderEnds, Answers
  <2>2. i <= attempt
    BY <1>5, PlaceType DEF ProviderEnds, RaceInv, Typed, Ahead
  <2>3. /\ attempt' = attempt /\ signalled' = signalled
        /\ call' = [call EXCEPT ![i] = "over"] /\ call' # call
    BY <1>5 DEF ProviderEnds, RaceInv, Typed
  <2> QED
    BY <2>1, <2>2, <2>3, FinishKeeps DEF Settlement
<1>6. ASSUME NEW i \in Place, TimerFires(i)
      PROVE  /\ RaceInv'
             /\ \A j \in Place : settled[j] # "no" => settled'[j] = settled[j]
  <2>1. i <= attempt
    BY <1>6, PlaceType DEF TimerFires, RaceInv, Typed, Ahead
  <2>2. /\ Finish(i, "timeout") /\ signalled' = signalled \cup {i}
        /\ attempt' = attempt /\ call' = call
    BY <1>6 DEF TimerFires
  <2> QED
    BY <2>1, <2>2, FinishKeeps DEF Settlement
<1> QED
  BY <1>1, <1>2, <1>3, <1>4, <1>5, <1>6 DEF Next

LEMMA RaceInvariant == Spec => []RaceInv
<1>1. RaceInv /\ [Next]_vars => RaceInv'
  BY RaceStep
<1> QED
  BY <1>1, RaceInit, PTL DEF Spec

-----------------------------------------------------------------------------
(* The theorems *)

\* A settled attempt keeps neither a timer nor a listener (finish in
\* router_timeout.ts clears both), for any number of candidates.
THEOREM SettledAttemptsAreClean == Spec => []NothingIsLeftBehind
<1>1. RaceInv => NothingIsLeftBehind
  BY DEF RaceInv
<1> QED
  BY <1>1, RaceInvariant, PTL

\* A provider that runs on after its attempt settled was told to stop through
\* the signal it was called with (controller.abort in router_timeout.ts).
THEOREM AbandonedProvidersAreTold == Spec => []AbandonedCallsAreTold
<1>1. RaceInv => AbandonedCallsAreTold
  BY DEF RaceInv
<1> QED
  BY <1>1, RaceInvariant, PTL

\* How an attempt settled is final: a late answer, timer or abort changes
\* nothing about it, nor does the router by moving on.
THEOREM SettlementIsFinal == Spec => FirstSettlementWins
<1>1. RaceInv /\ [Next]_vars =>
        [\A i \in Place : settled[i] # "no" => settled'[i] = settled[i]]_vars
  BY RaceStep
<1> QED
  BY <1>1, RaceInvariant, PTL DEF Spec, FirstSettlementWins

\* No provider is called for a caller that has aborted (the early return of
\* runWithTimeout on an aborted signal).
THEOREM AbortStopsNewCalls == Spec => NoCallAfterCallerAborts
<1>1. ASSUME RaceInv, Next, aborted, NEW j \in Place, call[j] = "none"
      PROVE  call'[j] = "none"
  <2>1. CASE Begin \/ TryNext
    BY <1>1, <2>1 DEF Begin, TryNext, Launch
  <2>2. CASE ReturnResult \/ GiveUp \/ CallerAborts
    BY <1>1, <2>2 DEF ReturnResult, GiveUp, CallerAborts
  <2>3. ASSUME NEW i \in Place, ProviderEnds(i) \/ TimerFires(i)
        PROVE  call'[j] = "none"
    BY <1>1, <2>3 DEF ProviderEnds, TimerFires, RaceInv, Typed
  <2> QED
    BY <1>1, <2>1, <2>2, <2>3 DEF Next
<1>2. RaceInv /\ [Next]_vars =>
        [aborted => \A i \in Place : call[i] = "none" => call'[i] = "none"]_vars
  BY <1>1
<1> QED
  BY <1>2, RaceInvariant, PTL DEF Spec, NoCallAfterCallerAborts
-----------------------------------------------------------------------------
(* The order *)

\* compareCandidates is a strict total order on the providers (router_ordering.ts:
\* "so the order is fully deterministic"): irreflexive, transitive, and any two
\* distinct providers are ordered, because their ids differ.
THEOREM OrderIsTotal ==
  ASSUME NEW p \in Provider, NEW q \in Provider, NEW r \in Provider
  PROVE  /\ ~Before(p, p)
         /\ Before(p, q) /\ Before(q, r) => Before(p, r)
         /\ p # q => Before(p, q) \/ Before(q, p)
<1>1. \A x \in Provider : CostPerCall[x] \in Nat /\ Priority[x] \in Nat /\ IdRank[x] \in Nat
  BY RoutingAssumption
<1>2. ~Before(p, p)
  BY <1>1 DEF Before
<1>3. Before(p, q) /\ Before(q, r) => Before(p, r)
  BY <1>1 DEF Before
<1>4. p # q => Before(p, q) \/ Before(q, p)
  BY <1>1, IdsDiffer DEF Before
<1> QED
  BY <1>2, <1>3, <1>4

-----------------------------------------------------------------------------
(* The candidates *)

\* An entry of the allow-list adds its provider if that is registered and new.
LEMMA ConsiderAdds ==
  ASSUME NEW w, NEW c \in Seq(Provider), NEW p \in Provider
  PROVE  /\ Consider(w, c, p) \in Seq(Provider)
         /\ ToSet(Consider(w, c, p)) = ToSet(c) \cup ({p} \cap Registered(w))
         /\ IsInjective(c) => IsInjective(Consider(w, c, p))
<1>1. CASE p \in Registered(w) /\ ~Contains(c, p)
  <2> DEFINE d == Append(c, p)
  <2>1. Consider(w, c, p) = d
    BY <1>1 DEF Consider
  <2>2. /\ d \in Seq(Provider) /\ Len(c) \in Nat
        /\ DOMAIN c = 1..Len(c) /\ DOMAIN d = 1..Len(c) + 1
        /\ \A i \in DOMAIN c : d[i] = c[i]
        /\ d[Len(c) + 1] = p
    OBVIOUS
  <2>3. \A i \in DOMAIN c : c[i] # p
    BY <1>1, <2>2 DEF Contains
  <2>4. DOMAIN d = DOMAIN c \cup {Len(c) + 1} /\ Len(c) + 1 \notin DOMAIN c
    BY <2>2
  <2> HIDE DEF d
  <2>5. ToSet(d) = ToSet(c) \cup {p}
    BY <2>2, <2>4 DEF ToSet
  <2>6. IsInjective(c) => IsInjective(d)
    BY <2>2, <2>3, <2>4 DEF IsInjective
  <2> QED
    BY <1>1, <2>1, <2>2, <2>5, <2>6
<1>2. CASE ~(p \in Registered(w) /\ ~Contains(c, p))
  <2>1. Consider(w, c, p) = c
    BY <1>2 DEF Consider
  <2>2. p \in Registered(w) => p \in ToSet(c)
    BY <1>2 DEF Contains, ToSet
  <2> QED
    BY <2>1, <2>2
<1> QED
  BY <1>1, <1>2

\* The loop over the allow-list, entry by entry.
LEMMA EligibleChain ==
  ASSUME NEW list \in Seq(Provider), NEW w
  PROVE  \E c \in [0..Len(list) -> Seq(Provider)] :
           /\ c[0] = << >>
           /\ \A i \in 1..Len(list) : c[i] = Consider(w, c[i - 1], list[i])
           /\ c[Len(list)] = Eligible(list, w)
<1> DEFINE n == Len(list)
           V == Seq(Provider)
           S == 1..n
           step == [x \in S \X V |-> Consider(w, x[2], list[x[1]])]
           Solved(h) == [T \in SUBSET S |->
                           IF T = {} THEN << >>
                           ELSE Consider(w, h[T \ {Max(T)}], list[Max(T)])]
           g == CHOOSE h : h = Solved(h)
<1>1. n \in Nat /\ DOMAIN list = S /\ << >> \in V /\ \A i \in S : list[i] \in Provider
  OBVIOUS
<1>2. step \in [S \X V -> V]
  BY <1>1, ConsiderAdds
<1>3. PICK it \in [SUBSET S -> V] : LeftFolds(it, n, << >>, step)
  <2> HIDE DEF n, V, step
  <2> QED
    BY <1>1, <1>2, LeftFoldExists
<1>4. \A T \in SUBSET S : T # {} => Max(T) \in T /\ T \ {Max(T)} \in SUBSET S
  BY <1>1, MaxPicks
<1>5. /\ it[{}] = << >>
      /\ \A T \in SUBSET S : T # {} =>
           it[T] = Consider(w, it[T \ {Max(T)}], list[Max(T)])
  BY <1>3, <1>4 DEF LeftFolds
<1>6. it = Solved(it)
  BY <1>5
<1>7. g = Solved(g)
  BY <1>6, Zenon
<1>8. Eligible(list, w) = g[S]
  BY <1>1 DEF Eligible, FoldLeft, MapThenFoldSet
<1>9. g[S] = it[S]
  <2>1. /\ g[{}] = << >>
        /\ \A T \in SUBSET S : T # {} =>
             g[T] = Consider(w, g[T \ {Max(T)}], list[Max(T)])
    BY <1>7
  <2> HIDE DEF g
  <2>2. Alike(g, it, S, [T \in SUBSET S |-> Max(T)])
    BY <1>5, <2>1 DEF Alike
  <2> HIDE DEF n
  <2> QED
    BY <1>1, <2>2, LeftFoldsAgree
<1>10. /\ it[1..0] = << >>
       /\ \A i \in S : it[1..i] = step[<<i, it[1..(i - 1)]>>]
  <2> HIDE DEF n, step
  <2>1. Climbs(it, n, << >>, step)
    BY <1>1, <1>3, LeftFoldClimbs
  <2> QED
    BY <2>1 DEF Climbs
<1> DEFINE c == [i \in 0..n |-> it[1..i]]
<1>11. c \in [0..n -> V]
  BY <1>1, <1>3
<1>12. ASSUME NEW i \in S PROVE c[i] = Consider(w, c[i - 1], list[i])
  <2>1. i \in 0..n /\ i - 1 \in 0..n
    BY <1>1
  <2>2. c[i] = it[1..i] /\ c[i - 1] = it[1..(i - 1)] /\ c[i - 1] \in V
    BY <2>1, <1>11
  <2> QED
    BY <1>10, <2>2
<1>13. c[0] = << >> /\ c[n] = it[S]
  BY <1>1, <1>10
<1> QED
  BY <1>8, <1>9, <1>11, <1>12, <1>13

\* What the loop leaves: each listed and registered provider, once.
LEMMA EligibleOnce ==
  ASSUME NEW list \in Seq(Provider), NEW w
  PROVE  /\ Eligible(list, w) \in Seq(Provider)
         /\ IsInjective(Eligible(list, w))
         /\ ToSet(Eligible(list, w)) = ToSet(list) \cap Registered(w)
<1> DEFINE n == Len(list)
<1>0. n \in Nat /\ \A i \in 1..n : list[i] \in Provider
  OBVIOUS
<1>1. PICK c \in [0..n -> Seq(Provider)] :
        /\ c[0] = << >>
        /\ \A i \in 1..n : c[i] = Consider(w, c[i - 1], list[i])
        /\ c[n] = Eligible(list, w)
  BY EligibleChain
<1> DEFINE Seen(i) == {list[j] : j \in 1..i}
           P == {i \in Nat : i <= n =>
                   /\ IsInjective(c[i])
                   /\ ToSet(c[i]) = Seen(i) \cap Registered(w)}
<1>2. 0 \in P
  <2>1. c[0] = << >> /\ Seen(0) = {}
    BY <1>1
  <2> QED
    BY <2>1 DEF IsInjective, ToSet
<1>3. ASSUME NEW i \in Nat, i \in P PROVE i + 1 \in P
  <2> SUFFICES ASSUME i + 1 <= n
               PROVE  /\ IsInjective(c[i + 1])
                      /\ ToSet(c[i + 1]) = Seen(i + 1) \cap Registered(w)
    OBVIOUS
  <2>1. i + 1 \in 1..n /\ i \in 0..n
    BY <1>0
  <2>2. c[i + 1] = Consider(w, c[i], list[i + 1])
    <3>1. (i + 1) - 1 = i
      OBVIOUS
    <3> QED
      BY <1>1, <2>1, <3>1
  <2>3. c[i] \in Seq(Provider) /\ list[i + 1] \in Provider
    BY <1>0, <1>1, <2>1
  <2>4. Seen(i + 1) = Seen(i) \cup {list[i + 1]}
    <3>1. 1..(i + 1) = (1..i) \cup {i + 1}
      OBVIOUS
    <3> QED
      BY <3>1
  <2>5. IsInjective(c[i]) /\ ToSet(c[i]) = Seen(i) \cap Registered(w)
    BY <1>3, <2>1
  <2> HIDE DEF Seen
  <2>6. /\ ToSet(c[i + 1]) = ToSet(c[i]) \cup ({list[i + 1]} \cap Registered(w))
        /\ IsInjective(c[i + 1])
    BY <2>2, <2>3, <2>5, ConsiderAdds
  <2> QED
    BY <2>4, <2>5, <2>6
<1>4. Nat \subseteq P
  <2> HIDE DEF P
  <2> QED
    BY <1>2, <1>3, Induction
<1>5. Seen(n) = ToSet(list)
  BY DEF ToSet
<1>6. n \in P /\ n <= n /\ n \in 0..n
  <2> HIDE DEF P
  <2> QED
    BY <1>0, <1>4
<1> QED
  BY <1>1, <1>5, <1>6

\* How many members of E come before one of them says which, and puts the
\* members in order.
Ranks(E) == [p \in E |-> 1 + Cardinality({q \in E : Before(q, p)})]

LEMMA Ranking ==
  ASSUME NEW E \in SUBSET Provider, IsFiniteSet(E)
  PROVE  /\ Cardinality(E) \in Nat
         /\ Ranks(E) \in [E -> 1..Cardinality(E)]
         /\ \A p, q \in E : Ranks(E)[p] = Ranks(E)[q] => p = q
         /\ \A p, q \in E : Ranks(E)[p] < Ranks(E)[q] => Before(p, q)
         /\ \A i \in 1..Cardinality(E) : \E p \in E : Ranks(E)[p] = i
<1> DEFINE n == Cardinality(E)
           Below(p) == {q \in E : Before(q, p)}
           place == [p \in E |-> 1 + Cardinality(Below(p))]
<1>1. n \in Nat /\ \A p \in E : IsFiniteSet(Below(p)) /\ Cardinality(Below(p)) \in Nat
  BY FS_CardinalityType, FS_Subset
<1>2. ASSUME NEW p \in E PROVE Cardinality(Below(p)) < n
  <2>1. p \notin Below(p)
    BY OrderIsTotal
  <2>2. Below(p) \in SUBSET E /\ Below(p) # E
    BY <2>1
  <2> HIDE DEF Below
  <2> QED
    BY <1>1, <2>2, FS_Subset
<1>3. ASSUME NEW p \in E, NEW q \in E, Before(p, q)
      PROVE  Cardinality(Below(p)) < Cardinality(Below(q))
  <2>1. Below(p) \subseteq Below(q)
    BY <1>3, OrderIsTotal
  <2>2. p \in Below(q) /\ p \notin Below(p)
    BY <1>3, OrderIsTotal
  <2> HIDE DEF Below
  <2>3. Below(p) \in SUBSET Below(q) /\ Below(p) # Below(q)
    BY <2>1, <2>2
  <2> QED
    BY <1>1, <2>3, FS_Subset
<1> HIDE DEF Below
<1>4. place \in [E -> 1..n]
  BY <1>1, <1>2
<1>5. \A p, q \in E : Before(p, q) => place[p] < place[q]
  BY <1>1, <1>3
<1>6. \A p, q \in E : p = q \/ Before(p, q) \/ Before(q, p)
  BY OrderIsTotal
<1>7. \A p \in E : place[p] \in Int
  BY <1>1
<1>8. place = Ranks(E)
  BY DEF Ranks, Below
<1> HIDE DEF place
<1>9. /\ \A p, q \in E : place[p] = place[q] => p = q
      /\ \A p, q \in E : place[p] < place[q] => Before(p, q)
  BY <1>5, <1>6, <1>7
<1>10. \A i \in 1..n : \E p \in E : place[p] = i
  <2>1. place \in Injection(E, 1..n)
    BY <1>4, <1>9 DEF Injection, IsInjective
  <2>2. IsFiniteSet(1..n) /\ Cardinality(1..n) = n
    BY <1>1, FS_Interval
  <2>3. place \in Surjection(E, 1..n)
    BY <2>1, <2>2, FS_Injection
  <2> QED
    BY <2>3 DEF Surjection
<1> QED
  BY <1>1, <1>4, <1>8, <1>9, <1>10

\* A sequence without repetition is as long as its set of members is large.
LEMMA MembersCounted ==
  ASSUME NEW c \in Seq(Provider), IsInjective(c)
  PROVE  /\ IsFiniteSet(ToSet(c)) /\ ToSet(c) \in SUBSET Provider
         /\ Cardinality(ToSet(c)) = Len(c)
<1>1. Len(c) \in Nat /\ DOMAIN c = 1..Len(c) /\ c \in [1..Len(c) -> Provider]
  OBVIOUS
<1>2. ToSet(c) \in SUBSET Provider
  BY <1>1 DEF ToSet
<1>3. c \in Bijection(1..Len(c), ToSet(c))
  BY <1>1 DEF Bijection, Injection, Surjection, IsInjective, ToSet
<1>4. IsFiniteSet(1..Len(c)) /\ Cardinality(1..Len(c)) = Len(c)
  BY <1>1, FS_Interval
<1>5. ExistsBijection(1..Len(c), ToSet(c))
  BY <1>3 DEF ExistsBijection
<1> QED
  BY <1>2, <1>4, <1>5, FS_Bijection

\* The sort keeps the members, puts each before those that come after it, and
\* depends on nothing but the members.
LEMMA SortedOrders ==
  ASSUME NEW c \in Seq(Provider), IsInjective(c)
  PROVE  /\ Sorted(c) \in Seq(Provider)
         /\ Len(Sorted(c)) = Len(c)
         /\ ToSet(Sorted(c)) = ToSet(c)
         /\ \A i, j \in 1..Len(c) : i < j => Before(Sorted(c)[i], Sorted(c)[j])
<1> DEFINE E == ToSet(c)
           n == Len(c)
           s == Sorted(c)
<1>1. n \in Nat /\ DOMAIN c = 1..n /\ IsFiniteSet(E) /\ E \in SUBSET Provider /\ Cardinality(E) = n
  BY MembersCounted
<1>2. s = [i \in 1..n |-> CHOOSE p \in E : Ranks(E)[p] = i]
  BY <1>1 DEF Sorted, Ranks
<1> HIDE DEF E, n
<1>3. /\ Ranks(E) \in [E -> 1..n]
      /\ \A p, q \in E : Ranks(E)[p] = Ranks(E)[q] => p = q
      /\ \A p, q \in E : Ranks(E)[p] < Ranks(E)[q] => Before(p, q)
      /\ \A i \in 1..n : \E p \in E : Ranks(E)[p] = i
  BY <1>1, Ranking
<1>4. ASSUME NEW i \in 1..n PROVE s[i] \in E /\ Ranks(E)[s[i]] = i
  <2>1. \E p \in E : Ranks(E)[p] = i
    BY <1>3
  <2>2. s[i] = CHOOSE p \in E : Ranks(E)[p] = i
    BY <1>2
  <2> HIDE DEF s
  <2> QED
    BY <2>1, <2>2, Zenon
<1>5. DOMAIN s = 1..n
  BY <1>2
<1>6. s = [i \in 1..n |-> s[i]]
  BY <1>2
<1> HIDE DEF s
<1>7. s \in Seq(Provider) /\ Len(s) = n
  <2>1. \A i \in 1..n : s[i] \in Provider
    BY <1>1, <1>4
  <2> QED
    BY <1>1, <1>6, <2>1
<1>8. ASSUME NEW p \in E PROVE \E i \in 1..n : s[i] = p
  <2>1. Ranks(E)[p] \in 1..n
    BY <1>3
  <2> QED
    BY <1>3, <1>4, <2>1
<1>9. ToSet(s) = E
  BY <1>4, <1>5, <1>8 DEF ToSet
<1>10. \A i, j \in 1..n : i < j => Before(s[i], s[j])
  BY <1>3, <1>4
<1> QED
  BY <1>7, <1>9, <1>10 DEF s, n, E

LEMMA SortedOfMembers ==
  ASSUME NEW c \in Seq(Provider), IsInjective(c), NEW d \in Seq(Provider), IsInjective(d),
         ToSet(c) = ToSet(d)
  PROVE  Sorted(c) = Sorted(d)
<1>1. Len(c) = Len(d) /\ DOMAIN c = 1..Len(c) /\ DOMAIN d = 1..Len(d)
  BY MembersCounted
<1>2. DOMAIN c = DOMAIN d
  BY <1>1
<1>3. /\ Sorted(c) = [i \in DOMAIN c |-> CHOOSE p \in ToSet(c) : Ranks(ToSet(c))[p] = i]
      /\ Sorted(d) = [i \in DOMAIN d |-> CHOOSE p \in ToSet(d) : Ranks(ToSet(d))[p] = i]
  BY DEF Sorted, Ranks
<1> QED
  BY <1>2, <1>3

\* The call keeps its allow-list, its registry and what it made of them.
CandidatesInv ==
  /\ allowed \in AllowLists
  /\ candidates = OrderCandidates(allowed, wired)

LEMMA CandidatesInvariant == Spec => []CandidatesInv
<1>1. Init => CandidatesInv
  BY DEF Init, CandidatesInv
<1>2. CandidatesInv /\ [Next]_vars => CandidatesInv'
  BY DEF CandidatesInv, Next, Begin, ReturnResult, TryNext, GiveUp, CallerAborts,
     ProviderEnds, TimerFires, vars
<1> QED
  BY <1>1, <1>2, PTL DEF Spec

LEMMA ListsAreSequences == AllowLists \subseteq Seq(Provider)
BY BoundAssumption DEF AllowLists

LEMMA CandidatesTyped == CandidatesInv => candidates \in Seq(Provider) /\ Length \in Nat
<1> SUFFICES ASSUME CandidatesInv PROVE candidates \in Seq(Provider) /\ Length \in Nat
  OBVIOUS
<1>1. candidates \in Seq(Provider)
  BY ListsAreSequences, EligibleOnce, SortedOrders DEF CandidatesInv, OrderCandidates
<1> QED
  BY <1>1 DEF Length

\* For every allow-list, in any order and with any repetitions, and whatever is
\* wired, the router tries exactly the providers that are listed and registered,
\* each once, the cheaper before the dearer, in an order that depends only on
\* which they are (orderCandidates, router_ordering.ts:37).
THEOREM CandidatesAreRight == Spec => []CandidatesAreCanonical
<1>1. ASSUME CandidatesInv PROVE CandidatesAreCanonical
  <2> DEFINE e == Eligible(allowed, wired)
  <2>1. allowed \in Seq(Provider) /\ candidates = Sorted(e)
    BY <1>1, ListsAreSequences DEF CandidatesInv, OrderCandidates
  <2>2. /\ e \in Seq(Provider) /\ IsInjective(e)
        /\ ToSet(e) = ToSet(allowed) \cap Registered(wired)
    BY <2>1, EligibleOnce
  <2> HIDE DEF e
  <2>3. /\ candidates \in Seq(Provider) /\ Length = Len(e) /\ ToSet(candidates) = ToSet(e)
        /\ \A i, j \in 1..Len(e) : i < j => Before(candidates[i], candidates[j])
    BY <2>1, <2>2, SortedOrders DEF Length
  <2>4. Length = Cardinality(ToSet(candidates))
    BY <2>2, <2>3, MembersCounted
  <2>5. ASSUME NEW list \in AllowLists, ToSet(list) = ToSet(allowed)
        PROVE  OrderCandidates(list, wired) = candidates
    <3>1. list \in Seq(Provider)
      BY ListsAreSequences
    <3>2. /\ Eligible(list, wired) \in Seq(Provider) /\ IsInjective(Eligible(list, wired))
          /\ ToSet(Eligible(list, wired)) = ToSet(e)
      BY <2>2, <2>5, <3>1, EligibleOnce
    <3> QED
      BY <2>1, <2>2, <3>2, SortedOfMembers DEF OrderCandidates
  <2>6. ASSUME NEW i \in Candidate, NEW j \in Candidate, i < j
        PROVE  CostPerCall[candidates[i]] <= CostPerCall[candidates[j]]
    <3>1. Before(candidates[i], candidates[j])
      BY <2>3, <2>6 DEF Candidate
    <3>2. candidates[i] \in Provider /\ candidates[j] \in Provider
      BY <2>3, <2>6 DEF Candidate, Length
    <3>3. CostPerCall[candidates[i]] \in Nat /\ CostPerCall[candidates[j]] \in Nat
      BY <3>2, RoutingAssumption
    <3> QED
      BY <3>1, <3>3 DEF Before
  <2> QED
    BY <2>2, <2>3, <2>4, <2>5, <2>6 DEF CandidatesAreCanonical
<1> QED
  BY <1>1, CandidatesInvariant, PTL

-----------------------------------------------------------------------------
(* The fall-through *)

\* The call keeps the candidates it began with.
LEMMA LengthStays == Next => Length' = Length
BY DEF Next, Begin, ReturnResult, TryNext, GiveUp, CallerAborts, ProviderEnds,
       TimerFires, Length

\* Every step of a call, with its timers, late answers and aborts, is a step of
\* the plain fall-through or leaves it alone.
THEOREM RouterFallsThrough == Spec => ImplementsFallThrough
<1> DEFINE length == IF attempt = 0 THEN 0 ELSE Length
<1>1. Init => Abstract!Init
  BY DEF Init, Abstract!Init
<1>2. ASSUME Length \in Nat, [Next]_vars
      PROVE  [Abstract!Next]_<<length, attempt, outcome>>
  <2>1. CASE UNCHANGED vars
    BY <2>1 DEF vars, Length
  <2>2. CASE Next
    <3>0. Length' = Length
      BY <2>2, LengthStays
    <3>1. CASE Begin
      BY <1>2, <3>0, <3>1 DEF Begin, Abstract!Next, Abstract!Start
    <3>2. CASE TryNext
      BY <1>2, <3>0, <3>2 DEF TryNext, Awaited, Advance, Candidate, Abstract!Next, Abstract!FallOn
    <3>3. CASE ReturnResult
      BY <1>2, <3>0, <3>3 DEF ReturnResult, Awaited, Candidate, Abstract!Next, Abstract!Succeed
    <3>4. CASE GiveUp
      BY <1>2, <3>0, <3>4 DEF GiveUp, Abstract!Next, Abstract!Exhaust
    <3>5. CASE CallerAborts \/ \E i \in Place : ProviderEnds(i) \/ TimerFires(i)
      BY <3>0, <3>5 DEF CallerAborts, ProviderEnds, TimerFires
    <3> QED
      BY <2>2, <3>1, <3>2, <3>3, <3>4, <3>5 DEF Next
  <2> QED
    BY <1>2, <2>1, <2>2
<1>3. CandidatesInv => Length \in Nat
  BY CandidatesTyped
<1> QED
  BY <1>1, <1>2, <1>3, CandidatesInvariant, PTL DEF Spec, ImplementsFallThrough, Abstract!Spec
=============================================================================
