-------------------------- MODULE CacheStoreProofs --------------------------
(***************************************************************************)
(* Theorems about CacheStore: it implements BoundedCache, it holds no more *)
(* than its capacity, what it answers is fresh, and a put evicts the least *)
(* recently used key.  The Map's order is a sequence; the proofs look at   *)
(* it as the set of entries it holds, and for recency as an order of them. *)
(***************************************************************************)
EXTENDS CacheStore, SequenceTheorems, FunctionTheorems, FiniteSetTheorems, TLAPS

Held(s) == {s[i] : i \in 1..Len(s)}

\* A sequence of entries with one entry of a key at most.
OnePerKey(s) ==
  /\ s \in Seq(Entry)
  /\ \A i, j \in 1..Len(s) : s[i].key = s[j].key => i = j

\* What the keys of s hold; of entries, what CacheStore maps to BoundedCache.
ShownOf(s) == [k \in Key |-> IF Holds(s, k) THEN s[Position(s, k)].value ELSE Absent]

-----------------------------------------------------------------------------
(* Sequences of entries *)

LEMMA RemoveAtFacts ==
  ASSUME NEW S, NEW s \in Seq(S), NEW p \in 1..Len(s)
  PROVE  /\ RemoveAt(s, p) \in Seq(S)
         /\ Len(RemoveAt(s, p)) = Len(s) - 1
         /\ \A i \in 1..(Len(s) - 1) :
              RemoveAt(s, p)[i] = IF i < p THEN s[i] ELSE s[i + 1]
<1> DEFINE a == SubSeq(s, 1, p - 1)
           b == SubSeq(s, p + 1, Len(s))
<1>1. Len(s) \in Nat /\ p \in Nat /\ \A i \in 1..Len(s) : s[i] \in S
  BY ElementOfSeq, LenProperties
<1>2. a \in Seq(S) /\ Len(a) = p - 1 /\ \A i \in 1..(p - 1) : a[i] = s[i]
  <2>1. \A i \in 1..(p - 1) : s[i] \in S
    BY <1>1
  <2>2. /\ a \in Seq(S) /\ Len(a) = IF 1 <= p - 1 THEN (p - 1) - 1 + 1 ELSE 0
        /\ \A i \in 1..((p - 1) - 1 + 1) : a[i] = s[1 + i - 1]
    BY <1>1, <2>1, SubSeqProperties
  <2> HIDE DEF a
  <2> QED
    BY <1>1, <2>2
<1>3. /\ b \in Seq(S) /\ Len(b) = Len(s) - p
      /\ \A i \in 1..(Len(s) - p) : b[i] = s[p + i]
  <2>1. \A i \in (p + 1)..Len(s) : s[i] \in S
    BY <1>1
  <2>2. /\ b \in Seq(S) /\ Len(b) = IF p + 1 <= Len(s) THEN Len(s) - (p + 1) + 1 ELSE 0
        /\ \A i \in 1..(Len(s) - (p + 1) + 1) : b[i] = s[(p + 1) + i - 1]
    BY <1>1, <2>1, SubSeqProperties
  <2> HIDE DEF b
  <2> QED
    BY <1>1, <2>2
<1>4. RemoveAt(s, p) = a \o b
  BY DEF RemoveAt
<1> HIDE DEF a, b
<1>5. /\ a \o b \in Seq(S) /\ Len(a \o b) = Len(a) + Len(b)
      /\ \A i \in 1..(Len(a) + Len(b)) :
           (a \o b)[i] = IF i <= Len(a) THEN a[i] ELSE b[i - Len(a)]
  BY <1>2, <1>3, ConcatProperties
<1>6. ASSUME NEW i \in 1..(Len(s) - 1)
      PROVE  (a \o b)[i] = IF i < p THEN s[i] ELSE s[i + 1]
  <2>1. (a \o b)[i] = IF i <= p - 1 THEN a[i] ELSE b[i - (p - 1)]
    BY <1>1, <1>2, <1>3, <1>5
  <2>2. CASE i < p
    BY <1>1, <1>2, <2>1, <2>2
  <2>3. CASE ~(i < p)
    <3>1. i - (p - 1) \in 1..(Len(s) - p) /\ p + (i - (p - 1)) = i + 1
      BY <1>1, <2>3
    <3>2. b[i - (p - 1)] = s[p + (i - (p - 1))]
      BY <1>3, <3>1
    <3> QED
      BY <1>1, <2>1, <2>3, <3>1, <3>2
  <2> QED
    BY <2>2, <2>3
<1> QED
  BY <1>1, <1>2, <1>3, <1>4, <1>5, <1>6

\* What is found under a key is the entry of that key.
LEMMA FindFacts ==
  ASSUME NEW s, OnePerKey(s), NEW k
  PROVE  /\ Holds(s, k) <=> \E e \in Held(s) : e.key = k
         /\ Holds(s, k) =>
              /\ Position(s, k) \in 1..Len(s) /\ s[Position(s, k)].key = k
              /\ s[Position(s, k)] \in Held(s)
              /\ \A i \in 1..Len(s) : s[i].key = k => i = Position(s, k)
<1>1. Holds(s, k) <=> \E e \in Held(s) : e.key = k
  BY DEF Holds, Held
<1>2. ASSUME Holds(s, k)
      PROVE  Position(s, k) \in 1..Len(s) /\ s[Position(s, k)].key = k
  BY <1>2 DEF Holds, Position
<1> QED
  BY <1>1, <1>2 DEF OnePerKey, Held

LEMMA WithoutFacts ==
  ASSUME NEW s, OnePerKey(s), NEW k
  PROVE  /\ OnePerKey(Without(s, k))
         /\ Held(Without(s, k)) = {e \in Held(s) : e.key # k}
         /\ Len(Without(s, k)) = IF Holds(s, k) THEN Len(s) - 1 ELSE Len(s)
<1>1. CASE ~Holds(s, k)
  BY <1>1 DEF Without, Holds, Held
<1>2. CASE Holds(s, k)
  <2> DEFINE p == Position(s, k)
             w == RemoveAt(s, p)
  <2>1. /\ p \in 1..Len(s) /\ s[p].key = k
        /\ \A i \in 1..Len(s) : s[i].key = k => i = p
    BY <1>2, FindFacts
  <2>2. s \in Seq(Entry) /\ Len(s) \in Nat
    BY DEF OnePerKey
  <2> HIDE DEF p
  <2>3. /\ w \in Seq(Entry) /\ Len(w) = Len(s) - 1
        /\ \A i \in 1..(Len(s) - 1) : w[i] = IF i < p THEN s[i] ELSE s[i + 1]
    BY <2>1, <2>2, RemoveAtFacts
  <2>4. Without(s, k) = w
    BY <1>2 DEF Without, p
  <2> HIDE DEF w
  <2> DEFINE from(i) == IF i < p THEN i ELSE i + 1
  <2>5. \A i \in 1..Len(w) : from(i) \in 1..Len(s) /\ from(i) # p /\ w[i] = s[from(i)]
    BY <2>1, <2>2, <2>3
  <2>6. \A i, j \in 1..Len(w) : from(i) = from(j) => i = j
    BY <2>1, <2>2, <2>3
  <2>7. \A j \in 1..Len(s) : j # p => \E i \in 1..Len(w) : w[i] = s[j]
    <3> SUFFICES ASSUME NEW j \in 1..Len(s), j # p PROVE \E i \in 1..Len(w) : w[i] = s[j]
      OBVIOUS
    <3>1. CASE j < p
      <4>1. j \in 1..Len(w) /\ w[j] = s[j]
        BY <2>1, <2>2, <2>3, <3>1
      <4> QED
        BY <4>1
    <3>2. CASE ~(j < p)
      <4>1. j - 1 \in 1..Len(w) /\ ~(j - 1 < p) /\ (j - 1) + 1 = j
        BY <2>1, <2>2, <2>3, <3>2
      <4>2. w[j - 1] = s[j]
        BY <2>3, <4>1
      <4> QED
        BY <4>1, <4>2
    <3> QED
      BY <3>1, <3>2
  <2> HIDE DEF from
  <2>8. OnePerKey(w)
    BY <2>3, <2>5, <2>6 DEF OnePerKey
  <2>9. Held(w) = {e \in Held(s) : e.key # k}
    <3>1. \A e \in Held(w) : e \in Held(s) /\ e.key # k
      BY <2>1, <2>5 DEF Held
    <3>2. \A e \in Held(s) : e.key # k => e \in Held(w)
      BY <2>1, <2>7 DEF Held
    <3> QED
      BY <3>1, <3>2
  <2> QED
    BY <1>2, <2>3, <2>4, <2>8, <2>9
<1> QED
  BY <1>1, <1>2

LEMMA AppendFacts ==
  ASSUME NEW s, OnePerKey(s), NEW e \in Entry, \A x \in Held(s) : x.key # e.key
  PROVE  /\ OnePerKey(Append(s, e))
         /\ Held(Append(s, e)) = Held(s) \cup {e}
         /\ Len(Append(s, e)) = Len(s) + 1
         /\ Append(s, e)[Len(s) + 1] = e
<1> DEFINE t == Append(s, e)
<1>1. s \in Seq(Entry) /\ Len(s) \in Nat
  BY DEF OnePerKey
<1>2. /\ t \in Seq(Entry) /\ Len(t) = Len(s) + 1
      /\ \A i \in 1..Len(s) : t[i] = s[i]
      /\ t[Len(s) + 1] = e
  BY <1>1, AppendProperties
<1> HIDE DEF t
<1>3. \A i \in 1..Len(t) : i \in 1..Len(s) \/ i = Len(s) + 1
  BY <1>1, <1>2
<1>4. \A i \in 1..Len(s) : i \in 1..Len(t) /\ t[i].key # e.key
  BY <1>1, <1>2 DEF Held
<1>5. OnePerKey(t)
  BY <1>2, <1>3, <1>4 DEF OnePerKey
<1>6. Held(t) = Held(s) \cup {e}
  <2>1. Len(s) + 1 \in 1..Len(t)
    BY <1>1, <1>2
  <2> QED
    BY <1>2, <1>3, <1>4, <2>1 DEF Held
<1> QED
  BY <1>2, <1>5, <1>6 DEF t

\* From one entry too many the first is dropped.
LEMMA EvictedFacts ==
  ASSUME NEW s, OnePerKey(s), Len(s) <= MaxEntries + 1
  PROVE  /\ OnePerKey(Evicted(s)) /\ Len(Evicted(s)) <= MaxEntries
         /\ Len(s) <= MaxEntries => Evicted(s) = s
         /\ Len(s) > MaxEntries =>
              /\ Len(s) = MaxEntries + 1 /\ s[1] \in Held(s)
              /\ Held(Evicted(s)) = {e \in Held(s) : e.key # s[1].key}
<1>1. s \in Seq(Entry) /\ Len(s) \in Nat /\ MaxEntries \in Nat \ {0}
  BY MaxEntriesAssumption DEF OnePerKey
<1>2. CASE Len(s) <= MaxEntries
  BY <1>1, <1>2 DEF Evicted
<1>3. CASE Len(s) > MaxEntries
  <2> DEFINE w == SubSeq(s, 2, Len(s))
  <2>1. Len(s) = MaxEntries + 1
    BY <1>1, <1>3
  <2>2. Evicted(s) = w
    <3>1. Len(s) - MaxEntries + 1 = 2
      BY <1>1, <2>1
    <3> QED
      BY <1>3, <3>1 DEF Evicted
  <2>3. \A i \in 2..Len(s) : s[i] \in Entry
    BY <1>1, ElementOfSeq
  <2>4. /\ w \in Seq(Entry) /\ Len(w) = IF 2 <= Len(s) THEN Len(s) - 2 + 1 ELSE 0
        /\ \A i \in 1..(Len(s) - 2 + 1) : w[i] = s[2 + i - 1]
    BY <1>1, <2>3, SubSeqProperties
  <2> HIDE DEF w
  <2>5. /\ Len(w) = MaxEntries
        /\ \A i \in 1..Len(w) : i + 1 \in 1..Len(s) /\ i + 1 # 1 /\ w[i] = s[i + 1]
    BY <1>1, <2>1, <2>4
  <2>6. \A j \in 1..Len(s) : j # 1 => \E i \in 1..Len(w) : w[i] = s[j]
    <3> SUFFICES ASSUME NEW j \in 1..Len(s), j # 1 PROVE \E i \in 1..Len(w) : w[i] = s[j]
      OBVIOUS
    <3>1. j - 1 \in 1..Len(w) /\ (j - 1) + 1 = j
      BY <1>1, <2>1, <2>5
    <3>2. w[j - 1] = s[j]
      BY <2>5, <3>1
    <3> QED
      BY <3>1, <3>2
  <2>7. OnePerKey(w)
    <3>1. \A i, j \in 1..Len(w) : i + 1 = j + 1 => i = j
      BY <2>5, <1>1
    <3> QED
      BY <2>4, <2>5, <3>1 DEF OnePerKey
  <2>8. 1 \in 1..Len(s) /\ s[1] \in Held(s)
    BY <1>1, <2>1 DEF Held
  <2>9. Held(w) = {e \in Held(s) : e.key # s[1].key}
    <3>1. \A e \in Held(w) : e \in Held(s) /\ e.key # s[1].key
      BY <2>5, <2>8 DEF Held, OnePerKey
    <3>2. \A e \in Held(s) : e.key # s[1].key => e \in Held(w)
      BY <2>6 DEF Held
    <3> QED
      BY <3>1, <3>2
  <2> QED
    BY <1>1, <1>3, <2>1, <2>2, <2>5, <2>7, <2>8, <2>9
<1> QED
  BY <1>1, <1>2, <1>3

\* What a key shows is the value of its entry, if there is one.
LEMMA ShownFacts ==
  ASSUME NEW s, OnePerKey(s)
  PROVE  /\ ShownOf(s) \in [Key -> Value \cup {Absent}]
         /\ \A e \in Held(s) : /\ e.key \in Key /\ ShownOf(s)[e.key] = e.value
                             /\ e.value # Absent
         /\ \A k \in Key : (\A e \in Held(s) : e.key # k) => ShownOf(s)[k] = Absent
<1>1. \A e \in Held(s) : e \in Entry
  BY ElementOfSeq DEF OnePerKey, Held
<1>2. \A k \in Key : Holds(s, k) => s[Position(s, k)] \in Entry
  BY <1>1, FindFacts
<1>3. ShownOf(s) \in [Key -> Value \cup {Absent}]
  BY <1>2 DEF ShownOf, Entry
<1>4. ASSUME NEW e \in Held(s)
      PROVE  e.key \in Key /\ ShownOf(s)[e.key] = e.value /\ e.value # Absent
  <2>1. e \in Entry /\ Holds(s, e.key)
    BY <1>1, FindFacts
  <2>2. s[Position(s, e.key)] = e
    BY <2>1, FindFacts DEF Held
  <2>3. e.key \in Key /\ e.value \in Value
    BY <2>1 DEF Entry
  <2> QED
    BY <2>1, <2>2, <2>3, AbsentIsNoValue DEF ShownOf
<1>5. ASSUME NEW k \in Key, \A e \in Held(s) : e.key # k
      PROVE  ShownOf(s)[k] = Absent
  <2>1. ~Holds(s, k)
    BY <1>5, FindFacts
  <2> QED
    BY <2>1 DEF ShownOf
<1> QED
  BY <1>3, <1>4, <1>5

\* Entries that differ in one key show the same under the others.
LEMMA ShownDiffers ==
  ASSUME NEW s, OnePerKey(s), NEW t, OnePerKey(t), NEW k \in Key,
         {e \in Held(s) : e.key # k} = {e \in Held(t) : e.key # k}
  PROVE  ShownOf(t) = [ShownOf(s) EXCEPT ![k] = ShownOf(t)[k]]
<1>1. ASSUME NEW x \in Key, x # k
      PROVE  ShownOf(t)[x] = ShownOf(s)[x]
  <2>1. CASE \E e \in Held(t) : e.key = x
    <3>1. PICK e \in Held(t) : e.key = x
      BY <2>1
    <3>2. e \in Held(s)
      BY <1>1, <3>1
    <3> QED
      BY <3>1, <3>2, ShownFacts
  <2>2. CASE \A e \in Held(t) : e.key # x
    <3>1. \A e \in Held(s) : e.key # x
      BY <1>1, <2>2
    <3> QED
      BY <2>2, <3>1, ShownFacts
  <2> QED
    BY <2>1, <2>2
<1>2. ShownOf(s) \in [Key -> Value \cup {Absent}] /\ ShownOf(t) \in [Key -> Value \cup {Absent}]
  BY ShownFacts
<1> QED
  BY <1>1, <1>2

\* As many keys show a value as there are entries.
LEMMA CountShown ==
  ASSUME NEW s, OnePerKey(s)
  PROVE  Cardinality({k \in Key : ShownOf(s)[k] # Absent}) = Len(s)
<1> DEFINE shown == {k \in Key : ShownOf(s)[k] # Absent}
           f == [i \in 1..Len(s) |-> s[i].key]
<1>1. Len(s) \in Nat
  BY DEF OnePerKey
<1>2. \A i \in 1..Len(s) : s[i] \in Held(s)
  BY DEF Held
<1>3. \A i \in 1..Len(s) : f[i] \in shown
  BY <1>2, ShownFacts
<1>4. \A k \in shown : \E i \in 1..Len(s) : f[i] = k
  <2> SUFFICES ASSUME NEW k \in shown PROVE \E i \in 1..Len(s) : f[i] = k
    OBVIOUS
  <2>1. PICK e \in Held(s) : e.key = k
    BY ShownFacts
  <2> QED
    BY <2>1 DEF Held
<1>5. \A i, j \in 1..Len(s) : f[i] = f[j] => i = j
  BY DEF OnePerKey
<1>6. f \in [1..Len(s) -> shown]
  BY <1>3
<1> HIDE DEF f, shown
<1>7. f \in Bijection(1..Len(s), shown)
  BY <1>4, <1>5, <1>6, Fun_IsBij
<1>8. ExistsBijection(1..Len(s), shown)
  BY <1>7 DEF ExistsBijection
<1> QED
  BY <1>1, <1>8, FS_CountingElements DEF shown

-----------------------------------------------------------------------------
(* The invariant: the Map holds for a key what was last put under it, and  *)
(* no more entries than its capacity.                                      *)
AsWritten(e) == written[e.key] = [value |-> e.value, expiresAt |-> e.expiresAt]

Writes == [value : Value \cup {Absent}, expiresAt : Expiry]

IInv ==
  /\ OnePerKey(entries) /\ Len(entries) <= MaxEntries
  /\ now \in Nat
  /\ written \in [Key -> Writes]
  /\ \A e \in Held(entries) : AsWritten(e)

\* The entries a put leaves before it makes room.
LEMMA InsertedFacts ==
  ASSUME IInv, NEW k \in Key, NEW v \in Value, NEW at \in Expiry
  PROVE  LET e == [key |-> k, value |-> v, expiresAt |-> at] IN
         /\ OnePerKey(Inserted(k, v, at)) /\ Len(Inserted(k, v, at)) <= MaxEntries + 1
         /\ Held(Inserted(k, v, at)) = {x \in Held(entries) : x.key # k} \cup {e}
         /\ Len(Inserted(k, v, at)) \in Nat \ {0}
         /\ Inserted(k, v, at)[Len(Inserted(k, v, at))] = e
<1> DEFINE e == [key |-> k, value |-> v, expiresAt |-> at]
           w == Without(entries, k)
<1>1. /\ OnePerKey(entries) /\ Len(entries) <= MaxEntries /\ Len(entries) \in Nat
      /\ MaxEntries \in Nat
  BY MaxEntriesAssumption DEF IInv, OnePerKey
<1>2. /\ OnePerKey(w) /\ Held(w) = {x \in Held(entries) : x.key # k}
      /\ Len(w) = IF Holds(entries, k) THEN Len(entries) - 1 ELSE Len(entries)
  BY <1>1, WithoutFacts
<1>3. e \in Entry /\ e.key = k
  BY DEF Entry
<1>4. Len(w) \in Nat /\ Len(w) <= MaxEntries
  BY <1>1, <1>2 DEF OnePerKey
<1>5. Inserted(k, v, at) = Append(w, e)
  BY DEF Inserted
<1> HIDE DEF w, e
<1>6. \A x \in Held(w) : x.key # e.key
  BY <1>2, <1>3
<1>7. /\ OnePerKey(Append(w, e)) /\ Held(Append(w, e)) = Held(w) \cup {e}
      /\ Len(Append(w, e)) = Len(w) + 1 /\ Append(w, e)[Len(w) + 1] = e
  BY <1>2, <1>3, <1>6, AppendFacts
<1> QED
  BY <1>1, <1>2, <1>4, <1>5, <1>7 DEF e

\* A get moves its entry to the end, and the Map holds what it held.
LEMMA TouchFacts ==
  ASSUME IInv, NEW k, Stored(k)
  PROVE  /\ OnePerKey(Touch(k)) /\ Len(Touch(k)) <= MaxEntries
         /\ Held(Touch(k)) = Held(entries)
<1> DEFINE e == EntryOf(k)
           w == Without(entries, k)
<1>1. OnePerKey(entries) /\ Len(entries) <= MaxEntries /\ Len(entries) \in Nat
  BY DEF IInv, OnePerKey
<1>2. /\ OnePerKey(w) /\ Held(w) = {x \in Held(entries) : x.key # k}
      /\ Len(w) = Len(entries) - 1
  BY <1>1, WithoutFacts DEF Stored
<1>3. e \in Held(entries) /\ e.key = k /\ \A x \in Held(entries) : x.key = k => x = e
  BY <1>1, FindFacts DEF Stored, EntryOf, Held
<1>4. e \in Entry
  BY <1>1, <1>3, ElementOfSeq DEF Held, OnePerKey
<1>5. Touch(k) = Append(w, e)
  BY DEF Touch
<1> HIDE DEF w, e
<1>6. \A x \in Held(w) : x.key # e.key
  BY <1>2, <1>3
<1>7. /\ OnePerKey(Append(w, e)) /\ Held(Append(w, e)) = Held(w) \cup {e}
      /\ Len(Append(w, e)) = Len(w) + 1
  BY <1>2, <1>4, <1>6, AppendFacts
<1>8. Held(w) \cup {e} = Held(entries)
  BY <1>2, <1>3
<1>9. Len(w) + 1 <= MaxEntries
  BY <1>1, <1>2
<1> QED
  BY <1>5, <1>7, <1>8, <1>9

LEMMA InitOK == Init => IInv
<1> SUFFICES ASSUME Init PROVE IInv
  OBVIOUS
<1>1. entries = << >> /\ << >> \in Seq(Entry) /\ Len(<< >>) = 0
  BY EmptySeq DEF Init
<1>2. \A i \in 1..0 : FALSE
  OBVIOUS
<1>3. OnePerKey(entries) /\ Held(entries) = {}
  BY <1>1, <1>2 DEF OnePerKey, Held
<1>4. Len(entries) <= MaxEntries
  BY <1>1, MaxEntriesAssumption
<1> QED
  BY <1>3, <1>4 DEF IInv, Init, Writes, Unwritten, Expiry

\* A step that takes the entry of a key out of the Map.
LEMMA RemovalKeeps ==
  ASSUME IInv, NEW k \in Key, entries' = Without(entries, k), now' = now,
         written' = written \/ written' = [written EXCEPT ![k] = Unwritten]
  PROVE  IInv'
<1>1. /\ OnePerKey(entries) /\ Len(entries) <= MaxEntries /\ Len(entries) \in Nat
      /\ MaxEntries \in Nat
  BY MaxEntriesAssumption DEF IInv, OnePerKey
<1>2. /\ OnePerKey(entries') /\ Held(entries') = {x \in Held(entries) : x.key # k}
      /\ Len(entries') = IF Holds(entries, k) THEN Len(entries) - 1 ELSE Len(entries)
  BY <1>1, WithoutFacts
<1>3. Len(entries') <= MaxEntries
  BY <1>1, <1>2
<1>4. \A e \in Held(entries') : AsWritten(e)'
  <2> SUFFICES ASSUME NEW e \in Held(entries') PROVE AsWritten(e)'
    OBVIOUS
  <2>1. e \in Held(entries) /\ e.key # k /\ AsWritten(e)
    BY <1>2 DEF IInv
  <2>2. e.key \in Key
    BY <1>1, <2>1, ShownFacts
  <2>3. written'[e.key] = written[e.key]
    BY <2>1, <2>2 DEF IInv
  <2> QED
    BY <2>1, <2>3 DEF AsWritten
<1>5. written' \in [Key -> Writes]
  BY DEF IInv, Writes, Unwritten, Expiry
<1>6. Held(entries)' = Held(entries') /\ OnePerKey(entries)' <=> OnePerKey(entries')
  BY DEF Held, OnePerKey
<1> QED
  BY <1>2, <1>3, <1>4, <1>5, <1>6 DEF IInv, Held, OnePerKey

LEMMA PutKeeps ==
  ASSUME IInv, NEW k \in Key, NEW v \in Value, NEW ttl \in Ttls, Put(k, v, ttl)
  PROVE  IInv'
<1> DEFINE at == IF ttl = NoExpiry THEN NoExpiry ELSE now + ttl
           e == [key |-> k, value |-> v, expiresAt |-> at]
           t == Inserted(k, v, at)
<1>1. at \in Expiry /\ e.key = k
  BY TtlsAssumption DEF IInv, Expiry
<1>2. /\ entries' = Evicted(t) /\ now' = now
      /\ written' = [written EXCEPT ![k] = [value |-> v, expiresAt |-> at]]
  BY DEF Put
<1> HIDE DEF at
<1>3. /\ OnePerKey(t) /\ Len(t) <= MaxEntries + 1
      /\ Held(t) = {x \in Held(entries) : x.key # k} \cup {e}
  BY <1>1, InsertedFacts, ZenonT(40)
<1>4. e.value = v /\ e.expiresAt = at
  OBVIOUS
<1> HIDE DEF t, e
<1>5. OnePerKey(entries') /\ Len(entries') <= MaxEntries /\ Held(entries') \subseteq Held(t)
  BY <1>2, <1>3, EvictedFacts, MaxEntriesAssumption DEF OnePerKey
<1>6. /\ [value |-> v, expiresAt |-> at] \in Writes
      /\ written \in [Key -> Writes]
  BY <1>1 DEF IInv, Writes
<1>7. written' \in [Key -> Writes]
  BY <1>2, <1>6
<1>8. \A x \in Held(entries') : AsWritten(x)'
  <2> SUFFICES ASSUME NEW x \in Held(entries') PROVE AsWritten(x)'
    OBVIOUS
  <2>1. CASE x = e
    BY <1>1, <1>2, <1>4, <1>6, <2>1 DEF AsWritten
  <2>2. CASE x # e
    <3>1. x \in Held(entries) /\ x.key # k /\ AsWritten(x)
      BY <1>3, <1>5, <2>2 DEF IInv
    <3>2. written'[x.key] = written[x.key]
      BY <1>2, <1>6, <3>1
    <3> QED
      BY <3>1, <3>2 DEF AsWritten
  <2> QED
    BY <2>1, <2>2
<1> QED
  BY <1>2, <1>5, <1>7, <1>8 DEF IInv, Held, OnePerKey

LEMMA NextKeeps == IInv /\ [Next]_vars => IInv'
<1> SUFFICES ASSUME IInv, [Next]_vars PROVE IInv'
  OBVIOUS
<1>1. CASE Tick
  <2>1. entries' = entries /\ written' = written /\ now' \in Nat
    BY <1>1 DEF Tick, IInv
  <2> QED
    BY <2>1 DEF IInv, OnePerKey, Held, AsWritten
<1>2. ASSUME NEW k \in Key, DropExpired(k) PROVE IInv'
  BY <1>2, RemovalKeeps DEF DropExpired
<1>3. ASSUME NEW k \in Key, GetHit(k) PROVE IInv'
  <2>1. entries' = Touch(k) /\ written' = written /\ now' = now /\ Stored(k)
    BY <1>3 DEF GetHit
  <2>2. OnePerKey(entries') /\ Len(entries') <= MaxEntries /\ Held(entries') = Held(entries)
    BY <2>1, TouchFacts
  <2> QED
    BY <2>1, <2>2 DEF IInv, OnePerKey, Held, AsWritten
<1>4. ASSUME NEW k \in Key, Delete(k) PROVE IInv'
  BY <1>4, RemovalKeeps DEF Delete
<1>5. ASSUME NEW k \in Key, NEW v \in Value, NEW ttl \in Ttls, Put(k, v, ttl) PROVE IInv'
  BY <1>5, PutKeeps
<1>6. CASE UNCHANGED vars
  BY <1>6 DEF IInv, OnePerKey, Held, AsWritten, vars
<1> QED
  BY <1>1, <1>2, <1>3, <1>4, <1>5, <1>6 DEF Next

LEMMA Invariant == Spec => []IInv
<1> QED
  BY InitOK, NextKeeps, PTL DEF Spec

-----------------------------------------------------------------------------
(* What the store promises *)

\* What a get would answer was the last put under its key, and its time has not
\* passed (get, cache-store.ts).
THEOREM AnswersAreTheLastPut == Spec => []AnswersAreFresh
<1>1. IInv => AnswersAreFresh
  <2> SUFFICES ASSUME IInv, NEW k \in Key, Stored(k), ~Expired(EntryOf(k))
               PROVE  /\ EntryOf(k).value = written[k].value
                      /\ written[k].expiresAt # NoExpiry => now <= written[k].expiresAt
    BY DEF AnswersAreFresh, Live
  <2> DEFINE e == EntryOf(k)
  <2>1. e \in Held(entries) /\ e.key = k
    BY FindFacts DEF IInv, Stored, EntryOf
  <2>2. e \in Entry
    BY <2>1, ElementOfSeq DEF IInv, OnePerKey, Held
  <2>3. written[k] = [value |-> e.value, expiresAt |-> e.expiresAt]
    BY <2>1 DEF IInv, AsWritten
  <2>4. written[k].value = e.value /\ written[k].expiresAt = e.expiresAt
    BY <2>3
  <2>5. e.expiresAt # NoExpiry => now <= e.expiresAt
    <3>1. e.expiresAt \in Nat \cup {NoExpiry} /\ now \in Nat
      BY <2>2 DEF Entry, Expiry, IInv
    <3>2. e.expiresAt = NoExpiry \/ ~(now > e.expiresAt)
      BY DEF Expired
    <3> HIDE DEF e
    <3> QED
      BY <3>1, <3>2
  <2> QED
    BY <2>4, <2>5
<1> QED
  BY <1>1, Invariant, PTL

\* The Map never holds more entries than its capacity, nor two of one key (put and
\* evict, cache-store.ts).
THEOREM NeverOverCapacity == Spec => [](Len(entries) <= MaxEntries /\ OnePerKey(entries))
<1>1. IInv => Len(entries) <= MaxEntries /\ OnePerKey(entries)
  BY DEF IInv
<1> QED
  BY <1>1, Invariant, PTL

LEMMA RemovalShows ==
  ASSUME IInv, NEW k \in Key, entries' = Without(entries, k)
  PROVE  ShownOf(entries') = [ShownOf(entries) EXCEPT ![k] = Absent]
<1>1. OnePerKey(entries)
  BY DEF IInv
<1>2. OnePerKey(entries') /\ Held(entries') = {x \in Held(entries) : x.key # k}
  BY <1>1, WithoutFacts
<1>3. ShownOf(entries')[k] = Absent
  BY <1>2, ShownFacts
<1>4. {x \in Held(entries) : x.key # k} = {x \in Held(entries') : x.key # k}
  BY <1>2
<1>5. ShownOf(entries') = [ShownOf(entries) EXCEPT ![k] = ShownOf(entries')[k]]
  BY <1>1, <1>2, <1>4, ShownDiffers
<1> QED
  BY <1>3, <1>5

LEMMA PutShows ==
  ASSUME IInv, NEW k \in Key, NEW v \in Value, NEW ttl \in Ttls, Put(k, v, ttl)
  PROVE  LET live == ShownOf(entries)
             present == {x \in Key : live[x] # Absent}
         IN  \/ /\ Cardinality(present \cup {k}) <= MaxEntries
                /\ ShownOf(entries') = [live EXCEPT ![k] = v]
             \/ /\ Cardinality(present \cup {k}) > MaxEntries
                /\ \E e \in present \ {k} :
                     ShownOf(entries') = [live EXCEPT ![k] = v, ![e] = Absent]
<1> DEFINE live == ShownOf(entries)
           present == {x \in Key : live[x] # Absent}
           at == IF ttl = NoExpiry THEN NoExpiry ELSE now + ttl
           e == [key |-> k, value |-> v, expiresAt |-> at]
           t == Inserted(k, v, at)
<1>1. at \in Expiry /\ e.key = k /\ e.value = v /\ v # Absent
  BY TtlsAssumption, AbsentIsNoValue DEF IInv, Expiry
<1>2. entries' = Evicted(t)
  BY DEF Put
<1> HIDE DEF at
<1>3. /\ OnePerKey(t) /\ Len(t) <= MaxEntries + 1
      /\ Held(t) = {x \in Held(entries) : x.key # k} \cup {e}
      /\ Len(t) \in Nat \ {0} /\ t[Len(t)] = e
  BY <1>1, InsertedFacts
<1>4. OnePerKey(entries) /\ MaxEntries \in Nat \ {0}
  BY MaxEntriesAssumption DEF IInv
<1> HIDE DEF t, e
<1>5. ShownOf(t) = [live EXCEPT ![k] = v]
  <2>1. {x \in Held(entries) : x.key # k} = {x \in Held(t) : x.key # k}
    BY <1>1, <1>3
  <2>2. ShownOf(t) = [live EXCEPT ![k] = ShownOf(t)[k]]
    BY <1>3, <1>4, <2>1, ShownDiffers
  <2>3. ShownOf(t)[k] = v
    BY <1>1, <1>3, ShownFacts
  <2> QED
    BY <2>2, <2>3
<1>6. live \in [Key -> Value \cup {Absent}]
  BY <1>4, ShownFacts
<1> HIDE DEF live
<1>7. Cardinality(present \cup {k}) = Len(t)
  <2>1. {x \in Key : ShownOf(t)[x] # Absent} = present \cup {k}
    BY <1>1, <1>5, <1>6
  <2> QED
    BY <1>3, <2>1, CountShown
<1>8. CASE Len(t) <= MaxEntries
  <2>1. entries' = t
    BY <1>2, <1>3, <1>8, EvictedFacts
  <2> QED
    BY <1>5, <1>7, <1>8, <2>1 DEF live
<1>9. CASE Len(t) > MaxEntries
  <2> DEFINE first == t[1].key
  <2>1. /\ OnePerKey(entries') /\ t[1] \in Held(t) /\ Len(t) = MaxEntries + 1
        /\ Held(entries') = {x \in Held(t) : x.key # first}
    BY <1>2, <1>3, <1>9, EvictedFacts
  <2>2. first \in Key
    BY <1>3, <2>1, ShownFacts
  <2>3. first # k
    <3>1. 1 \in 1..Len(t) /\ Len(t) \in 1..Len(t) /\ Len(t) # 1
      BY <1>3, <1>4, <2>1
    <3> QED
      BY <1>1, <1>3, <3>1 DEF OnePerKey
  <2>4. first \in present
    <3>1. t[1] \in Held(entries)
      BY <1>1, <1>3, <2>1, <2>3
    <3> QED
      BY <1>4, <3>1, ShownFacts DEF live
  <2>5. ShownOf(entries') = [ShownOf(t) EXCEPT ![first] = Absent]
    <3> HIDE DEF first
    <3>1. {x \in Held(t) : x.key # first} = {x \in Held(entries') : x.key # first}
      BY <2>1
    <3>2. ShownOf(entries') = [ShownOf(t) EXCEPT ![first] = ShownOf(entries')[first]]
      BY <1>3, <2>1, <2>2, <3>1, ShownDiffers
    <3>3. ShownOf(entries')[first] = Absent
      BY <2>1, <2>2, ShownFacts
    <3> QED
      BY <3>2, <3>3
  <2> HIDE DEF first
  <2>6. ShownOf(entries') = [live EXCEPT ![k] = v, ![first] = Absent]
    BY <1>5, <2>5
  <2>7. Cardinality(present \cup {k}) > MaxEntries
    BY <1>7, <1>9
  <2>8. first \in present \ {k}
    BY <2>3, <2>4
  <2> HIDE DEF present
  <2>9. \E x \in present \ {k} : ShownOf(entries') = [live EXCEPT ![k] = v, ![x] = Absent]
    BY <2>6, <2>8
  <2> QED
    BY <2>7, <2>9 DEF live, present
<1> QED
  BY <1>3, <1>4, <1>8, <1>9 DEF OnePerKey

\* The store implements the cache its caller is promised: a key shows what was last
\* put under it or nothing, and a put drops at most one other key, and only when the
\* Map is full (InMemoryCacheStore, cache-store.ts).
THEOREM StoreImplementsBoundedCache == Spec => ImplementsBoundedCache
<1> DEFINE live == [k \in Key |-> IF Stored(k) THEN EntryOf(k).value ELSE Absent]
<1>0. live = ShownOf(entries) /\ live' = ShownOf(entries')
  BY DEF ShownOf, Stored, EntryOf
<1>1. Init => Abstract!Init
  BY DEF Init, Abstract!Init, Stored, Holds
<1>2. IInv /\ [Next]_vars => [Abstract!Next]_live
  <2> SUFFICES ASSUME IInv, [Next]_vars PROVE [Abstract!Next]_live
    OBVIOUS
  <2>1. ASSUME entries' = entries PROVE live' = live
    BY <1>0, <2>1
  <2>2. ASSUME NEW k \in Key, entries' = Without(entries, k) PROVE Abstract!Next
    <3>1. live' = [live EXCEPT ![k] = Absent]
      BY <1>0, <2>2, RemovalShows
    <3>2. Abstract!Delete(k)
      BY <3>1 DEF Abstract!Delete
    <3> QED
      BY <3>2 DEF Abstract!Next
  <2>3. ASSUME NEW k \in Key, GetHit(k) PROVE live' = live
    <3>1. OnePerKey(entries') /\ Held(entries') = Held(entries)
      BY <2>3, TouchFacts DEF GetHit
    <3>2. \A x \in Key : ShownOf(entries')[x] = ShownOf(entries)[x]
      <4> SUFFICES ASSUME NEW x \in Key PROVE ShownOf(entries')[x] = ShownOf(entries)[x]
        OBVIOUS
      <4>1. CASE \E e \in Held(entries) : e.key = x
        <5>1. PICK e \in Held(entries) : e.key = x
          BY <4>1
        <5> QED
          BY <3>1, <5>1, ShownFacts DEF IInv
      <4>2. CASE \A e \in Held(entries) : e.key # x
        BY <3>1, <4>2, ShownFacts DEF IInv
      <4> QED
        BY <4>1, <4>2
    <3>3. /\ ShownOf(entries') \in [Key -> Value \cup {Absent}]
          /\ ShownOf(entries) \in [Key -> Value \cup {Absent}]
      BY <3>1, ShownFacts DEF IInv
    <3>4. ShownOf(entries') = ShownOf(entries)
      BY <3>2, <3>3
    <3> QED
      BY <1>0, <3>4
  <2>4. ASSUME NEW k \in Key, NEW v \in Value, NEW ttl \in Ttls, Put(k, v, ttl)
        PROVE  Abstract!Next
    <3> DEFINE present == {x \in Key : live[x] # Absent}
    <3>1. \/ /\ Cardinality(present \cup {k}) <= MaxEntries
             /\ live' = [live EXCEPT ![k] = v]
          \/ /\ Cardinality(present \cup {k}) > MaxEntries
             /\ \E e \in present \ {k} : live' = [live EXCEPT ![k] = v, ![e] = Absent]
      <4> HIDE DEF live
      <4> QED
        BY <1>0, <2>4, PutShows
    <3>2. Abstract!Cardinality(present \cup {k}) = Cardinality(present \cup {k})
      BY DEF Abstract!Cardinality, Cardinality
    <3>3. Abstract!Put(k, v)
      BY <3>1, <3>2, Zenon DEF Abstract!Put, Abstract!PutWithRoom, Abstract!PutEvicting,
                         Abstract!Present
    <3> QED
      BY <3>3 DEF Abstract!Next
  <2>5. CASE Tick
    BY <2>1, <2>5 DEF Tick
  <2>6. CASE UNCHANGED vars
    BY <2>1, <2>6 DEF vars
  <2>7. ASSUME NEW k \in Key, DropExpired(k) PROVE Abstract!Next
    BY <2>2, <2>7 DEF DropExpired
  <2>8. ASSUME NEW k \in Key, Delete(k) PROVE Abstract!Next
    BY <2>2, <2>8 DEF Delete
  <2> QED
    BY <2>3, <2>4, <2>5, <2>6, <2>7, <2>8, <2>1 DEF Next, Tick, vars
<1> QED
  BY <1>1, <1>2, Invariant, PTL DEF Spec, ImplementsBoundedCache, Abstract!Spec

-----------------------------------------------------------------------------
(* Recency: the Map's order is the order of the last uses *)

\* x comes before y in s.
Ordered(s, x, y) == \E i, j \in 1..Len(s) : i < j /\ s[i] = x /\ s[j] = y

Distinct(s) == \A i, j \in 1..Len(s) : s[i] = s[j] => i = j

LEMMA OnePerKeyDistinct ==
  ASSUME NEW s, OnePerKey(s)
  PROVE  Distinct(s) /\ s \in Seq(Entry)
BY DEF OnePerKey, Distinct

\* In a sequence without repetition the order is that of the places.
LEMMA OrderedPlaces ==
  ASSUME NEW S, NEW s \in Seq(S), Distinct(s), NEW x, NEW y, Ordered(s, x, y),
         NEW i \in 1..Len(s), s[i] = x, NEW j \in 1..Len(s), s[j] = y
  PROVE  i < j
BY DEF Ordered, Distinct

LEMMA RemovalOrder ==
  ASSUME NEW S, NEW s \in Seq(S), Distinct(s), NEW p \in 1..Len(s)
  PROVE  /\ Distinct(RemoveAt(s, p))
         /\ Held(RemoveAt(s, p)) = Held(s) \ {s[p]}
         /\ \A x, y : Ordered(RemoveAt(s, p), x, y) =>
              Ordered(s, x, y) /\ x # s[p] /\ y # s[p]
         /\ \A x, y : Ordered(s, x, y) /\ x # s[p] /\ y # s[p] =>
              Ordered(RemoveAt(s, p), x, y)
<1> DEFINE w == RemoveAt(s, p)
           from(i) == IF i < p THEN i ELSE i + 1
           to(j) == IF j < p THEN j ELSE j - 1
<1>1. Len(s) \in Nat /\ p \in Int /\ p \in 1..Len(s)
  OBVIOUS
<1>2. /\ Len(w) = Len(s) - 1
      /\ \A i \in 1..(Len(s) - 1) : w[i] = IF i < p THEN s[i] ELSE s[i + 1]
  BY RemoveAtFacts
<1> HIDE DEF w
<1>3. \A i \in 1..Len(w) : from(i) \in 1..Len(s) /\ from(i) # p /\ w[i] = s[from(i)]
  BY <1>1, <1>2
<1>4. \A i, j \in 1..Len(w) : i < j <=> from(i) < from(j)
  BY <1>1, <1>2
<1>5. \A j \in 1..Len(s) : j # p => to(j) \in 1..Len(w) /\ from(to(j)) = j
  BY <1>1, <1>2
<1>6. \A i, j \in 1..Len(w) : from(i) = from(j) => i = j
  BY <1>1, <1>2
<1> HIDE DEF from, to
<1>7. Distinct(w)
  BY <1>3, <1>6 DEF Distinct
<1>8. Held(w) = Held(s) \ {s[p]}
  <2>1. Held(w) \subseteq Held(s) \ {s[p]}
    BY <1>1, <1>3 DEF Held, Distinct
  <2>2. Held(s) \ {s[p]} \subseteq Held(w)
    BY <1>3, <1>5 DEF Held
  <2> QED
    BY <2>1, <2>2
<1>9. ASSUME NEW x, NEW y, Ordered(w, x, y)
      PROVE  Ordered(s, x, y) /\ x # s[p] /\ y # s[p]
  <2>1. PICK i, j \in 1..Len(w) : i < j /\ w[i] = x /\ w[j] = y
    BY <1>9 DEF Ordered
  <2>2. /\ from(i) \in 1..Len(s) /\ from(j) \in 1..Len(s) /\ from(i) < from(j)
        /\ from(i) # p /\ from(j) # p /\ s[from(i)] = x /\ s[from(j)] = y
    BY <1>3, <1>4, <2>1
  <2> QED
    BY <1>1, <2>2 DEF Ordered, Distinct
<1>10. ASSUME NEW x, NEW y, Ordered(s, x, y), x # s[p], y # s[p]
       PROVE  Ordered(w, x, y)
  <2>1. PICK i, j \in 1..Len(s) : i < j /\ s[i] = x /\ s[j] = y
    BY <1>10 DEF Ordered
  <2>2. i # p /\ j # p
    BY <1>10, <2>1
  <2>3. /\ to(i) \in 1..Len(w) /\ to(j) \in 1..Len(w)
        /\ from(to(i)) = i /\ from(to(j)) = j
    BY <1>5, <2>2
  <2>4. to(i) < to(j) /\ w[to(i)] = x /\ w[to(j)] = y
    BY <1>3, <1>4, <2>1, <2>3
  <2> QED
    BY <2>3, <2>4 DEF Ordered
<1> QED
  BY <1>7, <1>8, <1>9, <1>10 DEF w

LEMMA AppendOrder ==
  ASSUME NEW S, NEW s \in Seq(S), Distinct(s), NEW e \in S, e \notin Held(s)
  PROVE  /\ Append(s, e) \in Seq(S) /\ Distinct(Append(s, e))
         /\ Held(Append(s, e)) = Held(s) \cup {e}
         /\ \A x, y : Ordered(Append(s, e), x, y) =>
              Ordered(s, x, y) \/ (x \in Held(s) /\ y = e)
         /\ \A x, y : Ordered(s, x, y) \/ (x \in Held(s) /\ y = e) =>
              Ordered(Append(s, e), x, y)
<1> DEFINE t == Append(s, e)
           n == Len(s)
<1>1. /\ n \in Nat /\ t \in Seq(S) /\ Len(t) = n + 1
      /\ \A i \in 1..n : t[i] = s[i]
      /\ t[n + 1] = e
  OBVIOUS
<1>2. \A i \in 1..Len(t) : i \in 1..n \/ i = n + 1
  BY <1>1
<1>3. \A i \in 1..n : i \in 1..Len(t) /\ i < n + 1 /\ n + 1 \in 1..Len(t)
  BY <1>1
<1>4. n + 1 \in 1..Len(t) /\ ~(n + 1 < n + 1) /\ \A i \in 1..n : ~(n + 1 < i)
  BY <1>1
<1>5. \A i \in 1..n : s[i] # e
  BY DEF Held
<1> HIDE DEF t
<1>6. Distinct(t)
  BY <1>1, <1>2, <1>5 DEF Distinct
<1>7. Held(t) = Held(s) \cup {e}
  BY <1>1, <1>2, <1>3, <1>4 DEF Held
<1>8. ASSUME NEW x, NEW y, Ordered(t, x, y)
      PROVE  Ordered(s, x, y) \/ (x \in Held(s) /\ y = e)
  <2>1. PICK i, j \in 1..Len(t) : i < j /\ t[i] = x /\ t[j] = y
    BY <1>8 DEF Ordered
  <2> QED
    BY <1>1, <1>2, <1>4, <2>1 DEF Ordered, Held
<1>9. ASSUME NEW x, NEW y, Ordered(s, x, y) \/ (x \in Held(s) /\ y = e)
      PROVE  Ordered(t, x, y)
  <2>1. CASE Ordered(s, x, y)
    BY <1>1, <1>3, <2>1 DEF Ordered
  <2>2. CASE x \in Held(s) /\ y = e
    <3>1. PICK i \in 1..n : s[i] = x
      BY <2>2 DEF Held
    <3> QED
      BY <1>1, <1>3, <2>2, <3>1 DEF Ordered
  <2> QED
    BY <1>9, <2>1, <2>2
<1> QED
  BY <1>1, <1>6, <1>7, <1>8, <1>9 DEF t

\* An eviction drops the first entry and leaves the order of the others.
LEMMA EvictedOrder ==
  ASSUME NEW s, OnePerKey(s), Len(s) <= MaxEntries + 1
  PROVE  \A x, y : Ordered(Evicted(s), x, y) => Ordered(s, x, y)
<1>1. s \in Seq(Entry) /\ Len(s) \in Nat /\ MaxEntries \in Nat \ {0}
  BY MaxEntriesAssumption DEF OnePerKey
<1>2. CASE Len(s) <= MaxEntries
  BY <1>2, EvictedFacts
<1>3. CASE Len(s) > MaxEntries
  <2> DEFINE w == SubSeq(s, 2, Len(s))
  <2>1. Len(s) = MaxEntries + 1 /\ Len(s) - MaxEntries + 1 = 2
    BY <1>1, <1>3
  <2>2. Evicted(s) = w
    BY <1>3, <2>1 DEF Evicted
  <2>3. /\ Len(w) = Len(s) - 1
        /\ \A i \in 1..(Len(s) - 1) : w[i] = s[i + 1]
    BY <1>1, <2>1
  <2> HIDE DEF w
  <2>4. \A i \in 1..Len(w) : i + 1 \in 1..Len(s) /\ w[i] = s[i + 1]
    BY <1>1, <2>3
  <2>5. \A i, j \in 1..Len(w) : i < j => i + 1 < j + 1
    BY <1>1, <2>3
  <2> QED
    BY <2>2, <2>4, <2>5 DEF Ordered
<1> QED
  BY <1>1, <1>2, <1>3

\* The entries lie in the order in which their keys were last used.
RecencyInv ==
  /\ recency \in Seq(Key) /\ Distinct(recency)
  /\ \A e \in Held(entries) : e.key \in Held(recency)
  /\ \A e, f : Ordered(entries, e, f) => Ordered(recency, e.key, f.key)

\* A key that is used comes last, and the order of the others stays.
LEMMA UsedFacts ==
  ASSUME RecencyInv, NEW k \in Key
  PROVE  /\ Used(k) \in Seq(Key) /\ Distinct(Used(k))
         /\ Held(Used(k)) = Held(recency) \cup {k}
         /\ \A x, y : Ordered(recency, x, y) /\ x # k /\ y # k => Ordered(Used(k), x, y)
         /\ \A x \in Held(recency) : x # k => Ordered(Used(k), x, k)
<1> DEFINE r == IF Contains(recency, k) THEN RemoveAt(recency, IndexIn(k)) ELSE recency
<1>1. recency \in Seq(Key) /\ Distinct(recency) /\ DOMAIN recency = 1..Len(recency)
  BY DEF RecencyInv
<1>2. /\ r \in Seq(Key) /\ Distinct(r) /\ Held(r) = Held(recency) \ {k}
      /\ \A x, y : Ordered(recency, x, y) /\ x # k /\ y # k => Ordered(r, x, y)
  <2>1. CASE Contains(recency, k)
    <3>1. IndexIn(k) \in 1..Len(recency) /\ recency[IndexIn(k)] = k
      BY <1>1, <2>1 DEF Contains, IndexIn
    <3>2. r = RemoveAt(recency, IndexIn(k))
      BY <2>1
    <3> HIDE DEF r
    <3> QED
      BY <1>1, <3>1, <3>2, RemovalOrder, RemoveAtFacts
  <2>2. CASE ~Contains(recency, k)
    <3>1. k \notin Held(recency)
      BY <1>1, <2>2 DEF Contains, Held
    <3> QED
      BY <1>1, <2>2, <3>1
  <2> QED
    BY <2>1, <2>2
<1>3. Used(k) = Append(r, k)
  BY DEF Used
<1> HIDE DEF r
<1> QED
  BY <1>2, <1>3, AppendOrder

LEMMA WithoutOrder ==
  ASSUME NEW s, OnePerKey(s), NEW k
  PROVE  /\ \A e, f : Ordered(Without(s, k), e, f) =>
              Ordered(s, e, f) /\ e \in Held(Without(s, k)) /\ f \in Held(Without(s, k))
         /\ \A e, f : Ordered(s, e, f) /\ e.key # k /\ f.key # k => Ordered(Without(s, k), e, f)
<1>1. s \in Seq(Entry) /\ Distinct(s)
  BY OnePerKeyDistinct
<1>2. \A e, f : Ordered(Without(s, k), e, f) =>
        e \in Held(Without(s, k)) /\ f \in Held(Without(s, k))
  BY DEF Ordered, Held
<1>3. CASE Holds(s, k)
  <2>1. Position(s, k) \in 1..Len(s) /\ s[Position(s, k)].key = k
    BY <1>3, FindFacts
  <2>2. Without(s, k) = RemoveAt(s, Position(s, k))
    BY <1>3 DEF Without
  <2> QED
    BY <1>1, <1>2, <2>1, <2>2, RemovalOrder
<1>4. CASE ~Holds(s, k)
  BY <1>2, <1>4 DEF Without
<1> QED
  BY <1>3, <1>4

\* An entry at the end of the others, whose key was used just now.
LEMMA RecencyAfterUse ==
  ASSUME IInv, RecencyInv, NEW k \in Key, recency' = Used(k),
         NEW e \in Entry, e.key = k,
         NEW t, t = Append(Without(entries, k), e)
  PROVE  /\ \A x \in Held(t) : x.key \in Held(recency')
         /\ \A x, y : Ordered(t, x, y) => Ordered(recency', x.key, y.key)
<1> DEFINE w == Without(entries, k)
<1>1. /\ OnePerKey(w) /\ Held(w) = {x \in Held(entries) : x.key # k}
      /\ \A x, y : Ordered(w, x, y) => Ordered(entries, x, y) /\ x \in Held(w) /\ y \in Held(w)
  BY WithoutFacts, WithoutOrder DEF IInv
<1>2. w \in Seq(Entry) /\ Distinct(w)
  BY <1>1, OnePerKeyDistinct
<1> HIDE DEF w
<1>3. e \notin Held(w)
  BY <1>1
<1>4. /\ Held(t) = Held(w) \cup {e}
      /\ \A x, y : Ordered(t, x, y) => Ordered(w, x, y) \/ (x \in Held(w) /\ y = e)
  BY <1>2, <1>3, AppendOrder DEF w
<1>5. /\ Held(recency') = Held(recency) \cup {k}
      /\ \A x, y : Ordered(recency, x, y) /\ x # k /\ y # k => Ordered(recency', x, y)
      /\ \A x \in Held(recency) : x # k => Ordered(recency', x, k)
  BY UsedFacts
<1>6. /\ \A x \in Held(entries) : x.key \in Held(recency)
      /\ \A x, y : Ordered(entries, x, y) => Ordered(recency, x.key, y.key)
  BY DEF RecencyInv
<1>7. \A x \in Held(t) : x.key \in Held(recency')
  BY <1>1, <1>4, <1>5, <1>6
<1>8. ASSUME NEW x, NEW y, Ordered(t, x, y) PROVE Ordered(recency', x.key, y.key)
  <2>1. CASE Ordered(w, x, y)
    <3>1. x.key # k /\ y.key # k /\ Ordered(recency, x.key, y.key)
      BY <1>1, <1>6, <2>1
    <3> QED
      BY <1>5, <3>1
  <2>2. CASE x \in Held(w) /\ y = e
    <3>1. x.key # k /\ x.key \in Held(recency)
      BY <1>1, <1>6, <2>2
    <3> QED
      BY <1>5, <2>2, <3>1
  <2> QED
    BY <1>4, <1>8, <2>1, <2>2
<1> QED
  BY <1>7, <1>8

LEMMA RecencyKeeps == IInv /\ RecencyInv /\ [Next]_vars => RecencyInv'
<1> SUFFICES ASSUME IInv, RecencyInv, [Next]_vars PROVE RecencyInv'
  OBVIOUS
<1>0. /\ OnePerKey(entries) /\ Len(entries) <= MaxEntries
      /\ recency \in Seq(Key) /\ Distinct(recency)
  BY DEF IInv, RecencyInv
<1>1. CASE UNCHANGED <<entries, recency>>
  BY <1>1 DEF RecencyInv, Held, Ordered, Distinct
<1>2. ASSUME NEW k \in Key, entries' = Without(entries, k), recency' = recency
      PROVE  RecencyInv'
  <2>1. /\ Held(entries') \subseteq Held(entries)
        /\ \A e, f : Ordered(entries', e, f) => Ordered(entries, e, f)
    BY <1>0, <1>2, WithoutFacts, WithoutOrder
  <2>2. /\ \A e \in Held(entries') : e.key \in Held(recency')
        /\ \A e, f : Ordered(entries', e, f) => Ordered(recency', e.key, f.key)
    BY <1>2, <2>1 DEF RecencyInv
  <2> QED
    BY <1>0, <1>2, <2>2 DEF RecencyInv, Held, Ordered, Distinct
<1>3. ASSUME NEW k \in Key, GetHit(k) PROVE RecencyInv'
  <2> DEFINE e == EntryOf(k)
  <2>1. e \in Held(entries) /\ e.key = k
    BY <1>0, <1>3, FindFacts DEF GetHit, Stored, EntryOf
  <2>2. e \in Entry
    BY <1>0, <2>1, ElementOfSeq DEF Held, OnePerKey
  <2>3. entries' = Append(Without(entries, k), e) /\ recency' = Used(k)
    BY <1>3 DEF GetHit, Touch
  <2> HIDE DEF e
  <2>4. /\ \A x \in Held(entries') : x.key \in Held(recency')
        /\ \A x, y : Ordered(entries', x, y) => Ordered(recency', x.key, y.key)
    BY <2>1, <2>2, <2>3, RecencyAfterUse
  <2>5. recency' \in Seq(Key) /\ Distinct(recency')
    BY <2>3, UsedFacts
  <2> QED
    BY <2>4, <2>5 DEF RecencyInv, Held, Ordered, Distinct
<1>4. ASSUME NEW k \in Key, NEW v \in Value, NEW ttl \in Ttls, Put(k, v, ttl)
      PROVE  RecencyInv'
  <2> DEFINE at == IF ttl = NoExpiry THEN NoExpiry ELSE now + ttl
             e == [key |-> k, value |-> v, expiresAt |-> at]
             t == Inserted(k, v, at)
  <2>1. at \in Expiry
    BY TtlsAssumption DEF IInv, Expiry
  <2>2. entries' = Evicted(t) /\ recency' = Used(k)
    BY <1>4 DEF Put
  <2> HIDE DEF at
  <2>3. e \in Entry /\ e.key = k /\ t = Append(Without(entries, k), e)
    BY <2>1 DEF Entry, Inserted
  <2>4. OnePerKey(t) /\ Len(t) <= MaxEntries + 1 /\ Len(t) \in Nat
    BY <2>1, InsertedFacts
  <2> HIDE DEF e, t
  <2>5. /\ \A x \in Held(t) : x.key \in Held(recency')
        /\ \A x, y : Ordered(t, x, y) => Ordered(recency', x.key, y.key)
    BY <2>2, <2>3, RecencyAfterUse
  <2>6. Held(entries') \subseteq Held(t)
    BY <2>2, <2>4, EvictedFacts, MaxEntriesAssumption
  <2>7. \A x, y : Ordered(entries', x, y) => Ordered(t, x, y)
    BY <2>2, <2>4, EvictedOrder
  <2>8. recency' \in Seq(Key) /\ Distinct(recency')
    BY <2>2, UsedFacts
  <2>9. /\ \A x \in Held(entries') : x.key \in Held(recency')
        /\ \A x, y : Ordered(entries', x, y) => Ordered(recency', x.key, y.key)
    BY <2>5, <2>6, <2>7
  <2> QED
    BY <2>8, <2>9 DEF RecencyInv, Held, Ordered, Distinct
<1>5. CASE Tick
  BY <1>1, <1>5 DEF Tick
<1>6. CASE UNCHANGED vars
  BY <1>1, <1>6 DEF vars
<1> QED
  BY <1>2, <1>3, <1>4, <1>5, <1>6 DEF Next, DropExpired, Delete

\* In a full Map the first entry goes, and it comes before every one that stays.
LEMMA PutDropsFirst ==
  ASSUME IInv, RecencyInv, NEW k \in Key, NEW v \in Value, NEW ttl \in Ttls, Put(k, v, ttl),
         NEW lost \in Key \ {k}, NEW kept \in Key \ {k},
         Stored(lost), ~Stored(lost)', Stored(kept)'
  PROVE  Ordered(recency, lost, kept)
<1> DEFINE at == IF ttl = NoExpiry THEN NoExpiry ELSE now + ttl
           e == [key |-> k, value |-> v, expiresAt |-> at]
           t == Inserted(k, v, at)
<1>1. at \in Expiry
  BY TtlsAssumption DEF IInv, Expiry
<1>2. entries' = Evicted(t)
  BY DEF Put
<1> HIDE DEF at
<1>3. e \in Entry /\ e.key = k /\ t = Append(Without(entries, k), e)
  BY <1>1 DEF Entry, Inserted
<1>4. /\ OnePerKey(t) /\ Len(t) <= MaxEntries + 1 /\ Len(t) \in Nat
      /\ Held(t) = {x \in Held(entries) : x.key # k} \cup {e}
  BY <1>1, InsertedFacts
<1> HIDE DEF e, t
<1>5. OnePerKey(entries) /\ OnePerKey(entries')
  BY <1>2, <1>4, EvictedFacts DEF IInv
<1>6. PICK x \in Held(entries) : x.key = lost
  BY <1>5, FindFacts DEF Stored
<1>7. PICK y \in Held(entries') : y.key = kept
  BY <1>5, FindFacts DEF Stored
<1>8. x \in Held(t) /\ x \notin Held(entries')
  <2>1. x \in Held(t)
    BY <1>4, <1>6
  <2>2. ~Holds(entries', lost)
    BY DEF Stored
  <2> QED
    BY <1>5, <1>6, <2>1, <2>2, FindFacts
<1>9. Len(t) > MaxEntries
  BY <1>2, <1>4, <1>8, EvictedFacts, MaxEntriesAssumption
<1>10. /\ t[1] \in Held(t)
       /\ Held(entries') = {z \in Held(t) : z.key # t[1].key}
  BY <1>2, <1>4, <1>9, EvictedFacts
<1>11. x = t[1]
  <2>1. x.key = t[1].key
    BY <1>8, <1>10
  <2> QED
    BY <1>4, <1>8, <1>10, <2>1 DEF Held, OnePerKey
<1>12. Ordered(t, x, y)
  <2>1. y \in Held(t) /\ y # t[1]
    BY <1>7, <1>10
  <2>2. PICK j \in 1..Len(t) : t[j] = y
    BY <2>1 DEF Held
  <2>3. j # 1 /\ 1 \in 1..Len(t) /\ 1 < j
    BY <1>4, <2>1, <2>2
  <2> QED
    BY <1>11, <2>2, <2>3 DEF Ordered
<1>13. Ordered(Without(entries, k), x, y)
  <2> DEFINE w == Without(entries, k)
  <2>1. w \in Seq(Entry) /\ Distinct(w) /\ Held(w) = {z \in Held(entries) : z.key # k}
    BY <1>5, WithoutFacts, OnePerKeyDistinct
  <2> HIDE DEF w
  <2>2. e \notin Held(w) /\ y # e
    BY <1>3, <1>7, <2>1
  <2>3. t = Append(w, e)
    BY <1>3 DEF w
  <2>4. \A a, b : Ordered(t, a, b) => Ordered(w, a, b) \/ (a \in Held(w) /\ b = e)
    BY <1>3, <2>1, <2>2, <2>3, AppendOrder
  <2> QED
    BY <1>12, <2>2, <2>4 DEF w
<1>14. Ordered(entries, x, y)
  BY <1>5, <1>13, WithoutOrder
<1> QED
  BY <1>6, <1>7, <1>14 DEF RecencyInv

\* When a put evicts, the key that goes was used no later than any key that stays
\* (evictIfNeeded, and the deletion and insertion of a get, cache-store.ts).
THEOREM LeastRecentlyUsedGoes == Spec => EvictsLeastRecentlyUsed
<1>1. Init => RecencyInv
  <2> SUFFICES ASSUME Init PROVE RecencyInv
    OBVIOUS
  <2>1. entries = << >> /\ recency = << >> /\ << >> \in Seq(Key) /\ Len(<< >>) = 0
    BY EmptySeq DEF Init
  <2>2. \A i \in 1..0 : FALSE
    OBVIOUS
  <2> QED
    BY <2>1, <2>2 DEF RecencyInv, Held, Ordered, Distinct
<1> DEFINE Evicts ==
             \A k \in Key : \A v \in Value, ttl \in Ttls : Put(k, v, ttl) =>
               \A lost, kept \in Key \ {k} :
                 /\ Stored(lost) /\ ~Stored(lost)'
                 /\ Stored(kept)'
                 => IndexIn(lost) < IndexIn(kept)
<1>2. IInv /\ RecencyInv => Evicts
  <2> SUFFICES ASSUME IInv, RecencyInv, NEW k \in Key, NEW v \in Value, NEW ttl \in Ttls,
                      Put(k, v, ttl), NEW lost \in Key \ {k}, NEW kept \in Key \ {k},
                      Stored(lost), ~Stored(lost)', Stored(kept)'
               PROVE  IndexIn(lost) < IndexIn(kept)
    OBVIOUS
  <2>1. Ordered(recency, lost, kept)
    BY PutDropsFirst
  <2>2. recency \in Seq(Key) /\ Distinct(recency) /\ DOMAIN recency = 1..Len(recency)
    BY DEF RecencyInv
  <2>3. /\ IndexIn(lost) \in 1..Len(recency) /\ recency[IndexIn(lost)] = lost
        /\ IndexIn(kept) \in 1..Len(recency) /\ recency[IndexIn(kept)] = kept
    BY <2>1, <2>2 DEF Ordered, IndexIn
  <2> QED
    BY <2>1, <2>2, <2>3, OrderedPlaces
<1>3. Spec => [](IInv /\ RecencyInv)
  BY <1>1, InitOK, NextKeeps, RecencyKeeps, PTL DEF Spec
<1> QED
  BY <1>2, <1>3, PTL DEF EvictsLeastRecentlyUsed
=============================================================================
