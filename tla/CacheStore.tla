----------------------------- MODULE CacheStore -----------------------------
(***************************************************************************)
(* InMemoryCacheStore of packages/cache/src/cache-store.ts: an LRU cache   *)
(* with optional expiry.  Its state is one Map, whose insertion order is   *)
(* the recency order: the head of entries is evicted first.  Expiry is     *)
(* noticed only when an entry is looked at.  Every method is synchronous,  *)
(* so each call is one step.                                               *)
(***************************************************************************)
EXTENDS Naturals, Sequences, FiniteSets, SequencesExt

CONSTANTS
  Key, Value,
  MaxEntries,
  Ttls,                  \* the ttlMs arguments used; NoExpiry when it is omitted
  NoExpiry, Absent,
  MaxTime                \* bound: the clock stops here

ASSUME MaxEntriesAssumption == MaxEntries \in Nat \ {0}  \* the constructor's check
ASSUME TtlsAssumption == Ttls \subseteq Nat \cup {NoExpiry} /\ NoExpiry \notin Nat
ASSUME AbsentIsNoValue == Absent \notin Value
ASSUME MaxTimeAssumption == MaxTime \in Nat

VARIABLES
  entries,     \* Seq(Entry), the Map in insertion order
  now,
  written,     \* history: [Key -> [value, expiresAt]] the last write, or Unwritten
  recency      \* history: Seq(Key) keys by last put or successful get, oldest first

vars == <<entries, now, written, recency>>

Expiry == Nat \cup {NoExpiry}
Entry == [key : Key, value : Value, expiresAt : Expiry]

Unwritten == [value |-> Absent, expiresAt |-> NoExpiry]

Init ==
  /\ entries = << >>
  /\ now = 0
  /\ written = [k \in Key |-> Unwritten]
  /\ recency = << >>

-----------------------------------------------------------------------------
Holds(seq, k) == \E i \in 1..Len(seq) : seq[i].key = k
Position(seq, k) == CHOOSE i \in 1..Len(seq) : seq[i].key = k

\* A Map holds at most one entry of a key.
Without(seq, k) == IF Holds(seq, k) THEN RemoveAt(seq, Position(seq, k)) ELSE seq

Stored(k) == Holds(entries, k)
EntryOf(k) == entries[Position(entries, k)]

\* Mutant: nothing is ever found expired.
NeverExpired(e) == FALSE

\* Live up to and including expiresAt, dead strictly after.
Expired(e) == e.expiresAt # NoExpiry /\ now > e.expiresAt

IndexIn(k) == CHOOSE i \in DOMAIN recency : recency[i] = k

Used(k) ==
  Append(IF Contains(recency, k) THEN RemoveAt(recency, IndexIn(k)) ELSE recency, k)

\* Mutant: a hit does not count as a use.
HitWithoutTouch(k) == entries

\* Deleted and inserted again: the key is now the most recently used.
Touch(k) == Append(Without(entries, k), EntryOf(k))

\* get and has both delete the expired entry they run into.  A call that finds
\* no entry, and has on a live one, change nothing and are no step here.
DropExpired(k) ==
  /\ Stored(k)
  /\ Expired(EntryOf(k))
  /\ entries' = Without(entries, k)
  /\ UNCHANGED <<now, written, recency>>

GetHit(k) ==
  /\ Stored(k)
  /\ ~Expired(EntryOf(k))
  /\ entries' = Touch(k)
  /\ recency' = Used(k)
  /\ UNCHANGED <<now, written>>

\* The entry replaces one of the same key and goes to the end.
Inserted(k, v, at) ==
  Append(Without(entries, k), [key |-> k, value |-> v, expiresAt |-> at])

\* Mutant: room is made before it is needed.
EvictedEarly(seq) == IF Len(seq) >= MaxEntries THEN Tail(seq) ELSE seq

\* From the head until the size is MaxEntries, whether or not it has expired.
Evicted(seq) ==
  IF Len(seq) > MaxEntries
  THEN SubSeq(seq, Len(seq) - MaxEntries + 1, Len(seq)) ELSE seq

\* A negative or non-finite ttl throws before anything changes.
Put(k, v, ttl) ==
  LET expiresAt == IF ttl = NoExpiry THEN NoExpiry ELSE now + ttl
  IN  /\ entries' = Evicted(Inserted(k, v, expiresAt))
      /\ written' = [written EXCEPT ![k] = [value |-> v, expiresAt |-> expiresAt]]
  /\ recency' = Used(k)
  /\ UNCHANGED now

\* It returns whether the entry was live, which nothing depends on.
Delete(k) ==
  /\ Stored(k)
  /\ entries' = Without(entries, k)
  /\ written' = [written EXCEPT ![k] = Unwritten]
  /\ UNCHANGED <<now, recency>>

Tick ==
  /\ now < MaxTime
  /\ now' = now + 1
  /\ UNCHANGED <<entries, written, recency>>

Next ==
  \/ Tick
  \/ \E k \in Key :
       \/ DropExpired(k) \/ GetHit(k) \/ Delete(k)
       \/ \E v \in Value, ttl \in Ttls : Put(k, v, ttl)

Spec == Init /\ [][Next]_vars

-----------------------------------------------------------------------------
(* What the store promises *)

Live == {k \in Key : Stored(k) /\ ~Expired(EntryOf(k))}

\* What the Map holds, expired or not.  Without ttls, as the runtime wires the
\* store, that is what a get shows; with ttls a get shows the part that is Live.
Abstract ==
  INSTANCE BoundedCache WITH
    live <- [k \in Key |-> IF Stored(k) THEN EntryOf(k).value ELSE Absent]

\* A key holds what was last put under it or nothing, and a put drops at most one
\* other key, and only when the Map is full.
ImplementsBoundedCache == Abstract!Spec

\* What a get would answer is the value last put under the key, not deleted since,
\* and its time has not passed, however often the key was overwritten, touched,
\* evicted and put again with another ttl.
AnswersAreFresh ==
  \A k \in Live :
    /\ EntryOf(k).value = written[k].value
    /\ written[k].expiresAt # NoExpiry => now <= written[k].expiresAt

\* The key a put evicts was used no later than any key that stays: a get protects
\* its key, a has does not.
EvictsLeastRecentlyUsed ==
  [][\A k \in Key : \A v \in Value, ttl \in Ttls : Put(k, v, ttl) =>
       \A lost, kept \in Key \ {k} :
         /\ Stored(lost) /\ ~Stored(lost)'
         /\ Stored(kept)'
         => IndexIn(lost) < IndexIn(kept)]_vars
=============================================================================
