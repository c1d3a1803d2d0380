---------------------------- MODULE BoundedCache ----------------------------
(***************************************************************************)
(* What the result cache promises its caller (cache-store.ts, CacheStore): *)
(* a key holds the value last put under it or nothing, and a put makes     *)
(* room by dropping one other key, and only when the cache is full.  Which *)
(* key is dropped is the business of CacheStore, which implements this.    *)
(* Without expiry, what a key holds is what a get shows.                   *)
(***************************************************************************)
EXTENDS Naturals, FiniteSets

CONSTANTS Key, Value, Absent, MaxEntries

VARIABLE live            \* [Key -> Value \cup {Absent}] what each key holds

TypeOK == live \in [Key -> Value \cup {Absent}]

Init == live = [k \in Key |-> Absent]

Present == {k \in Key : live[k] # Absent}

PutWithRoom(k, v) ==
  /\ Cardinality(Present \cup {k}) <= MaxEntries
  /\ live' = [live EXCEPT ![k] = v]

PutEvicting(k, v) ==
  /\ Cardinality(Present \cup {k}) > MaxEntries
  /\ \E e \in Present \ {k} : live' = [live EXCEPT ![k] = v, ![e] = Absent]

Put(k, v) == PutWithRoom(k, v) \/ PutEvicting(k, v)

Delete(k) == live' = [live EXCEPT ![k] = Absent]

Next ==
  \E k \in Key : Delete(k) \/ \E v \in Value : Put(k, v)

Spec == Init /\ [][Next]_live
=============================================================================
