----------------------------- MODULE QueryCache ------------------------------
(***************************************************************************)
(* InterQueryCache (eval/cache.py): an ordered dictionary with a bound and *)
(* a time to live, the entry used last at its end.  put, last_use and      *)
(* answer are history: what was put under each key, the order in which     *)
(* keys were used, and what the last get returned.  An order is the set of *)
(* the pairs of which the first comes before the second.                   *)
(***************************************************************************)
EXTENDS Integers, FiniteSets

CONSTANTS Keys, Values, Modules,  \* the sets of keys whose module begins alike
          MaxSize, Ttl, MaxClock   \* _max_size, _ttl, and a bound of the clock; with no room popitem raises

VARIABLES clock, store, order,   \* the dictionary and the order of its keys
          put, last_use, answer

vars == <<clock, store, order, put, last_use, answer>>

Nothing == [value |-> "none", created_at |-> 0]
Miss == [key |-> "none", entry |-> Nothing]

Init ==
  /\ clock = 0 /\ store = <<>> /\ order = {} /\ last_use = {} /\ answer = Miss
  /\ put = [k \in Keys |-> Nothing]

Within(rel, keys) == {pair \in rel : pair[1] \in keys /\ pair[2] \in keys}

\* move_to_end, and where a new key goes
AtEnd(rel, keys, k) == Within(rel, keys \ {k}) \cup {<<j, k>> : j \in keys \ {k}}
Used(k) == last_use' = AtEnd(last_use, Keys, k)

\* The dictionary of some of its keys
Keep(keys) ==
  /\ store' = [k \in keys |-> store[k]]
  /\ order' = Within(order, keys)

Tick == clock < MaxClock /\ clock' = clock + 1 /\ UNCHANGED <<store, order, put, last_use, answer>>

Expired(e) == clock - e.created_at > Ttl

\* Mutant: a hit leaves the entry where it is.
HitInPlace(k) ==
  /\ Used(k) /\ answer' = [key |-> k, entry |-> store[k]]
  /\ UNCHANGED <<store, order>>

Hit(k) ==
  /\ order' = AtEnd(order, DOMAIN store, k) /\ Used(k)
  /\ answer' = [key |-> k, entry |-> store[k]]
  /\ UNCHANGED store

\* get: an entry past its time is deleted and missed
Get(k) ==
  /\ UNCHANGED <<clock, put>>
  /\ \/ k \notin DOMAIN store /\ answer' = Miss /\ UNCHANGED <<store, order, last_use>>
     \/ /\ k \in DOMAIN store /\ Expired(store[k])
        /\ Keep(DOMAIN store \ {k}) /\ answer' = Miss /\ UNCHANGED last_use
     \/ k \in DOMAIN store /\ ~Expired(store[k]) /\ Hit(k)

\* The first of the order
Oldest == {k \in DOMAIN store : \A j \in DOMAIN store \ {k} : <<k, j>> \in order}

\* A key that is there moves to the end; another one takes the place of the first.
Staying(k) ==
  IF k \in DOMAIN store \/ Cardinality(DOMAIN store) < MaxSize THEN DOMAIN store
  ELSE DOMAIN store \ Oldest

\* Mutant: the entry of a key that is there is left as it is.
StoredOnce(k, e) ==
  [j \in Staying(k) \cup {k} |-> IF j \in DOMAIN store THEN store[j] ELSE e]

Stored(k, e) == [j \in Staying(k) \cup {k} |-> IF j = k THEN e ELSE store[j]]

Put(k, v) ==
  LET e == [value |-> v, created_at |-> clock]
  IN /\ store' = Stored(k, e) /\ order' = AtEnd(order, Staying(k) \cup {k}, k) /\ Used(k)
     /\ put' = [put EXCEPT ![k] = e]
     /\ UNCHANGED <<clock, answer>>

\* invalidate, invalidate_prefix and clear
Invalidate(keys) ==
  /\ Keep(DOMAIN store \ keys)
  /\ put' = [k \in Keys |-> IF k \in keys THEN Nothing ELSE put[k]]
  /\ UNCHANGED <<clock, last_use, answer>>

Next ==
  \/ Tick
  \/ \E k \in Keys : Get(k) \/ \E v \in Values : Put(k, v)
  \/ \E keys \in {{k} : k \in Keys} \cup Modules \cup {Keys} : Invalidate(keys)

-----------------------------------------------------------------------------
\* A get answers with the value put last and not invalidated since, at most a time to live
\* ago, whatever was evicted, expired and put again in between (get, put, invalidate).
AnswersLastPut ==
  [][answer' # answer /\ answer' # Miss =>
       answer'.entry = put[answer'.key] /\ clock - answer'.entry.created_at <= Ttl]_vars

\* A put of a new key leaves no more entries than there is room for, drops one at most,
\* and the one that makes room was used, by a get or a put, before every entry that stays
\* (the bound and the LRU order of put and get).
EvictsLeastRecent ==
  [][DOMAIN store' \ DOMAIN store # {} =>
       /\ Cardinality(DOMAIN store') <= MaxSize
       /\ \A k \in DOMAIN store \ DOMAIN store' : \A j \in DOMAIN store \ {k} :
            j \in DOMAIN store' /\ <<k, j>> \in last_use]_vars
=============================================================================
