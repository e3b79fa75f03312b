-------------------------------- MODULE Lru ---------------------------------
(***************************************************************************)
(* The bounded caches of pipeline.py.  _events_for and _state_for use a    *)
(* collections.OrderedDict in the same way: insert a missing key at the    *)
(* end and pop the first one when the cap is exceeded, move a present key  *)
(* to the end.  An order lists the keys of such a dict, oldest use first.  *)
(***************************************************************************)
EXTENDS Integers, Sequences, FiniteSets, SequencesExt

Cached(order, key) == Contains(order, key)

Position(order, key) == CHOOSE i \in DOMAIN order : order[i] = key

\* Mutant: a hit does not renew the key.
MoveToEndNever(order, key) == order

\* OrderedDict.move_to_end
MoveToEnd(order, key) == Append(RemoveAt(order, Position(order, key)), key)

\* Mutant: the cap is off by one.
InsertOneMore(order, key, cap) ==
  IF Len(order) > cap THEN Tail(Append(order, key)) ELSE Append(order, key)

\* d[key] = value on a missing key, then popitem(last=False) beyond the cap.
Insert(order, key, cap) ==
  IF Len(order) + 1 > cap THEN Tail(Append(order, key)) ELSE Append(order, key)

\* The order after key was looked up.
Touch(order, key, cap) ==
  IF Cached(order, key) THEN MoveToEnd(order, key) ELSE Insert(order, key, cap)

\* Recency without a cache: recent[k] is the set of the other keys that were
\* used since k was used last.
Use(recent, key) ==
  [k \in DOMAIN recent |-> IF k = key THEN {} ELSE recent[k] \cup {key}]

-----------------------------------------------------------------------------
(* The invariant that makes the cache an exact LRU of the keys used so far. *)

Newer(order, i) == {order[j] : j \in i + 1 .. Len(order)}

LruInv(order, recent, used, cap) ==
  /\ \A i, j \in DOMAIN order : order[i] = order[j] => i = j
  /\ Len(order) <= cap
  /\ \A i \in DOMAIN order : order[i] \in used /\ recent[order[i]] = Newer(order, i)
  /\ \A k \in used : ~Cached(order, k) => Cardinality(recent[k]) >= cap
=============================================================================
