--------------------------- MODULE PipelineProofs ---------------------------
(***************************************************************************)
(* Theorems about Pipeline, for every set of spans and traces, every cap,  *)
(* every threshold and every behaviour of the content detectors and the    *)
(* local model.  The inductive invariant is Inv, at the end of Pipeline.   *)
(***************************************************************************)
EXTENDS Pipeline, DetectorProofs

(* The caches.  Touch and Use preserve LruInv, for every cap and every finite set of  *)
(* keys: an OrderedDict handled as pipeline.py does keeps exactly the keys that fewer *)
(* than cap others were used after.                                                   *)

\* A sequence is a function on 1..Len: what the steps below use of one.
LEMMA OrderShape ==
  ASSUME NEW K, NEW order \in Seq(K)
  PROVE  /\ Len(order) \in Nat
         /\ DOMAIN order = 1 .. Len(order)
         /\ \A i \in 1 .. Len(order) : order[i] \in K
  BY LenProperties, ElementOfSeq

\* The keys after position i are as many as the positions after i.
LEMMA NewerCardinality ==
  ASSUME NEW K, NEW order \in Seq(K),
         \A i, j \in DOMAIN order : order[i] = order[j] => i = j,
         NEW p \in 1 .. Len(order)
  PROVE  /\ IsFiniteSet(Newer(order, p))
         /\ Cardinality(Newer(order, p)) = Len(order) - p
<1> DEFINE D == p + 1 .. Len(order)
           f == [j \in D |-> order[j]]
<1>1. Len(order) \in Nat /\ DOMAIN order = 1 .. Len(order)
  BY OrderShape
<1>2. f \in Surjection(D, Newer(order, p))
  BY <1>1 DEF Surjection, Newer
<1>3. f \in Injection(D, Newer(order, p))
  BY <1>1, <1>2 DEF Injection, IsInjective, Surjection
<1>4. IsFiniteSet(D) /\ Cardinality(D) = Len(order) - p
  <2>1. p + 1 \in Int /\ Len(order) \in Int /\ p <= Len(order)
    BY <1>1
  <2>2. IsFiniteSet(D) /\ Cardinality(D) = IF p + 1 > Len(order) THEN 0 ELSE Len(order) - (p + 1) + 1
    BY <2>1, FS_Interval
  <2> QED  BY <2>1, <2>2
<1>5. /\ IsFiniteSet(Newer(order, p))
      /\ Cardinality(Newer(order, p)) = Cardinality(D)
  <2> HIDE DEF f, D
  <2> QED  BY <1>2, <1>3, <1>4, FS_Surjection
<1> QED  BY <1>1, <1>4, <1>5

\* Removing position p closes the gap.
LEMMA RemoveAtShape ==
  ASSUME NEW K, NEW order \in Seq(K), NEW p \in 1 .. Len(order)
  PROVE  /\ RemoveAt(order, p) \in Seq(K)
         /\ Len(RemoveAt(order, p)) = Len(order) - 1
         /\ \A i \in 1 .. Len(order) - 1 :
              RemoveAt(order, p)[i] = IF i < p THEN order[i] ELSE order[i + 1]
<1> DEFINE a == SubSeq(order, 1, p - 1)
           b == SubSeq(order, p + 1, Len(order))
<1>1. Len(order) \in Nat /\ \A i \in 1 .. Len(order) : order[i] \in K
  BY OrderShape
<1>2. /\ a \in Seq(K)
      /\ Len(a) = p - 1
      /\ \A i \in 1 .. p - 1 : a[i] = order[i]
  <2>1. /\ 1 \in Int /\ p - 1 \in Int
        /\ \A i \in 1 .. p - 1 : order[i] \in K
    BY <1>1
  <2>2. /\ a \in Seq(K)
        /\ Len(a) = IF 1 <= p - 1 THEN p - 1 - 1 + 1 ELSE 0
        /\ \A i \in 1 .. p - 1 - 1 + 1 : a[i] = order[1 + i - 1]
    BY <2>1, SubSeqProperties
  <2> HIDE DEF a
  <2> QED  BY <1>1, <2>2
<1>3. /\ b \in Seq(K)
      /\ Len(b) = Len(order) - p
      /\ \A i \in 1 .. Len(order) - p : b[i] = order[p + i]
  <2>1. /\ p + 1 \in Int /\ Len(order) \in Int
        /\ \A i \in p + 1 .. Len(order) : order[i] \in K
    BY <1>1
  <2>2. /\ b \in Seq(K)
        /\ Len(b) = IF p + 1 <= Len(order) THEN Len(order) - (p + 1) + 1 ELSE 0
        /\ \A i \in 1 .. Len(order) - (p + 1) + 1 : b[i] = order[p + 1 + i - 1]
    BY <2>1, SubSeqProperties
  <2> HIDE DEF b
  <2> QED  BY <1>1, <2>2
<1>4. RemoveAt(order, p) = a \o b
  BY DEF RemoveAt
<1> HIDE DEF a, b
<1>5. /\ a \o b \in Seq(K)
      /\ Len(a \o b) = Len(a) + Len(b)
      /\ \A i \in 1 .. Len(a) + Len(b) :
           (a \o b)[i] = IF i <= Len(a) THEN a[i] ELSE b[i - Len(a)]
  BY <1>2, <1>3, ConcatProperties
<1> QED  BY <1>1, <1>2, <1>3, <1>4, <1>5

\* The order after a hit: the keys behind the touched one move up by one.
LEMMA MoveToEndShape ==
  ASSUME NEW K, NEW order \in Seq(K), NEW key \in K, Cached(order, key)
  PROVE  LET p == Position(order, key)
             moved == MoveToEnd(order, key)
         IN  /\ p \in 1 .. Len(order) /\ order[p] = key
             /\ moved \in Seq(K)
             /\ Len(moved) = Len(order)
             /\ \A i \in 1 .. Len(order) :
                  moved[i] = IF i = Len(order) THEN key
                             ELSE IF i < p THEN order[i] ELSE order[i + 1]
<1> DEFINE p == Position(order, key)
           rest == RemoveAt(order, p)
<1>1. Len(order) \in Nat /\ DOMAIN order = 1 .. Len(order)
  BY OrderShape
<1>2. p \in 1 .. Len(order) /\ order[p] = key
  BY <1>1 DEF Position, Cached, Contains
<1>3. /\ rest \in Seq(K)
      /\ Len(rest) = Len(order) - 1
      /\ \A i \in 1 .. Len(order) - 1 :
           rest[i] = IF i < p THEN order[i] ELSE order[i + 1]
  <2> HIDE DEF p
  <2> QED  BY <1>2, RemoveAtShape
<1>4. MoveToEnd(order, key) = Append(rest, key)
  BY DEF MoveToEnd
<1> HIDE DEF p, rest
<1>5. /\ Append(rest, key) \in Seq(K)
      /\ Len(Append(rest, key)) = Len(rest) + 1
      /\ \A i \in 1 .. Len(rest) : Append(rest, key)[i] = rest[i]
      /\ Append(rest, key)[Len(rest) + 1] = key
  BY <1>3, AppendProperties
<1> DEFINE moved == MoveToEnd(order, key)
<1>6. moved \in Seq(K) /\ Len(moved) = Len(order)
  BY <1>1, <1>3, <1>4, <1>5
<1>7. ASSUME NEW i \in 1 .. Len(order)
      PROVE  moved[i] = IF i = Len(order) THEN key
                        ELSE IF i < p THEN order[i] ELSE order[i + 1]
  <2>1. CASE i = Len(order)
    BY <1>1, <1>3, <1>4, <1>5, <2>1
  <2>2. CASE i # Len(order)
    <3>1. Len(order) \in Nat /\ i \in Int /\ 1 <= i /\ i <= Len(order)
      BY <1>1
    <3>2. i <= Len(order) - 1
      BY <3>1, <2>2
    <3>3. i \in 1 .. Len(order) - 1
      BY <3>1, <3>2
    <3> QED  BY <1>3, <1>4, <1>5, <2>2, <3>3
  <2> QED  BY <2>1, <2>2
<1> QED  BY <1>2, <1>6, <1>7 DEF p

\* The order after a miss: the key comes last, and beyond the cap the oldest
\* key goes.
LEMMA InsertShape ==
  ASSUME NEW K, NEW order \in Seq(K), NEW key \in K, NEW cap \in Nat
  PROVE  LET placed == Insert(order, key, cap)
             gone == IF Len(order) + 1 > cap THEN 1 ELSE 0
         IN  /\ placed \in Seq(K)
             /\ Len(placed) = Len(order) + 1 - gone
             /\ \A i \in 1 .. Len(order) + 1 - gone :
                  placed[i] = IF i + gone = Len(order) + 1 THEN key ELSE order[i + gone]
<1> DEFINE longer == Append(order, key)
<1>1. Len(order) \in Nat
  BY OrderShape
<1>2. /\ longer \in Seq(K)
      /\ longer # <<>>
      /\ Len(longer) = Len(order) + 1
      /\ \A i \in 1 .. Len(order) : longer[i] = order[i]
      /\ longer[Len(order) + 1] = key
  BY AppendProperties
<1>3. Insert(order, key, cap) = IF Len(order) + 1 > cap THEN Tail(longer) ELSE longer
  BY DEF Insert
<1> HIDE DEF longer
<1>4. /\ Tail(longer) \in Seq(K)
      /\ Len(Tail(longer)) = Len(longer) - 1
      /\ \A i \in 1 .. Len(Tail(longer)) : Tail(longer)[i] = longer[i + 1]
  BY <1>2, HeadTailProperties
<1>5. CASE Len(order) + 1 > cap
  BY <1>1, <1>2, <1>3, <1>4, <1>5
<1>6. CASE ~(Len(order) + 1 > cap)
  BY <1>1, <1>2, <1>3, <1>6
<1> QED  BY <1>5, <1>6

-----------------------------------------------------------------------------
(* The two cases of a lookup. *)

\* The keys used since another key was used never become fewer by a use.
LEMMA UseGrows ==
  ASSUME NEW K, IsFiniteSet(K), NEW recent \in [K -> SUBSET K],
         NEW key \in K, NEW k \in K, k # key
  PROVE  /\ Use(recent, key)[k] = recent[k] \cup {key}
         /\ IsFiniteSet(recent[k])
         /\ Cardinality(recent[k]) \in Nat
         /\ Cardinality(Use(recent, key)[k]) \in Nat
         /\ Cardinality(Use(recent, key)[k]) >= Cardinality(recent[k])
         /\ key \notin recent[k] =>
              Cardinality(Use(recent, key)[k]) = Cardinality(recent[k]) + 1
<1>1. Use(recent, key)[k] = recent[k] \cup {key}
  BY DEF Use
<1>2. IsFiniteSet(recent[k])
  BY FS_Subset
<1>3. Cardinality(recent[k]) \in Nat
  BY <1>2, FS_CardinalityType
<1>4. Cardinality(recent[k] \cup {key}) =
        IF key \in recent[k] THEN Cardinality(recent[k]) ELSE Cardinality(recent[k]) + 1
  BY <1>2, FS_AddElement
<1> QED  BY <1>1, <1>2, <1>3, <1>4

\* A hit: nothing leaves the cache, and the keys behind the touched one keep
\* exactly the keys used after them.
LEMMA HitPreserves ==
  ASSUME NEW K, IsFiniteSet(K), NEW order \in Seq(K),
         NEW recent \in [K -> SUBSET K], NEW used \in SUBSET K, NEW cap \in Nat \ {0},
         NEW key \in K, LruInv(order, recent, used, cap), Cached(order, key)
  PROVE  LruInv(MoveToEnd(order, key), Use(recent, key), used \cup {key}, cap)
<1> DEFINE n == Len(order)
           p == Position(order, key)
           moved == MoveToEnd(order, key)
           back(i) == IF i = n THEN p ELSE IF i < p THEN i ELSE i + 1
<1>1. n \in Nat /\ DOMAIN order = 1 .. n /\ \A i \in 1 .. n : order[i] \in K
  BY OrderShape
<1>2. /\ p \in 1 .. n /\ order[p] = key
      /\ moved \in Seq(K)
      /\ Len(moved) = n
      /\ \A i \in 1 .. n : moved[i] = IF i = n THEN key
                                      ELSE IF i < p THEN order[i] ELSE order[i + 1]
  BY MoveToEndShape
<1>3. DOMAIN moved = 1 .. n
  BY <1>2, OrderShape
<1> HIDE DEF n, p, moved
\* back(i) is where the key at position i of the new order was before.
<1>4. \A i \in 1 .. n : back(i) \in 1 .. n /\ moved[i] = order[back(i)]
  BY <1>1, <1>2
<1>5. \A i, j \in 1 .. n : back(i) = back(j) => i = j
  BY <1>1, <1>2
\* front(m) is where the key at position m # p went.
<1> DEFINE front(m) == IF m < p THEN m ELSE m - 1
<1>6. ASSUME NEW m \in 1 .. n, m # p
      PROVE  /\ front(m) \in 1 .. n /\ front(m) # n
             /\ moved[front(m)] = order[m]
  <2>1. /\ n \in Int /\ m \in Int /\ p \in Int /\ front(m) \in Int
        /\ 1 <= m /\ m <= n /\ 1 <= p /\ p <= n
    BY <1>1, <1>2
  <2>2. 1 <= front(m) /\ front(m) <= n - 1
    BY <2>1, <1>6
  <2>3. front(m) \in 1 .. n /\ front(m) # n
    BY <2>1, <2>2
  <2>4. back(front(m)) = m
    BY <2>1, <2>3, <1>6
  <2> HIDE DEF front, back
  <2> QED  BY <2>3, <2>4, <1>4
<1>7. /\ \A i, j \in DOMAIN order : order[i] = order[j] => i = j
      /\ n <= cap
      /\ \A i \in DOMAIN order : order[i] \in used /\ recent[order[i]] = Newer(order, i)
      /\ \A k \in used : ~Cached(order, k) => Cardinality(recent[k]) >= cap
  BY DEF LruInv, n
<1>8. \A i, j \in DOMAIN moved : moved[i] = moved[j] => i = j
  BY <1>1, <1>3, <1>4, <1>5, <1>7
<1>9. moved[n] = key /\ n \in 1 .. n
  BY <1>1, <1>2
<1>10. ASSUME NEW i \in 1 .. n
       PROVE  /\ moved[i] \in used \cup {key}
              /\ Use(recent, key)[moved[i]] = Newer(moved, i)
  <2>1. moved[i] \in used \cup {key}
    BY <1>1, <1>4, <1>7
  <2>2. moved[i] \in K
    BY <1>1, <1>4
  <2>3. Newer(moved, i) = {moved[j] : j \in i + 1 .. n}
    BY <1>2 DEF Newer
  <2>4. CASE i = n
    <3>1. Newer(moved, i) = {}
      BY <1>1, <2>3, <2>4
    <3> QED  BY <1>9, <2>1, <2>4, <3>1 DEF Use
  <2>5. CASE i # n
    <3> DEFINE b == back(i)
    <3>1. moved[i] # key
      BY <1>3, <1>8, <1>9, <2>5
    <3>2. Use(recent, key)[moved[i]] = recent[moved[i]] \cup {key}
      BY <2>2, <3>1 DEF Use
    <3>3. b \in 1 .. n /\ moved[i] = order[b]
      BY <1>4
    <3>4. recent[moved[i]] = {order[m] : m \in b + 1 .. n}
      <4> HIDE DEF b
      <4> QED  BY <1>1, <1>7, <3>3 DEF Newer, n
    <3>5. ASSUME NEW j \in i + 1 .. n
          PROVE  moved[j] \in {order[m] : m \in b + 1 .. n} \cup {key}
      <4>1. CASE j = n
        BY <1>9, <4>1
      <4>2. CASE j # n
        <5>1. j \in 1 .. n /\ back(j) \in 1 .. n /\ moved[j] = order[back(j)]
          <6>1. j \in 1 .. n
            BY <1>1
          <6> QED  BY <6>1, <1>4
        <5>2. back(j) \in b + 1 .. n
          BY <1>1, <1>2, <2>5, <4>2, <5>1
        <5> QED  BY <5>1, <5>2
      <4> QED  BY <4>1, <4>2
    <3>6. ASSUME NEW m \in b + 1 .. n
          PROVE  order[m] \in {moved[j] : j \in i + 1 .. n}
      <4>0. m \in 1 .. n /\ m > b
        <5> HIDE DEF b
        <5> QED  BY <1>1, <3>3
      <4>1. CASE m = p
        BY <1>1, <1>2, <1>9, <2>5, <4>1
      <4>2. CASE m # p
        <5>1. /\ front(m) \in 1 .. n /\ front(m) # n
              /\ moved[front(m)] = order[m]
          BY <1>6, <4>0, <4>2
        <5>2. front(m) \in i + 1 .. n
          BY <1>1, <1>2, <2>5, <4>0, <4>2, <5>1
        <5> QED  BY <5>1, <5>2
      <4> QED  BY <4>1, <4>2
    <3>7. key \in {moved[j] : j \in i + 1 .. n}
      BY <1>1, <1>9, <2>5
    <3>8. Newer(moved, i) = recent[moved[i]] \cup {key}
      <4> HIDE DEF b, back, front
      <4> QED  BY <2>3, <3>4, <3>5, <3>6, <3>7
    <3> QED  BY <2>1, <3>2, <3>8
  <2> QED  BY <2>4, <2>5
<1>11. ASSUME NEW k \in used \cup {key}, ~Cached(moved, k)
       PROVE  Cardinality(Use(recent, key)[k]) >= cap
  <2>1. k # key
    BY <1>2, <1>9, <1>11 DEF Cached, Contains
  <2>2. ~Cached(order, k)
    <3>1. ASSUME NEW m \in 1 .. n, order[m] = k
          PROVE  FALSE
      <4>1. m # p
        BY <1>2, <2>1, <3>1
      <4>2. front(m) \in 1 .. n /\ moved[front(m)] = k
        BY <1>6, <3>1, <4>1
      <4> HIDE DEF front
      <4> QED  BY <1>2, <1>11, <4>2 DEF Cached, Contains
    <3> QED  BY <3>1 DEF Cached, Contains, n
  <2>3. k \in used /\ k \in K /\ Cardinality(recent[k]) >= cap
    BY <1>7, <2>1, <2>2
  <2> QED  BY <2>1, <2>3, UseGrows
<1> QED  BY <1>2, <1>3, <1>7, <1>8, <1>10, <1>11 DEF LruInv, moved

\* A miss: the new key comes last; if the cache was full, the key that goes is
\* the oldest, after which cap others were used.
LEMMA MissPreserves ==
  ASSUME NEW K, IsFiniteSet(K), NEW order \in Seq(K),
         NEW recent \in [K -> SUBSET K], NEW used \in SUBSET K, NEW cap \in Nat \ {0},
         NEW key \in K, LruInv(order, recent, used, cap), ~Cached(order, key)
  PROVE  LruInv(Insert(order, key, cap), Use(recent, key), used \cup {key}, cap)
<1> DEFINE n == Len(order)
           gone == IF n + 1 > cap THEN 1 ELSE 0
           placed == Insert(order, key, cap)
           m == n + 1 - gone
<1>1. n \in Nat /\ DOMAIN order = 1 .. n /\ \A i \in 1 .. n : order[i] \in K
  BY OrderShape
<1>2. /\ placed \in Seq(K)
      /\ Len(placed) = m
      /\ \A i \in 1 .. m : placed[i] = IF i + gone = n + 1 THEN key ELSE order[i + gone]
  BY InsertShape
<1>3. DOMAIN placed = 1 .. m
  BY <1>2, OrderShape
<1>4. /\ \A i, j \in DOMAIN order : order[i] = order[j] => i = j
      /\ n <= cap
      /\ \A i \in DOMAIN order : order[i] \in used /\ recent[order[i]] = Newer(order, i)
      /\ \A k \in used : ~Cached(order, k) => Cardinality(recent[k]) >= cap
  BY DEF LruInv
<1>5. \A i \in 1 .. n : order[i] # key
  BY DEF Cached, Contains
<1>6. /\ gone \in 0 .. 1
      /\ m \in 1 .. cap
      /\ gone = 1 => m = n /\ n = cap
      /\ gone = 0 => m = n + 1
  <2>1. n \in Int /\ 0 <= n /\ n <= cap /\ cap \in Int /\ 1 <= cap
    BY <1>1, <1>4
  <2> HIDE DEF n
  <2>2. CASE n + 1 > cap
    <3>1. gone = 1 /\ n = cap /\ m = n
      BY <2>1, <2>2
    <3> QED  BY <2>1, <3>1
  <2>3. CASE ~(n + 1 > cap)
    <3>1. gone = 0 /\ m = n + 1 /\ m <= cap
      BY <2>1, <2>3
    <3> QED  BY <2>1, <3>1
  <2> QED  BY <2>2, <2>3
<1> HIDE DEF n, placed, gone, m
<1>7. /\ placed[m] = key
      /\ m + gone = n + 1
      /\ \A i \in 1 .. m : i # m => i + gone \in 1 .. n /\ placed[i] = order[i + gone]
  BY <1>1, <1>2, <1>6
<1>8. \A i, j \in DOMAIN placed : placed[i] = placed[j] => i = j
  <2> SUFFICES ASSUME NEW i \in 1 .. m, NEW j \in 1 .. m, placed[i] = placed[j]
               PROVE  i = j
    BY <1>3
  <2>1. CASE i = m \/ j = m
    BY <1>5, <1>7, <2>1
  <2>2. CASE i # m /\ j # m
    <3>1. i + gone = j + gone
      BY <1>1, <1>4, <1>7, <2>2
    <3> QED  BY <1>6, <3>1
  <2> QED  BY <2>1, <2>2
<1>9. ASSUME NEW i \in 1 .. m
      PROVE  /\ placed[i] \in used \cup {key}
             /\ Use(recent, key)[placed[i]] = Newer(placed, i)
  <2>1. Newer(placed, i) = {placed[j] : j \in i + 1 .. m}
    BY <1>2 DEF Newer
  <2>2. CASE i = m
    <3>1. Newer(placed, i) = {}
      BY <1>6, <2>1, <2>2
    <3> QED  BY <1>7, <2>2, <3>1 DEF Use
  <2>3. CASE i # m
    <3> DEFINE b == i + gone
    <3>1. b \in 1 .. n /\ placed[i] = order[b] /\ order[b] \in K /\ order[b] # key
      BY <1>1, <1>5, <1>7, <2>3
    <3>2. Use(recent, key)[placed[i]] = {order[j] : j \in b + 1 .. n} \cup {key}
      <4> HIDE DEF b
      <4> QED  BY <1>1, <1>4, <3>1 DEF Use, Newer, n
    <3>3. \A j \in i + 1 .. m : placed[j] \in {order[l] : l \in b + 1 .. n} \cup {key}
      <4> TAKE j \in i + 1 .. m
      <4>1. CASE j = m
        BY <1>7, <4>1
      <4>2. CASE j # m
        <5>1. j \in 1 .. m
          BY <1>6
        <5>2. j + gone \in 1 .. n /\ placed[j] = order[j + gone]
          BY <1>7, <4>2, <5>1
        <5>3. j + gone \in b + 1 .. n
          BY <1>1, <1>6, <5>2
        <5> QED  BY <5>2, <5>3
      <4> QED  BY <4>1, <4>2
    <3>4. \A l \in b + 1 .. n : order[l] \in {placed[j] : j \in i + 1 .. m}
      <4> TAKE l \in b + 1 .. n
      <4>1. l - gone \in i + 1 .. m /\ l - gone # m /\ l - gone \in 1 .. m
        BY <1>1, <1>6, <1>7
      <4>2. placed[l - gone] = order[l]
        BY <1>6, <1>7, <4>1
      <4> QED  BY <4>1, <4>2
    <3>5. key \in {placed[j] : j \in i + 1 .. m}
      BY <1>6, <1>7, <2>3
    <3> HIDE DEF b
    <3> QED  BY <1>4, <1>1, <2>1, <3>1, <3>2, <3>3, <3>4, <3>5
  <2> QED  BY <2>2, <2>3
<1>10. ASSUME NEW k \in used \cup {key}, ~Cached(placed, k)
       PROVE  Cardinality(Use(recent, key)[k]) >= cap
  <2>1. k # key
    BY <1>2, <1>6, <1>7, <1>10 DEF Cached, Contains
  <2>2. k \in used /\ k \in K
    BY <2>1
  <2>3. CASE ~Cached(order, k)
    BY <1>4, <2>1, <2>2, <2>3, UseGrows
  <2>4. CASE Cached(order, k)
    <3>1. PICK l \in 1 .. n : order[l] = k
      BY <2>4 DEF Cached, Contains, n
    <3>2. gone = 1 /\ l = 1
      <4> SUFFICES ASSUME ~(gone = 1 /\ l = 1)
                   PROVE  FALSE
        OBVIOUS
      <4>1. l - gone \in 1 .. m /\ l - gone # m
        BY <1>1, <1>6, <1>7, <3>1
      <4>2. placed[l - gone] = k
        BY <1>6, <1>7, <3>1, <4>1
      <4> QED  BY <1>2, <1>10, <4>1, <4>2 DEF Cached, Contains
    <3>3. recent[k] = Newer(order, 1)
      BY <1>1, <1>4, <3>1, <3>2
    <3>4. Cardinality(recent[k]) = n - 1 /\ n = cap
      <4>1. 1 \in 1 .. n
        BY <3>1, <3>2
      <4> QED  BY <1>4, <1>6, <3>2, <3>3, <4>1, NewerCardinality DEF n
    <3>5. key \notin recent[k]
      BY <1>1, <1>5, <3>3 DEF Newer, n
    <3> QED  BY <1>1, <2>1, <2>2, <3>4, <3>5, UseGrows
  <2> QED  BY <2>3, <2>4
<1> QED  BY <1>2, <1>3, <1>6, <1>8, <1>9, <1>10 DEF LruInv, placed

-----------------------------------------------------------------------------
(* What the users of a cache need. *)

\* Looking a key up preserves the invariant, hit or miss.
LEMMA TouchPreserves ==
  ASSUME NEW K, IsFiniteSet(K), NEW order \in Seq(K),
         NEW recent \in [K -> SUBSET K], NEW used \in SUBSET K, NEW cap \in Nat \ {0},
         NEW key \in K, LruInv(order, recent, used, cap)
  PROVE  LruInv(Touch(order, key, cap), Use(recent, key), used \cup {key}, cap)
  BY HitPreserves, MissPreserves DEF Touch

\* A lookup leaves its key in the cache and brings in no other.
LEMMA TouchShape ==
  ASSUME NEW K, NEW order \in Seq(K), NEW cap \in Nat \ {0}, NEW key \in K
  PROVE  /\ Touch(order, key, cap) \in Seq(K)
         /\ Cached(Touch(order, key, cap), key)
         /\ \A k \in K : k # key /\ Cached(Touch(order, key, cap), k) => Cached(order, k)
<1> DEFINE n == Len(order)
<1>1. n \in Nat
  BY OrderShape
<1>2. CASE Cached(order, key)
  <2> DEFINE p == Position(order, key)
             moved == MoveToEnd(order, key)
  <2>1. Touch(order, key, cap) = moved
    BY <1>2 DEF Touch
  <2>2. /\ p \in 1 .. n
        /\ moved \in Seq(K)
        /\ Len(moved) = n
        /\ \A i \in 1 .. n : moved[i] = IF i = n THEN key
                                        ELSE IF i < p THEN order[i] ELSE order[i + 1]
    BY <1>2, MoveToEndShape
  <2> HIDE DEF n, p, moved
  <2>3. n \in 1 .. n /\ moved[n] = key
    BY <1>1, <2>2
  <2>4. \A i \in 1 .. n : moved[i] = key \/ \E j \in 1 .. n : moved[i] = order[j]
    <3> TAKE i \in 1 .. n
    <3>1. CASE i = n
      BY <2>3, <3>1
    <3>2. CASE i < p
      BY <1>1, <2>2, <3>2
    <3>3. CASE i # n /\ ~(i < p)
      <4>1. i + 1 \in 1 .. n /\ moved[i] = order[i + 1]
        BY <1>1, <2>2, <3>3
      <4> QED  BY <4>1
    <3> QED  BY <3>1, <3>2, <3>3
  <2> QED  BY <2>1, <2>2, <2>3, <2>4 DEF Cached, Contains, n
<1>3. CASE ~Cached(order, key)
  <2> DEFINE gone == IF n + 1 > cap THEN 1 ELSE 0
             placed == Insert(order, key, cap)
             m == n + 1 - gone
  <2>1. Touch(order, key, cap) = placed
    BY <1>3 DEF Touch
  <2>2. /\ placed \in Seq(K)
        /\ Len(placed) = m
        /\ \A i \in 1 .. m : placed[i] = IF i + gone = n + 1 THEN key ELSE order[i + gone]
    BY InsertShape
  <2>3. gone \in 0 .. 1 /\ m = n + 1 - gone /\ m \in 1 .. n + 1
    <3>1. CASE n + 1 > cap
      <4>1. n >= 1 /\ gone = 1 /\ m = n
        BY <1>1, <3>1
      <4> QED  BY <1>1, <4>1
    <3>2. CASE ~(n + 1 > cap)
      BY <1>1, <3>2
    <3> QED  BY <3>1, <3>2
  <2> HIDE DEF n, gone, placed, m
  <2>4. m \in 1 .. m /\ placed[m] = key
    BY <1>1, <2>2, <2>3
  <2>5. \A i \in 1 .. m : placed[i] = key \/ \E j \in 1 .. n : placed[i] = order[j]
    <3> TAKE i \in 1 .. m
    <3>1. CASE i = m
      BY <2>4, <3>1
    <3>2. CASE i # m
      <4>1. i + gone \in 1 .. n /\ placed[i] = order[i + gone]
        BY <1>1, <2>2, <2>3, <3>2
      <4> QED  BY <4>1
    <3> QED  BY <3>1, <3>2
  <2> QED  BY <2>1, <2>2, <2>4, <2>5 DEF Cached, Contains, n
<1> QED  BY <1>2, <1>3

\* A key is kept exactly as long as fewer than cap others were used after it.
LEMMA CachedIffRecent ==
  ASSUME NEW K, IsFiniteSet(K), NEW order \in Seq(K),
         NEW recent \in [K -> SUBSET K], NEW used \in SUBSET K, NEW cap \in Nat \ {0},
         LruInv(order, recent, used, cap), NEW k \in used
  PROVE  Cached(order, k) <=> Cardinality(recent[k]) < cap
<1>1. Len(order) \in Nat /\ DOMAIN order = 1 .. Len(order) /\ Len(order) <= cap
  BY OrderShape DEF LruInv
<1>2. Cardinality(recent[k]) \in Nat
  BY FS_Subset, FS_CardinalityType
<1>3. ASSUME Cached(order, k)
      PROVE  Cardinality(recent[k]) < cap
  <2>1. PICK p \in 1 .. Len(order) : order[p] = k
    BY <1>3 DEF Cached, Contains
  <2>2. recent[k] = Newer(order, p)
    BY <1>1, <2>1 DEF LruInv
  <2>3. Cardinality(recent[k]) = Len(order) - p
    BY <2>2, NewerCardinality DEF LruInv
  <2> QED  BY <1>1, <2>3
<1>4. ASSUME ~Cached(order, k)
      PROVE  ~(Cardinality(recent[k]) < cap)
  BY <1>2, <1>4 DEF LruInv
<1> QED  BY <1>3, <1>4

-----------------------------------------------------------------------------
(* The invariant, and each action. *)

LEMMA Constants ==
  /\ IsFiniteSet(Spans) /\ IsFiniteSet(Traces)
  /\ TraceOf \in [Spans -> Traces]
  /\ MaxSpans \in Nat \ {0} /\ MaxTraces \in Nat \ {0}
  /\ Contexts \subseteq ScanContext
  /\ ContentFindings \subseteq Seq(SecurityEvent)
  /\ DirectEvents \subseteq Seq(SecurityEvent)
  /\ MaxScans \in Nat
  BY IdsAssumption, CapsAssumption, InputsAssumption

\* The invariant holds before any scan.
LEMMA InitInv == Init => Inv
<1> SUFFICES ASSUME Init
             PROVE  Inv
  OBVIOUS
<1> USE Constants
<1>1. SpanTypes
  BY EmptySeq DEF Init, SpanTypes, SpanStatus, Summary, NoSummary, Severity, LOW, CRITICAL
<1>2. TraceTypes
  <2>1. Fresh \in Scratch
    BY InitialStates DEF Fresh, Scratch
  <2> QED  BY <2>1, EmptySeq DEF Init, TraceTypes
<1>3. \A k : ~Cached(<<>>, k)
  BY DEF Cached, Contains
<1>4. SpanLru
  <2>1. SpansUsed = {}
    BY DEF Init, SpansUsed
  <2> QED  BY <2>1, EmptySeq DEF Init, SpanLru, LruInv
<1>5. TraceLru
  BY EmptySeq DEF Init, TraceLru, LruInv
<1>6. ListsFollow /\ EventsFollow /\ SummaryExact
  BY <1>3 DEF Init, ListsFollow, EventsFollow, SummaryExact
<1> QED  BY <1>1, <1>2, <1>4, <1>5, <1>6 DEF Inv, SpanInv, TraceInv

\* In a state of the invariant the span cache is an exact LRU.
LEMMA SpanCached ==
  ASSUME SpanInv, NEW s \in Spans, found[s] # <<>>
  PROVE  /\ Cardinality(recentSpans[s]) \in Nat
         /\ Cached(spanOrder, s) <=> Cardinality(recentSpans[s]) < MaxSpans
<1> USE Constants
<1>1. spanOrder \in Seq(Spans) /\ recentSpans \in [Spans -> SUBSET Spans]
  BY DEF SpanInv, SpanTypes
<1>2. SpansUsed \in SUBSET Spans /\ s \in SpansUsed
  BY DEF SpansUsed
<1>3. LruInv(spanOrder, recentSpans, SpansUsed, MaxSpans)
  BY DEF SpanInv, SpanLru
<1>4. Cached(spanOrder, s) <=> Cardinality(recentSpans[s]) < MaxSpans
  BY <1>1, <1>2, <1>3, CachedIffRecent
<1> QED  BY <1>1, <1>4, FS_Subset, FS_CardinalityType

\* A span that is not forgotten by new findings either had none before or is
\* still cached: its list is complete.
LEMMA ListComplete ==
  ASSUME SpanInv, NEW s \in Spans, s \notin forgotSpans,
         found[s] # <<>> => ~(Cardinality(recentSpans[s]) >= MaxSpans)
  PROVE  accumulated[s] = found[s]
<1> USE Constants
<1>1. CASE found[s] = <<>>
  <2>1. ~Cached(spanOrder, s)
    <3> SUFFICES ASSUME Cached(spanOrder, s)
                 PROVE  FALSE
      OBVIOUS
    <3>1. PICK i \in 1 .. Len(spanOrder) : spanOrder[i] = s
      BY DEF Cached, Contains
    <3>2. DOMAIN spanOrder = 1 .. Len(spanOrder)
      BY OrderShape DEF SpanInv, SpanTypes
    <3>3. s \in SpansUsed
      BY <3>1, <3>2 DEF SpanInv, SpanLru, LruInv
    <3> QED  BY <1>1, <3>3 DEF SpansUsed
  <2> QED  BY <1>1, <2>1 DEF SpanInv, ListsFollow
<1>2. CASE found[s] # <<>>
  <2>1. Cached(spanOrder, s)
    <3>1. Cardinality(recentSpans[s]) < MaxSpans
      BY <1>2, SpanCached
    <3> QED  BY <1>2, <3>1, SpanCached
  <2> QED  BY <2>1 DEF SpanInv, ListsFollow
<1> QED  BY <1>1, <1>2

-----------------------------------------------------------------------------
(* The steps on the span side of the state. *)

spanVars == <<status, events, summary, mirror, spanOrder, accumulated, alerted,
              found, recentSpans, forgotSpans, direct>>
traceVars == <<traceOrder, scratch, recentTraces, forgotTraces, visited, failed,
              prompted>>

LEMMA SpanStutter == SpanInv /\ UNCHANGED spanVars => SpanInv'
  BY DEF SpanInv, spanVars, SpanTypes, SpanLru, SpansUsed, ListsFollow, EventsFollow,
         SummaryExact

\* Starting a span, or ending it, touches no finding.
LEMMA StartPreserves ==
  ASSUME SpanInv, NEW s \in Spans, Start(s)
  PROVE  SpanInv'
<1> USE DEF SpanInv
<1>1. SpanTypes'
  BY DEF SpanTypes, Start, caches, history, SpanStatus
<1>2. SpanLru'
  BY DEF SpanLru, SpansUsed, Start, caches, history
<1>3. ListsFollow'
  BY DEF ListsFollow, Start, caches, history
<1>4. EventsFollow'
  BY DEF EventsFollow, Start, caches, history, SpanTypes
<1>5. SummaryExact'
  <2> SUFFICES ASSUME NEW u \in Spans \ direct
               PROVE  /\ events[u] # <<>> /\ u \notin forgotSpans => summary[u] = SummaryOf(events[u])
                      /\ status'[u] = "recording" /\ u \in forgotSpans =>
                           summary[u].count < Len(events[u])
    BY DEF SummaryExact, Start, caches, history
  <2>1. CASE u = s
    BY <2>1 DEF Start, EventsFollow, ListsFollow, SummaryExact
  <2>2. CASE u # s
    BY <2>2 DEF Start, SpanTypes, SummaryExact
  <2> QED  BY <2>1, <2>2
<1> QED  BY <1>1, <1>2, <1>3, <1>4, <1>5

LEMMA EndPreserves ==
  ASSUME SpanInv, NEW s \in Spans, End(s)
  PROVE  SpanInv'
<1> USE DEF SpanInv
<1>1. SpanTypes'
  BY DEF SpanTypes, End, caches, history, SpanStatus
<1>2. SpanLru'
  BY DEF SpanLru, SpansUsed, End, caches, history
<1>3. ListsFollow'
  BY DEF ListsFollow, End, caches, history
<1>4. EventsFollow'
  BY DEF EventsFollow, End, caches, history, SpanTypes
<1>5. SummaryExact'
  BY DEF SummaryExact, End, caches, history, SpanTypes
<1> QED  BY <1>1, <1>2, <1>3, <1>4, <1>5

\* _attach: whatever the cache evicts, the list of the span is complete unless
\* the span had been forgotten, and the summary is that of the list.
LEMMA AttachPreserves ==
  ASSUME SpanInv, NEW s \in Spans, NEW fs \in Seq(SecurityEvent), fs # <<>>,
         status[s] # "unstarted", Attach(s, fs), NoteFindings(s, fs),
         UNCHANGED <<status, direct>>
  PROVE  SpanInv'
<1> USE Constants DEF SpanInv
<1> DEFINE order == Touch(spanOrder, s, MaxSpans)
           list == accumulated[s] \o fs
\* What the step does, cell by cell.
<1>1. /\ order \in Seq(Spans)
      /\ Cached(order, s)
      /\ \A u \in Spans : u # s /\ Cached(order, u) => Cached(spanOrder, u)
  BY TouchShape DEF SpanTypes
<1>2. /\ accumulated[s] \in Seq(SecurityEvent) /\ found[s] \in Seq(SecurityEvent)
      /\ events[s] \in Seq(SecurityEvent) /\ alerted[s] \in Seq(SecurityEvent)
  BY DEF SpanTypes
<1>3. /\ list \in Seq(SecurityEvent)
      /\ Len(list) = Len(accumulated[s]) + Len(fs)
      /\ list # <<>>
  <2>1. Len(fs) \in Nat /\ Len(fs) # 0 /\ Len(accumulated[s]) \in Nat
    BY <1>2, LenProperties, EmptySeq
  <2>2. list \in Seq(SecurityEvent) /\ Len(list) = Len(accumulated[s]) + Len(fs)
    BY <1>2, ConcatProperties
  <2>3. Len(list) # 0
    BY <2>1, <2>2
  <2> QED  BY <2>2, <2>3, EmptySeq
<1>4. spanOrder' = order
  BY DEF Attach
<1> HIDE DEF order
<1>5. \A u \in Spans :
        accumulated'[u] = IF u = s THEN list
                          ELSE IF Cached(order, u) THEN accumulated[u] ELSE <<>>
  <2>1. accumulated' = [EventsFor(s, order) EXCEPT ![s] = @ \o fs]
    BY DEF Attach, order
  <2>2. EventsFor(s, order) = [u \in Spans |-> IF Cached(order, u) THEN accumulated[u] ELSE <<>>]
    BY DEF EventsFor
  <2> QED  BY <1>1, <2>1, <2>2
<1>6. /\ accumulated' \in [Spans -> Seq(SecurityEvent)]
  <2>1. accumulated' = [EventsFor(s, order) EXCEPT ![s] = @ \o fs]
    BY DEF Attach, order
  <2>2. accumulated' = [u \in Spans |-> accumulated'[u]]
    BY <2>1 DEF EventsFor
  <2>3. \A u \in Spans : accumulated'[u] \in Seq(SecurityEvent)
    BY <1>3, <1>5, EmptySeq DEF SpanTypes
  <2> HIDE DEF list
  <2> QED  BY <2>2, <2>3
<1>7. /\ found' = [found EXCEPT ![s] = @ \o fs]
      /\ recentSpans' = Use(recentSpans, s)
      /\ forgotSpans' = forgotSpans \cup
           {u \in {s} : found[u] # <<>> /\ Cardinality(recentSpans[u]) >= MaxSpans}
  BY DEF NoteFindings
<1>8. \A u \in Spans :
        events'[u] = IF u = s /\ status[s] = "recording" THEN events[u] \o fs ELSE events[u]
  BY DEF Attach, AddEvents, SpanTypes
<1>9. \A u \in Spans :
        summary'[u] = IF u = s /\ status[s] = "recording" THEN SummaryOf(list) ELSE summary[u]
  <2>1. summary' = SetSummary(summary, s, SummaryOf(accumulated'[s]))
    BY DEF Attach, order
  <2>2. accumulated'[s] = list
    BY <1>5
  <2> QED  BY <2>1, <2>2 DEF SetSummary, SpanTypes
<1>10. \A u \in Spans : found'[u] = IF u = s THEN found[u] \o fs ELSE found[u]
  BY <1>7 DEF SpanTypes
<1>11. /\ found[s] \o fs # <<>>
       /\ Len(found[s] \o fs) = Len(found[s]) + Len(fs)
       /\ Len(found[s]) \in Nat /\ Len(fs) \in Nat /\ Len(accumulated[s]) \in Nat
  BY <1>2, LenProperties, EmptySeq, ConcatProperties
\* The conjuncts of the invariant.
<1>12. SpanTypes'
  <2>1. events' \in [Spans -> Seq(SecurityEvent)]
    BY <1>2, ConcatProperties DEF Attach, AddEvents, SpanTypes
  <2>2. SummaryOf(list) \in Summary
    BY <1>3, SummaryType DEF Summary
  <2>3. summary' \in [Spans -> Summary] /\ mirror' \in [Spans -> Summary]
    <3>1. accumulated'[s] = list
      BY <1>5
    <3>2. /\ summary' = SetSummary(summary, s, SummaryOf(accumulated'[s]))
          /\ mirror' = SetSummary(mirror, s, SummaryOf(accumulated'[s]))
      BY DEF Attach, order
    <3> HIDE DEF list
    <3> QED  BY <2>2, <3>1, <3>2 DEF SetSummary, SpanTypes
  <2>4. alerted' \in [Spans -> Seq(SecurityEvent)]
    <3>1. alerted[s] \o fs \in Seq(SecurityEvent)
      BY <1>2, ConcatProperties
    <3> QED  BY <3>1 DEF Attach, SpanTypes
  <2>5. found' \in [Spans -> Seq(SecurityEvent)]
    <3>1. found[s] \o fs \in Seq(SecurityEvent)
      BY <1>2, ConcatProperties
    <3> QED  BY <1>7, <3>1 DEF SpanTypes
  <2>6. recentSpans' \in [Spans -> SUBSET Spans]
    BY <1>7 DEF Use, SpanTypes
  <2> QED  BY <1>1, <1>4, <1>6, <1>7, <2>1, <2>3, <2>4, <2>5, <2>6 DEF SpanTypes
<1>13. SpanLru'
  <2>1. SpansUsed' = SpansUsed \cup {s}
    BY <1>10, <1>11 DEF SpansUsed
  <2>2. LruInv(order, Use(recentSpans, s), SpansUsed \cup {s}, MaxSpans)
    BY TouchPreserves DEF SpanLru, SpanTypes, SpansUsed, order
  <2> QED  BY <1>4, <1>7, <2>1, <2>2 DEF SpanLru
<1>14. s \notin forgotSpans' => accumulated[s] = found[s]
  <2>1. s \notin forgotSpans' =>
          /\ s \notin forgotSpans
          /\ found[s] # <<>> => ~(Cardinality(recentSpans[s]) >= MaxSpans)
    BY <1>7
  <2> QED  BY <2>1, ListComplete
<1>15. s \in forgotSpans' => found[s] # <<>> /\ Len(accumulated[s]) < Len(found[s])
  <2>1. CASE s \in forgotSpans
    BY <2>1 DEF ListsFollow
  <2>2. CASE s \notin forgotSpans /\ s \in forgotSpans'
    <3>1. found[s] # <<>> /\ Cardinality(recentSpans[s]) >= MaxSpans
      BY <1>7, <2>2
    <3>2. ~Cached(spanOrder, s)
      BY <3>1, SpanCached
    <3>3. accumulated[s] = <<>>
      BY <3>2 DEF ListsFollow
    <3>4. Len(found[s]) \in Nat \ {0}
      BY <1>2, <3>1, EmptySeq
    <3> QED  BY <3>1, <3>3, <3>4, EmptySeq
  <2> QED  BY <2>1, <2>2
<1>16. ListsFollow'
  <2> SUFFICES ASSUME NEW u \in Spans
               PROVE  /\ ~Cached(order, u) => accumulated'[u] = <<>>
                      /\ Cached(order, u) /\ u \notin forgotSpans' => accumulated'[u] = found'[u]
                      /\ u \in forgotSpans' => found'[u] # <<>> /\ Len(accumulated'[u]) < Len(found'[u])
    BY <1>4 DEF ListsFollow
  <2>1. CASE u = s
    <3>1. accumulated'[s] = list /\ found'[s] = found[s] \o fs
      BY <1>5, <1>10
    <3>2. s \notin forgotSpans' => list = found[s] \o fs
      BY <1>14
    <3>3. s \in forgotSpans' => Len(list) < Len(found[s] \o fs)
      <4> HIDE DEF list
      <4> QED  BY <1>3, <1>11, <1>15
    <3> HIDE DEF list
    <3> QED  BY <1>1, <1>11, <2>1, <3>1, <3>2, <3>3
  <2>2. CASE u # s
    <3>1. found'[u] = found[u] /\ (u \in forgotSpans' <=> u \in forgotSpans)
      BY <1>7, <1>10, <2>2
    <3>2. CASE Cached(order, u)
      BY <1>1, <1>5, <2>2, <3>1, <3>2 DEF ListsFollow
    <3>3. CASE ~Cached(order, u)
      <4>1. accumulated'[u] = <<>>
        BY <1>5, <2>2, <3>3
      <4>2. found[u] # <<>> => Len(found[u]) \in Nat \ {0}
        BY EmptySeq DEF SpanTypes
      <4> QED  BY <3>1, <3>3, <4>1, <4>2, EmptySeq DEF ListsFollow
    <3> QED  BY <3>2, <3>3
  <2> QED  BY <2>1, <2>2
<1>17. EventsFollow'
  BY <1>8, <1>10 DEF EventsFollow
<1>18. SummaryExact'
  <2> SUFFICES ASSUME NEW u \in Spans \ direct
               PROVE  /\ events'[u] # <<>> /\ u \notin forgotSpans' => summary'[u] = SummaryOf(events'[u])
                      /\ status[u] = "recording" /\ u \in forgotSpans' =>
                           summary'[u].count < Len(events'[u])
    BY DEF SummaryExact
  <2>1. CASE u = s /\ status[s] = "recording"
    <3>1. events[s] = found[s] /\ events'[s] = found[s] \o fs /\ summary'[s] = SummaryOf(list)
      BY <1>8, <1>9, <2>1 DEF EventsFollow
    <3>2. SummaryOf(list).count = Len(list)
      BY <1>3, SummaryType
    <3> QED  BY <1>3, <1>11, <1>14, <1>15, <2>1, <3>1, <3>2
  <2>2. CASE ~(u = s /\ status[s] = "recording")
    <3>1. events'[u] = events[u] /\ summary'[u] = summary[u]
      BY <1>8, <1>9, <2>2
    <3>2. u \notin forgotSpans' => u \notin forgotSpans
      BY <1>7
    <3>3. status[u] = "recording" => (u \in forgotSpans' <=> u \in forgotSpans)
      BY <1>7, <2>2
    <3> QED  BY <3>1, <3>2, <3>3 DEF SummaryExact
  <2> QED  BY <2>1, <2>2
<1> QED  BY <1>12, <1>13, <1>16, <1>17, <1>18

\* record_events on a span: it is out of the scope of the summary's claim.
LEMMA RecordPreserves ==
  ASSUME SpanInv, NEW s \in Spans, NEW fs \in DirectEvents, RecordEvents(s, fs)
  PROVE  SpanInv'
<1> USE Constants DEF SpanInv
<1>1. /\ direct' = direct \cup {s} /\ status[s] # "unstarted" /\ fs # <<>>
      /\ UNCHANGED <<status, mirror, spanOrder, accumulated, alerted, found,
                     recentSpans, forgotSpans>>
  BY DEF RecordEvents, caches
<1>2. SpanTypes'
  <2>1. events[s] \o fs \in Seq(SecurityEvent)
    BY ConcatProperties DEF SpanTypes
  <2>2. events' \in [Spans -> Seq(SecurityEvent)]
    BY <2>1 DEF RecordEvents, AddEvents, SpanTypes
  <2>3. SummaryOf(fs) \in Summary
    BY <1>1, SummaryType DEF Summary
  <2>4. summary' \in [Spans -> Summary]
    BY <2>3 DEF RecordEvents, SetSummary, SpanTypes
  <2> QED  BY <1>1, <2>2, <2>4 DEF SpanTypes
<1>3. \A u \in Spans : u # s => events'[u] = events[u] /\ summary'[u] = summary[u]
  BY DEF RecordEvents, AddEvents, SetSummary, SpanTypes
<1>4. SpanLru' /\ ListsFollow'
  BY <1>1 DEF SpanLru, SpansUsed, ListsFollow
<1>5. EventsFollow'
  BY <1>1, <1>3 DEF EventsFollow
<1>6. SummaryExact'
  BY <1>1, <1>3 DEF SummaryExact
<1> QED  BY <1>2, <1>4, <1>5, <1>6

\* The local model's finding, or none.
LEMMA LlmType ==
  ASSUME NEW reply
  PROVE  LlmFindings(reply) \in Seq(SecurityEvent)
<1> DEFINE e == [type |-> "prompt_injection", rule |-> "llm_classifier",
                 severity |-> IF reply = "injection" THEN HIGH ELSE MEDIUM]
<1>1. e \in SecurityEvent
  BY DEF SecurityEvent, EventType, Rule, Severity, LOW, MEDIUM, HIGH, CRITICAL
<1>2. <<e>> \in Seq(SecurityEvent) /\ <<>> \in Seq(SecurityEvent)
  <2> HIDE DEF e
  <2> QED  BY <1>1
<1> QED  BY <1>2 DEF LlmFindings

\* What the detectors return together is a list of findings.
LEMMA FindingsType ==
  ASSUME TraceInv, NEW t \in Traces, NEW order, NEW ctx \in ScanContext, NEW reply,
         NEW content \in Seq(SecurityEvent)
  PROVE  LET st == StateFor(t, order)[t]
         IN  /\ st \in Scratch
             /\ SequenceScan(st.sequence, ctx).findings
                  \o CostScan(st.cost, ctx).findings
                  \o LlmFindings(reply) \o content \in Seq(SecurityEvent)
             /\ SequenceScan(st.sequence, ctx).state \in SequenceState
             /\ CostScan(st.cost, ctx).state \in CostState
<1> DEFINE st == StateFor(t, order)[t]
<1>1. st \in Scratch
  BY InitialStates DEF StateFor, Fresh, Scratch, TraceInv, TraceTypes
<1>2. st.sequence \in SequenceState /\ st.cost \in CostState
  <2> HIDE DEF st
  <2> QED  BY <1>1 DEF Scratch
<1>3. LlmFindings(reply) \in Seq(SecurityEvent)
  BY LlmType
<1> DEFINE a == SequenceScan(st.sequence, ctx)
           b == CostScan(st.cost, ctx)
<1> HIDE DEF st
<1>4. /\ a.state \in SequenceState /\ a.findings \in Seq(SecurityEvent)
      /\ b.state \in CostState /\ b.findings \in Seq(SecurityEvent)
  BY <1>2, SequenceScanType, CostScanType
<1> HIDE DEF a, b
<1>5. a.findings \o b.findings \o LlmFindings(reply) \o content \in Seq(SecurityEvent)
  BY <1>3, <1>4, ConcatProperties
<1> QED  BY <1>1, <1>4, <1>5 DEF st, a, b

LEMMA ScanPreserves ==
  ASSUME Inv, NEW s \in Spans, NEW ctx \in Contexts, NEW reply \in LlmReplies,
         NEW content \in ContentFindings, Scan(s, ctx, reply, content)
  PROVE  Inv'
<1> USE Constants DEF Inv
<1> DEFINE t == TraceOf[s]
           order == Touch(traceOrder, t, MaxTraces)
           states == StateFor(t, order)
           seq == SequenceScan(states[t].sequence, ctx)
           cost == CostScan(states[t].cost, ctx)
           fs == seq.findings \o cost.findings \o LlmFindings(reply) \o content
<1>1. /\ status[s] # "unstarted"
      /\ traceOrder' = order
      /\ scratch' = [states EXCEPT ![t] = [sequence |-> seq.state, cost |-> cost.state]]
      /\ NoteScan(t, ctx, reply)
      /\ scans < MaxScans /\ scans' = scans + 1
      /\ IF reply # "raises" /\ fs # <<>>
           THEN Attach(s, fs) /\ NoteFindings(s, fs)
           ELSE UNCHANGED <<events, summary, mirror, spanOrder, accumulated,
                            alerted, found, recentSpans, forgotSpans>>
      /\ UNCHANGED <<status, direct>>
  BY DEF Scan
<1>2. t \in Traces
  OBVIOUS
<1>3. /\ states[t] \in Scratch
      /\ fs \in Seq(SecurityEvent)
      /\ seq.state \in SequenceState /\ cost.state \in CostState
  <2> HIDE DEF order, t
  <2> QED  BY <1>2, FindingsType
<1>4. states \in [Traces -> Scratch]
  BY InitialStates DEF StateFor, Fresh, Scratch, TraceInv, TraceTypes
<1> HIDE DEF fs, seq, cost, states, order, t
<1>5. SpanInv'
  <2>1. CASE reply # "raises" /\ fs # <<>>
    BY <1>1, <1>3, <2>1, AttachPreserves
  <2>2. CASE ~(reply # "raises" /\ fs # <<>>)
    BY <1>1, <2>2, SpanStutter DEF spanVars
  <2> QED  BY <2>1, <2>2
<1>6. TraceTypes'
  <2>1. order \in Seq(Traces)
    BY <1>2, TouchShape DEF order, TraceInv, TraceTypes
  <2>2. scratch' \in [Traces -> Scratch]
    <3>1. [sequence |-> seq.state, cost |-> cost.state] \in Scratch
      BY <1>3 DEF Scratch
    <3> QED  BY <1>1, <1>4, <3>1
  <2>3. /\ recentTraces' \in [Traces -> SUBSET Traces]
        /\ forgotTraces' \subseteq Traces
        /\ visited' \subseteq Traces /\ failed' \subseteq Traces
        /\ prompted' \in [Traces -> Nat]
    BY <1>1, <1>2 DEF NoteScan, Use, TraceInv, TraceTypes
  <2>4. scans' \in 0 .. MaxScans
    BY <1>1 DEF TraceInv, TraceTypes
  <2> QED  BY <1>1, <2>1, <2>2, <2>3, <2>4 DEF TraceTypes
<1>7. TraceLru'
  <2>1. LruInv(order, Use(recentTraces, t), visited \cup {t}, MaxTraces)
    BY <1>2, TouchPreserves DEF order, TraceInv, TraceTypes, TraceLru
  <2> QED  BY <1>1, <2>1 DEF TraceLru, NoteScan
<1> QED  BY <1>5, <1>6, <1>7 DEF TraceInv

\* On the spans a scan is a call of _attach, or nothing.
LEMMA ScanIsAttach ==
  ASSUME Inv, NEW s \in Spans, NEW ctx \in Contexts, NEW reply \in LlmReplies,
         NEW content \in ContentFindings, Scan(s, ctx, reply, content)
  PROVE  \E fs \in Seq(SecurityEvent) :
           /\ status[s] # "unstarted" /\ UNCHANGED <<status, direct>>
           /\ \/ fs # <<>> /\ Attach(s, fs) /\ NoteFindings(s, fs)
              \/ UNCHANGED <<events, summary, mirror, spanOrder, accumulated, alerted,
                             found, recentSpans, forgotSpans>>
<1> USE Constants DEF Inv
<1> DEFINE t == TraceOf[s]
           order == Touch(traceOrder, t, MaxTraces)
           st == StateFor(t, order)[t]
           fs == SequenceScan(st.sequence, ctx).findings
                   \o CostScan(st.cost, ctx).findings \o LlmFindings(reply) \o content
<1>1. fs \in Seq(SecurityEvent)
  <2> HIDE DEF order
  <2> QED  BY FindingsType
<1>2. /\ status[s] # "unstarted" /\ UNCHANGED <<status, direct>>
      /\ IF reply # "raises" /\ fs # <<>>
           THEN Attach(s, fs) /\ NoteFindings(s, fs)
           ELSE UNCHANGED <<events, summary, mirror, spanOrder, accumulated, alerted,
                            found, recentSpans, forgotSpans>>
  BY DEF Scan
<1> HIDE DEF fs
<1> QED  BY <1>1, <1>2

LEMMA TraceStutter ==
  TraceInv /\ UNCHANGED traceVars /\ scans' \in 0 .. MaxScans => TraceInv'
  BY DEF TraceInv, traceVars, TraceTypes, TraceLru

-----------------------------------------------------------------------------
(* The theorems. *)

\* Every step of the pipeline, and every step of the host, preserves Inv.
LEMMA NextInv == Inv /\ [Next]_vars => Inv'
<1> SUFFICES ASSUME Inv, [Next]_vars
             PROVE  Inv'
  OBVIOUS
<1> USE Constants
<1>0. scans \in 0 .. MaxScans
  BY DEF Inv, TraceInv, TraceTypes
<1>1. ASSUME NEW s \in Spans, Start(s)
      PROVE  Inv'
  BY <1>0, <1>1, StartPreserves, TraceStutter DEF Inv, Start, caches, history, traceVars
<1>2. ASSUME NEW s \in Spans, End(s)
      PROVE  Inv'
  BY <1>0, <1>2, EndPreserves, TraceStutter DEF Inv, End, caches, history, traceVars
<1>3. ASSUME NEW s \in Spans, NEW ctx \in Contexts, NEW reply \in LlmReplies,
             NEW content \in ContentFindings, Scan(s, ctx, reply, content)
      PROVE  Inv'
  BY <1>3, ScanPreserves
<1>4. ASSUME NEW s \in Spans, NEW fs \in DirectEvents, RecordEvents(s, fs)
      PROVE  Inv'
  <2>1. scans' \in 0 .. MaxScans
    BY <1>0, <1>4 DEF RecordEvents
  <2> QED  BY <1>4, <2>1, RecordPreserves, TraceStutter
           DEF Inv, RecordEvents, caches, traceVars
<1>5. CASE UNCHANGED vars
  BY <1>0, <1>5, SpanStutter, TraceStutter
     DEF Inv, vars, attributes, caches, history, spanVars, traceVars
<1> QED  BY <1>1, <1>2, <1>3, <1>4, <1>5 DEF Next

\* The inductive invariant holds of every behaviour of the pipeline.
THEOREM Invariance == Spec => []Inv
<1>1. Init => Inv
  BY InitInv
<1>2. Inv /\ [Next]_vars => Inv'
  BY NextInv
<1> QED  BY <1>1, <1>2, PTL DEF Spec

\* Types are kept by every behaviour of the pipeline.
THEOREM TypesCorrect == Spec => []TypeOK
<1>1. Inv => TypeOK
  BY DEF Inv, SpanInv, TraceInv, TypeOK
<1> QED  BY <1>1, Invariance, PTL

\* _events_for (pipeline.py:104): for every cap, the span cache keeps a list
\* exactly while fewer than MaxSpans other spans had findings.
THEOREM SpanCacheIsExact == Spec => []SpanCacheExact
<1>1. Inv => SpanCacheExact
  BY SpanCached DEF Inv, SpanCacheExact
<1> QED  BY <1>1, Invariance, PTL

\* _state_for (pipeline.py:114): the same for the scratch of a trace.
THEOREM TraceCacheIsExact == Spec => []TraceCacheExact
<1>1. Inv => TraceCacheExact
  BY Constants, CachedIffRecent DEF Inv, TraceInv, TraceTypes, TraceLru, TraceCacheExact
<1> QED  BY <1>1, Invariance, PTL

\* The summary of a span is that of all its events unless the span was forgotten,
\* and then, while it is live, never: the promise of pipeline.py:5 holds exactly
\* up to the cap, whatever spans, detectors and the local model do.
THEOREM SummaryIsExact == Spec => []SummaryExact
<1>1. Inv => SummaryExact
  BY DEF Inv, SpanInv
<1> QED  BY <1>1, Invariance, PTL

-----------------------------------------------------------------------------
(* The alarms of the stateful detectors.                                     *)

\* At most one finding of the list has the rule.
Alone(fs, rule) == \A i, j \in DOMAIN fs : fs[i].rule = rule /\ fs[j].rule = rule => i = j

\* Findings of other rules do not matter to a rule.
LEMMA ConcatAlone ==
  ASSUME NEW S, NEW a \in Seq(S), NEW b \in Seq(S), NEW rule,
         Alone(a, rule), rule \notin RulesOf(b)
  PROVE  Alone(a \o b, rule)
<1>1. /\ DOMAIN a = 1 .. Len(a) /\ DOMAIN b = 1 .. Len(b)
      /\ Len(a) \in Nat /\ Len(b) \in Nat
  BY LenProperties
<1>2. /\ DOMAIN (a \o b) = 1 .. Len(a) + Len(b)
      /\ \A i \in 1 .. Len(a) + Len(b) : (a \o b)[i] = IF i <= Len(a) THEN a[i] ELSE b[i - Len(a)]
  <2>1. a \o b \in Seq(S) /\ Len(a \o b) = Len(a) + Len(b)
    BY ConcatProperties
  <2> QED  BY <2>1, LenProperties, ConcatProperties
<1>3. ASSUME NEW i \in DOMAIN (a \o b), (a \o b)[i].rule = rule
      PROVE  i \in DOMAIN a /\ a[i].rule = rule
  <2>1. CASE i <= Len(a)
    BY <1>1, <1>2, <1>3, <2>1
  <2>2. CASE ~(i <= Len(a))
    <3>1. i - Len(a) \in DOMAIN b /\ b[i - Len(a)].rule = rule
      BY <1>1, <1>2, <1>3, <2>2
    <3> QED  BY <3>1 DEF RulesOf
  <2> QED  BY <2>1, <2>2
<1> QED  BY <1>3 DEF Alone

\* The sequence detector reports a rule when it sets its flag.
LEMMA SequenceReports ==
  ASSUME NEW st \in SequenceState, NEW ctx \in ScanContext
  PROVE  LET r == SequenceScan(st, ctx)
         IN  /\ st.flagged \subseteq r.state.flagged /\ r.state.flagged \subseteq SequenceRule
             /\ RulesOf(r.findings) = r.state.flagged \ st.flagged
             /\ Distinct(r.findings)
<1> DEFINE counted == CountCall(st, ctx)
           fired == SequenceFired(counted, ctx)
<1>1. CASE WatchesCall(ctx)
  <2>1. counted \in SequenceState /\ counted.flagged = st.flagged
    BY <1>1, CountCallType DEF CountCall
  <2>2. fired \in SUBSET SequenceRule /\ fired \cap counted.flagged = {}
    BY DEF SequenceFired, SequenceAnomalies, SequenceRule
  <2>3. RulesOf(SequenceFindings(fired)) = fired /\ Distinct(SequenceFindings(fired))
    BY <2>2, SequenceFindingsRules
  <2>4. SequenceScan(st, ctx) = [state |-> [counted EXCEPT !.flagged = @ \cup fired],
                                 findings |-> SequenceFindings(fired)]
    BY <1>1 DEF SequenceScan
  <2> HIDE DEF counted, fired
  <2>5. SequenceScan(st, ctx).state.flagged = st.flagged \cup fired
    BY <2>1, <2>4 DEF SequenceState
  <2> QED  BY <2>1, <2>2, <2>3, <2>4, <2>5 DEF SequenceState
<1>2. CASE ~WatchesCall(ctx)
  <2>1. SequenceScan(st, ctx) = [state |-> st, findings |-> <<>>]
    BY <1>2 DEF SequenceScan
  <2> QED  BY <2>1 DEF RulesOf, Distinct, SequenceState
<1> QED  BY <1>1, <1>2

\* So does the cost detector, and it counts every prompt.
LEMMA CostReports ==
  ASSUME NEW st \in CostState, NEW ctx \in ScanContext
  PROVE  LET r == CostScan(st, ctx)
         IN  /\ st.flagged \subseteq r.state.flagged /\ r.state.flagged \subseteq CostRule
             /\ RulesOf(r.findings) = r.state.flagged \ st.flagged
             /\ Distinct(r.findings)
             /\ r.state.llm_calls = IF WatchesPrompt(ctx) THEN st.llm_calls + 1 ELSE st.llm_calls
             /\ "llm_call_budget_exceeded" \in RulesOf(r.findings) => r.state.llm_calls > CallBudget
             /\ WatchesPrompt(ctx) /\ r.state.llm_calls > CallBudget =>
                  "llm_call_budget_exceeded" \in r.state.flagged
<1> DEFINE counted == CountPrompt(st, ctx)
           fired == CostFired(counted, ctx)
<1>1. CASE WatchesPrompt(ctx)
  <2>1. /\ counted \in CostState /\ counted.flagged = st.flagged
        /\ counted.llm_calls = st.llm_calls + 1
    BY <1>1, CountPromptType DEF CountPrompt
  <2>2. /\ fired \in SUBSET CostRule /\ fired \cap counted.flagged = {}
        /\ "llm_call_budget_exceeded" \in fired => counted.llm_calls > CallBudget
        /\ counted.llm_calls > CallBudget =>
             "llm_call_budget_exceeded" \in fired \cup counted.flagged
    BY DEF CostFired, CostAnomalies, CostRule, OverBudget
  <2>3. RulesOf(CostFindings(fired)) = fired /\ Distinct(CostFindings(fired))
    BY <2>2, CostFindingsRules
  <2>4. CostScan(st, ctx) = [state |-> [counted EXCEPT !.flagged = @ \cup fired],
                             findings |-> CostFindings(fired)]
    BY <1>1 DEF CostScan
  <2> HIDE DEF counted, fired
  <2>5. /\ CostScan(st, ctx).state.flagged = st.flagged \cup fired
        /\ CostScan(st, ctx).state.llm_calls = st.llm_calls + 1
    BY <2>1, <2>4 DEF CostState
  <2> QED  BY <1>1, <2>1, <2>2, <2>3, <2>4, <2>5 DEF CostState
<1>2. CASE ~WatchesPrompt(ctx)
  <2>1. CostScan(st, ctx) = [state |-> st, findings |-> <<>>]
    BY <1>2 DEF CostScan
  <2> QED  BY <1>2, <2>1 DEF RulesOf, Distinct, CostState
<1> QED  BY <1>1, <1>2

\* Of the rules that are bookkept per trace, a scan reports those whose flags it
\* sets, each once; the other findings are of other rules.
LEMMA ScanReports ==
  ASSUME NEW a \in Seq(SecurityEvent), NEW b \in Seq(SecurityEvent),
         NEW c \in Seq(SecurityEvent), NEW d \in Seq(SecurityEvent),
         RulesOf(a) \subseteq SequenceRule, RulesOf(b) \subseteq CostRule,
         Distinct(a), Distinct(b),
         RulesOf(c) \cap TraceRule = {}, RulesOf(d) \cap TraceRule = {},
         NEW rule \in TraceRule
  PROVE  /\ rule \in RulesOf(a \o b \o c \o d) <=> rule \in RulesOf(a) \cup RulesOf(b)
         /\ Alone(a \o b \o c \o d, rule)
<1>1. SequenceRule \cap CostRule = {}
  BY DEF SequenceRule, CostRule
<1>2. /\ a \o b \in Seq(SecurityEvent) /\ a \o b \o c \in Seq(SecurityEvent)
  BY ConcatProperties
<1>3. RulesOf(a \o b) = RulesOf(a) \cup RulesOf(b) /\ Distinct(a \o b)
  BY <1>1, ConcatRules
<1>4. Alone(a \o b, rule)
  BY <1>3 DEF Distinct, Alone
<1>5. rule \notin RulesOf(c) /\ rule \notin RulesOf(d)
  OBVIOUS
<1>6. \A x, y \in Seq(SecurityEvent) : RulesOf(x \o y) = RulesOf(x) \cup RulesOf(y)
  BY ConcatRules
<1>7. \A x, y \in Seq(SecurityEvent) :
        Alone(x, rule) /\ rule \notin RulesOf(y) => Alone(x \o y, rule)
  BY ConcatAlone
<1>8. RulesOf(a \o b \o c) = RulesOf(a \o b) \cup RulesOf(c) /\ Alone(a \o b \o c, rule)
  BY <1>2, <1>4, <1>5, <1>6, <1>7
<1>9. RulesOf(a \o b \o c \o d) = RulesOf(a \o b \o c) \cup RulesOf(d)
      /\ Alone(a \o b \o c \o d, rule)
  BY <1>2, <1>5, <1>6, <1>7, <1>8
<1> QED  BY <1>3, <1>5, <1>8, <1>9

\* What a call of _attach adds to the alerts of a trace.
LEMMA AlertsGrow ==
  ASSUME SpanTypes, NEW s \in Spans, NEW fs \in Seq(SecurityEvent),
         alerted' = [alerted EXCEPT ![s] = @ \o fs], NEW t \in Traces, NEW rule
  PROVE  /\ Alerts(t, rule) \subseteq Alerts(t, rule)'
         /\ TraceOf[s] # t \/ rule \notin RulesOf(fs) => Alerts(t, rule)' = Alerts(t, rule)
         /\ TraceOf[s] = t /\ rule \in RulesOf(fs) => Alerts(t, rule)' # {}
         /\ Alerts(t, rule) = {} /\ Alone(fs, rule) =>
              \A x, y \in Alerts(t, rule)' : x = y
<1> DEFINE old == alerted[s]
           new == alerted[s] \o fs
<1>1. /\ alerted'[s] = new
      /\ \A u \in Spans : u # s => alerted'[u] = alerted[u]
  BY DEF SpanTypes
<1>2. /\ old \in Seq(SecurityEvent) /\ Len(old) \in Nat /\ Len(fs) \in Nat
      /\ DOMAIN old = 1 .. Len(old) /\ DOMAIN fs = 1 .. Len(fs)
  BY LenProperties DEF SpanTypes
<1>3. /\ DOMAIN new = 1 .. Len(old) + Len(fs)
      /\ \A i \in 1 .. Len(old) + Len(fs) : new[i] = IF i <= Len(old) THEN old[i] ELSE fs[i - Len(old)]
  <2>1. new \in Seq(SecurityEvent) /\ Len(new) = Len(old) + Len(fs)
    BY <1>2, ConcatProperties
  <2> QED  BY <1>2, <2>1, LenProperties, ConcatProperties
<1> HIDE DEF old, new
<1>4. /\ \A i \in DOMAIN old : i \in DOMAIN new /\ new[i] = old[i]
      /\ \A i \in DOMAIN fs : i + Len(old) \in DOMAIN new /\ new[i + Len(old)] = fs[i]
      /\ \A i \in DOMAIN new : \/ i \in DOMAIN old /\ new[i] = old[i]
                               \/ i - Len(old) \in DOMAIN fs /\ new[i] = fs[i - Len(old)]
  BY <1>2, <1>3
<1> DEFINE At(u, i) == u \in Spans /\ TraceOf[u] = t /\ i \in DOMAIN alerted[u]
                         /\ alerted[u][i].rule = rule
           Now(u, i) == u \in Spans /\ TraceOf[u] = t /\ i \in DOMAIN alerted'[u]
                          /\ alerted'[u][i].rule = rule
<1>5. /\ \A e \in Alerts(t, rule) : \E u, i : e = <<u, i>> /\ At(u, i)
      /\ \A u, i : At(u, i) => <<u, i>> \in Alerts(t, rule)
      /\ \A e \in Alerts(t, rule)' : \E u, i : e = <<u, i>> /\ Now(u, i)
      /\ \A u, i : Now(u, i) => <<u, i>> \in Alerts(t, rule)'
  BY DEF Alerts
<1>6. \A u, i : At(u, i) => Now(u, i)
  BY <1>1, <1>4 DEF old
<1>7. \A u, i : Now(u, i) => \/ At(u, i)
                             \/ u = s /\ TraceOf[s] = t /\ i - Len(old) \in DOMAIN fs
                                  /\ fs[i - Len(old)].rule = rule
  BY <1>1, <1>4 DEF old
<1>8. \A i \in DOMAIN fs : TraceOf[s] = t /\ fs[i].rule = rule => Now(s, i + Len(old))
  <2> SUFFICES ASSUME NEW i \in DOMAIN fs, TraceOf[s] = t, fs[i].rule = rule
               PROVE  Now(s, i + Len(old))
    OBVIOUS
  <2>1. i + Len(old) \in DOMAIN new /\ new[i + Len(old)] = fs[i]
    BY <1>4
  <2> QED  BY <1>1, <2>1
<1>9. \A u, i : Now(u, i) => i \in Int
  <2>1. \A u \in Spans : DOMAIN alerted[u] = 1 .. Len(alerted[u])
    BY LenProperties DEF SpanTypes
  <2> QED  BY <1>1, <1>2, <1>3, <2>1
<1> HIDE DEF At, Now
<1>10. Alerts(t, rule) \subseteq Alerts(t, rule)'
  BY <1>5, <1>6
<1>11. TraceOf[s] # t \/ rule \notin RulesOf(fs) => Alerts(t, rule)' = Alerts(t, rule)
  <2>1. TraceOf[s] # t \/ rule \notin RulesOf(fs) => \A u, i : Now(u, i) => At(u, i)
    BY <1>7 DEF RulesOf
  <2>2. TraceOf[s] # t \/ rule \notin RulesOf(fs) => Alerts(t, rule)' \subseteq Alerts(t, rule)
    BY <1>5, <2>1
  <2> QED  BY <1>10, <2>2
<1>12. TraceOf[s] = t /\ rule \in RulesOf(fs) => Alerts(t, rule)' # {}
  BY <1>5, <1>8 DEF RulesOf
<1>13. ASSUME Alerts(t, rule) = {}, Alone(fs, rule), NEW x \in Alerts(t, rule)', NEW y \in Alerts(t, rule)'
       PROVE  x = y
  <2>1. PICK u, i : x = <<u, i>> /\ Now(u, i)
    BY <1>5
  <2>2. PICK v, j : y = <<v, j>> /\ Now(v, j)
    BY <1>5
  <2>3. ~At(u, i) /\ ~At(v, j)
    BY <1>5, <1>13
  <2>4. /\ u = s /\ i - Len(old) \in DOMAIN fs /\ fs[i - Len(old)].rule = rule
        /\ v = s /\ j - Len(old) \in DOMAIN fs /\ fs[j - Len(old)].rule = rule
    BY <1>7, <2>1, <2>2, <2>3
  <2>5. i - Len(old) = j - Len(old)
    BY <1>13, <2>4 DEF Alone
  <2>6. i = j
    BY <1>2, <1>9, <2>1, <2>2, <2>5
  <2> QED  BY <2>1, <2>2, <2>4, <2>6
<1> QED  BY <1>10, <1>11, <1>12, <1>13

Budget == "llm_call_budget_exceeded"

\* The scratch that a scan works on is the one that was kept, or a fresh one.
LEMMA ScratchOfScan ==
  ASSUME TraceInv, FlagsInv, NEW t \in Traces
  PROVE  LET order == Touch(traceOrder, t, MaxTraces)
         IN  /\ StateFor(t, order)[t] = scratch[t]
             /\ Cached(order, t)
             /\ \A u \in Traces : u # t =>
                  /\ StateFor(t, order)[u] \in {scratch[u], Fresh}
                  /\ ~Cached(order, u) => StateFor(t, order)[u] = Fresh
                  /\ Cached(order, u) => Cached(traceOrder, u) /\ StateFor(t, order)[u] = scratch[u]
<1> DEFINE order == Touch(traceOrder, t, MaxTraces)
<1>1. /\ Cached(order, t)
      /\ \A u \in Traces : u # t /\ Cached(order, u) => Cached(traceOrder, u)
  BY Constants, TouchShape DEF TraceInv, TraceTypes
<1> HIDE DEF order
<1>2. \A u \in Traces : StateFor(t, order)[u] = IF Cached(order, u) THEN scratch[u] ELSE Fresh
  BY DEF StateFor
<1> QED  BY <1>1, <1>2 DEF order

\* A trace that is still remembered after the scan had counted its prompts and
\* flagged its alerts.
LEMMA RememberedScratch ==
  ASSUME TraceInv, FlagsInv, NEW t \in Traces, t \notin forgotTraces,
         ~(t \in visited /\ Cardinality(recentTraces[t]) >= MaxTraces)
  PROVE  /\ scratch[t].cost.llm_calls = prompted[t]
         /\ \A rule \in TraceRule : Alerts(t, rule) # {} => rule \in Flagged(t)
<1>1. FlagsFollow(t)
  BY DEF FlagsInv
<1>2. CASE t \in visited
  <2>1. /\ traceOrder \in Seq(Traces) /\ recentTraces \in [Traces -> SUBSET Traces]
        /\ visited \in SUBSET Traces
        /\ LruInv(traceOrder, recentTraces, visited, MaxTraces)
    BY DEF TraceInv, TraceTypes, TraceLru
  <2>2. Cached(traceOrder, t) <=> Cardinality(recentTraces[t]) < MaxTraces
    BY <1>2, <2>1, Constants, CachedIffRecent
  <2>3. Cardinality(recentTraces[t]) \in Nat
    BY <2>1, Constants, FS_Subset, FS_CardinalityType
  <2>4. Cached(traceOrder, t)
    BY <1>2, <2>2, <2>3, Constants
  <2> QED  BY <1>1, <2>4 DEF FlagsFollow
<1>3. CASE t \notin visited
  <2>1. scratch[t].cost.llm_calls \in Nat
    BY DEF TraceInv, TraceTypes, Scratch, CostState
  <2> QED  BY <1>1, <1>3, <2>1 DEF FlagsFollow
<1> QED  BY <1>2, <1>3

\* A scan of another trace may evict the scratch of a trace, and that is all.
LEMMA FlagsElsewhere ==
  ASSUME NEW t \in Traces, FlagsFollow(t), Fresh.cost.llm_calls <= prompted[t],
         \A rule \in TraceRule \cup {Budget} : Alerts(t, rule)' = Alerts(t, rule),
         scratch'[t] \in {scratch[t], Fresh}, prompted'[t] = prompted[t],
         Flagged(t) \subseteq TraceRule,
         ~Cached(traceOrder', t) => scratch'[t] = Fresh,
         Cached(traceOrder', t) => Cached(traceOrder, t) /\ scratch'[t] = scratch[t],
         t \in visited <=> t \in visited', t \in failed <=> t \in failed',
         t \in forgotTraces <=> t \in forgotTraces'
  PROVE  FlagsFollow(t)'
<1>1. Budget \in TraceRule
  BY DEF Budget, TraceRule, CostRule
<1>2. Fresh.sequence.flagged = {} /\ Fresh.cost.flagged = {}
  BY DEF Fresh, SequenceInit, CostInit
<1>3. Flagged(t)' \subseteq Flagged(t)
  BY <1>2 DEF Flagged
<1>4. Cached(traceOrder', t) => Flagged(t)' = Flagged(t)
  BY DEF Flagged
<1> QED  BY <1>1, <1>3, <1>4 DEF FlagsFollow, Budget

\* A scan of the trace itself sets the flags "new" and reports them, if it attaches.
LEMMA FlagsHere ==
  ASSUME TraceInv, FlagsInv, NEW t \in Traces, NEW new \in SUBSET TraceRule,
         NEW attached \in BOOLEAN, NEW n \in {0, 1},
         Cached(traceOrder', t), t \in visited',
         failed \subseteq failed', forgotTraces \subseteq forgotTraces',
         t \notin forgotTraces' => ~(t \in visited /\ Cardinality(recentTraces[t]) >= MaxTraces),
         prompted'[t] = prompted[t] + n,
         scratch'[t].cost.llm_calls = scratch[t].cost.llm_calls + n,
         Flagged(t)' = Flagged(t) \cup new, new \cap Flagged(t) = {},
         Budget \in new => scratch'[t].cost.llm_calls > CallBudget,
         n = 1 /\ scratch'[t].cost.llm_calls > CallBudget => Budget \in Flagged(t)',
         attached \/ new = {} \/ t \in failed',
         \A rule \in TraceRule :
           /\ Alerts(t, rule) \subseteq Alerts(t, rule)'
           /\ rule \notin new \/ ~attached => Alerts(t, rule)' = Alerts(t, rule)
           /\ rule \in new /\ attached => Alerts(t, rule)' # {}
           /\ Alerts(t, rule) = {} => \A x, y \in Alerts(t, rule)' : x = y
  PROVE  FlagsFollow(t)'
<1> DEFINE calls == scratch[t].cost.llm_calls
<1>1. FlagsFollow(t) /\ Budget \in TraceRule /\ Flagged(t) \subseteq TraceRule
  <2>1. Budget \in TraceRule
    BY DEF Budget, TraceRule, CostRule
  <2>2. Flagged(t) \subseteq TraceRule
    BY DEF TraceInv, TraceTypes, Scratch, SequenceState, CostState, Flagged, TraceRule
  <2> QED  BY <2>1, <2>2 DEF FlagsInv
<1>2. calls \in Nat /\ prompted[t] \in Nat /\ CallBudget \in Int
  BY ThresholdAssumption DEF TraceInv, TraceTypes, Scratch, CostState
<1>3. scratch'[t].cost.llm_calls <= prompted'[t]
  BY <1>1, <1>2 DEF FlagsFollow
<1>4. ASSUME t \notin failed', NEW rule \in Flagged(t)'
      PROVE  Alerts(t, rule)' # {}
  <2>1. CASE rule \in Flagged(t)
    BY <1>1, <1>4, <2>1 DEF FlagsFollow
  <2>2. CASE rule \in new
    BY <1>4, <2>2
  <2> QED  BY <1>4, <2>1, <2>2
<1>5. ASSUME Alerts(t, Budget)' # {}
      PROVE  prompted'[t] > CallBudget
  <2>1. CASE Alerts(t, Budget) # {}
    BY <1>1, <1>2, <2>1 DEF FlagsFollow, Budget
  <2>2. CASE Alerts(t, Budget) = {}
    <3>1. Budget \in new
      BY <1>1, <1>5, <2>2
    <3> QED  BY <1>2, <1>3, <3>1
  <2> QED  BY <2>1, <2>2
<1>6. ASSUME t \notin forgotTraces'
      PROVE  /\ \A rule \in TraceRule : \A x, y \in Alerts(t, rule)' : x = y
             /\ scratch'[t].cost.llm_calls = prompted'[t]
             /\ \A rule \in TraceRule : Alerts(t, rule)' # {} => rule \in Flagged(t)'
             /\ t \notin failed' /\ prompted'[t] > CallBudget => Alerts(t, Budget)' # {}
  <2>1. t \notin forgotTraces
    BY <1>6
  <2>2. /\ calls = prompted[t]
        /\ \A rule \in TraceRule : Alerts(t, rule) # {} => rule \in Flagged(t)
    BY <1>6, <2>1, RememberedScratch
  <2>3. \A rule \in TraceRule : \A x, y \in Alerts(t, rule)' : x = y
    BY <1>1, <2>1, <2>2 DEF FlagsFollow
  <2>4. scratch'[t].cost.llm_calls = prompted'[t]
    BY <2>2
  <2>5. \A rule \in TraceRule : Alerts(t, rule)' # {} => rule \in Flagged(t)'
    BY <2>2
  <2>6. ASSUME t \notin failed', prompted'[t] > CallBudget
        PROVE  Alerts(t, Budget)' # {}
    <3>1. CASE n = 1
      BY <1>4, <2>4, <2>6, <3>1
    <3>2. CASE n = 0
      <4>1. prompted[t] > CallBudget /\ t \notin failed
        BY <1>2, <2>6, <3>2
      <4>2. Alerts(t, Budget) # {}
        BY <1>1, <2>1, <4>1 DEF FlagsFollow, Budget
      <4> QED  BY <1>1, <4>2
    <3> QED  BY <3>1, <3>2
  <2> QED  BY <2>3, <2>4, <2>5, <2>6
<1> QED  BY <1>3, <1>4, <1>5, <1>6 DEF FlagsFollow, Budget

\* The findings of the local model and of the content detectors are none of the
\* rules that are reported once per trace.
LEMMA OtherRules ==
  ASSUME NEW reply \in LlmReplies, NEW content \in ContentFindings
  PROVE  RulesOf(LlmFindings(reply)) \cap TraceRule = {} /\ RulesOf(content) \cap TraceRule = {}
<1>1. RulesOf(LlmFindings(reply)) \subseteq {"llm_classifier"}
  BY DEF RulesOf, LlmFindings
<1>2. "llm_classifier" \notin TraceRule
  BY DEF TraceRule, SequenceRule, CostRule
<1>3. RulesOf(content) \cap TraceRule = {}
  BY ContentRulesAssumption DEF RulesOf
<1> QED  BY <1>1, <1>2, <1>3

\* What a scan does to its trace's scratch and to what it reports.
LEMMA ScanHere ==
  ASSUME Inv, FlagsInv, NEW s \in Spans, NEW ctx \in Contexts, NEW reply \in LlmReplies,
         NEW content \in ContentFindings, Scan(s, ctx, reply, content)
  PROVE  LET t == TraceOf[s]
         IN  \E fs \in Seq(SecurityEvent), new \in SUBSET TraceRule, attached \in BOOLEAN,
                n \in {0, 1} :
               /\ Flagged(t)' = Flagged(t) \cup new /\ new \cap Flagged(t) = {}
               /\ \A rule \in TraceRule :
                    (rule \in RulesOf(fs) <=> rule \in new) /\ Alone(fs, rule)
               /\ attached => alerted' = [alerted EXCEPT ![s] = @ \o fs]
               /\ ~attached => alerted' = alerted
               /\ attached \/ new = {} \/ reply = "raises"
               /\ prompted'[t] = prompted[t] + n
               /\ scratch'[t].cost.llm_calls = scratch[t].cost.llm_calls + n
               /\ Budget \in new => scratch'[t].cost.llm_calls > CallBudget
               /\ n = 1 /\ scratch'[t].cost.llm_calls > CallBudget => Budget \in Flagged(t)'
<1> USE Constants
<1> DEFINE t == TraceOf[s]
           order == Touch(traceOrder, t, MaxTraces)
           states == StateFor(t, order)
           seq == SequenceScan(states[t].sequence, ctx)
           cst == CostScan(states[t].cost, ctx)
           llm == LlmFindings(reply)
           fs == seq.findings \o cst.findings \o llm \o content
           new == RulesOf(seq.findings) \cup RulesOf(cst.findings)
           attached == reply # "raises" /\ fs # <<>>
           n == IF WatchesPrompt(ctx) THEN 1 ELSE 0
<1>1. TraceInv /\ t \in Traces /\ ctx \in ScanContext /\ content \in Seq(SecurityEvent)
  BY DEF Inv
<1>2. /\ scratch' = [states EXCEPT ![t] = [sequence |-> seq.state, cost |-> cst.state]]
      /\ NoteScan(t, ctx, reply)
      /\ attached => alerted' = [alerted EXCEPT ![s] = @ \o fs]
      /\ ~attached => alerted' = alerted
  BY DEF Scan, Attach
<1>3. states[t] = scratch[t]
  <2> HIDE DEF t
  <2> QED  BY <1>1, ScratchOfScan
<1>4. /\ scratch[t].sequence \in SequenceState /\ scratch[t].cost \in CostState
      /\ llm \in Seq(SecurityEvent)
  <2>1. scratch[t] \in Scratch
    BY <1>1 DEF TraceInv, TraceTypes
  <2>2. scratch[t].sequence \in SequenceState /\ scratch[t].cost \in CostState
    BY <2>1 DEF Scratch
  <2>3. llm \in Seq(SecurityEvent)
    BY LlmType
  <2> QED  BY <2>2, <2>3
<1>5. scratch'[t] = [sequence |-> seq.state, cost |-> cst.state]
  BY <1>1, <1>2 DEF StateFor
<1>6. /\ seq.findings \in Seq(SecurityEvent) /\ cst.findings \in Seq(SecurityEvent)
      /\ seq = SequenceScan(scratch[t].sequence, ctx)
      /\ cst = CostScan(scratch[t].cost, ctx)
  <2> HIDE DEF states, t
  <2> QED  BY <1>1, <1>3, <1>4, SequenceScanType, CostScanType
<1> HIDE DEF states, t, seq, cst, llm
<1>7. /\ scratch[t].sequence.flagged \subseteq seq.state.flagged
      /\ seq.state.flagged \subseteq SequenceRule
      /\ RulesOf(seq.findings) = seq.state.flagged \ scratch[t].sequence.flagged
      /\ Distinct(seq.findings)
  BY <1>1, <1>4, <1>6, SequenceReports
<1>8. /\ scratch[t].cost.flagged \subseteq cst.state.flagged
      /\ cst.state.flagged \subseteq CostRule
      /\ RulesOf(cst.findings) = cst.state.flagged \ scratch[t].cost.flagged
      /\ Distinct(cst.findings)
      /\ cst.state.llm_calls = IF WatchesPrompt(ctx) THEN scratch[t].cost.llm_calls + 1
                                                     ELSE scratch[t].cost.llm_calls
      /\ Budget \in RulesOf(cst.findings) => cst.state.llm_calls > CallBudget
      /\ WatchesPrompt(ctx) /\ cst.state.llm_calls > CallBudget => Budget \in cst.state.flagged
  BY <1>1, <1>4, <1>6, CostReports DEF Budget
<1>9. /\ SequenceRule \cap CostRule = {} /\ TraceRule = SequenceRule \cup CostRule
      /\ Budget \in CostRule
  BY DEF SequenceRule, CostRule, TraceRule, Budget
<1>10. /\ Flagged(t) = scratch[t].sequence.flagged \cup scratch[t].cost.flagged
       /\ Flagged(t)' = seq.state.flagged \cup cst.state.flagged
  BY <1>5 DEF Flagged
<1>11. /\ new \in SUBSET TraceRule /\ new \cap Flagged(t) = {}
       /\ Flagged(t)' = Flagged(t) \cup new
  BY <1>7, <1>8, <1>9, <1>10
<1>12. fs \in Seq(SecurityEvent)
  BY <1>1, <1>4, <1>6, ConcatProperties
<1>13. \A rule \in TraceRule : (rule \in RulesOf(fs) <=> rule \in new) /\ Alone(fs, rule)
  <2>1. RulesOf(seq.findings) \subseteq SequenceRule /\ RulesOf(cst.findings) \subseteq CostRule
    BY <1>7, <1>8
  <2>2. RulesOf(llm) \cap TraceRule = {} /\ RulesOf(content) \cap TraceRule = {}
    BY OtherRules DEF llm
  <2> DEFINE a == seq.findings
             b == cst.findings
  <2>3. /\ a \in Seq(SecurityEvent) /\ b \in Seq(SecurityEvent)
        /\ RulesOf(a) \subseteq SequenceRule /\ RulesOf(b) \subseteq CostRule
        /\ Distinct(a) /\ Distinct(b)
    BY <1>6, <1>7, <1>8, <2>1
  <2> HIDE DEF a, b
  <2>4. \A rule \in TraceRule :
          /\ rule \in RulesOf(a \o b \o llm \o content) <=> rule \in RulesOf(a) \cup RulesOf(b)
          /\ Alone(a \o b \o llm \o content, rule)
    BY <1>1, <1>4, <2>2, <2>3, ScanReports
  <2> QED  BY <2>4 DEF a, b
<1>14. attached \/ new = {} \/ reply = "raises"
  <2>1. fs = <<>> => RulesOf(fs) = {}
    BY DEF RulesOf
  <2> HIDE DEF fs
  <2> QED  BY <1>11, <1>13, <2>1
<1>15. /\ prompted'[t] = prompted[t] + n
       /\ scratch'[t].cost.llm_calls = scratch[t].cost.llm_calls + n
  <2>1. prompted \in [Traces -> Nat] /\ scratch[t].cost.llm_calls \in Nat
    BY <1>1, <1>4 DEF TraceInv, TraceTypes, CostState
  <2> QED  BY <1>1, <1>2, <1>5, <1>8, <2>1 DEF NoteScan
<1>16. /\ Budget \in new => scratch'[t].cost.llm_calls > CallBudget
       /\ n = 1 /\ scratch'[t].cost.llm_calls > CallBudget => Budget \in Flagged(t)'
  BY <1>5, <1>7, <1>8, <1>9, <1>10
<1> HIDE DEF fs, new
<1>17. attached \in BOOLEAN /\ n \in {0, 1}
  OBVIOUS
<1> DEFINE at == attached
<1> HIDE DEF n, attached, at
<1> QED  BY <1>2, <1>11, <1>12, <1>13, <1>14, <1>15, <1>16, <1>17 DEF t

\* A scan preserves FlagsInv.
LEMMA ScanFlags ==
  ASSUME Inv, FlagsInv, NEW s \in Spans, NEW ctx \in Contexts, NEW reply \in LlmReplies,
         NEW content \in ContentFindings, Scan(s, ctx, reply, content)
  PROVE  FlagsInv'
<1> USE Constants
<1> DEFINE t == TraceOf[s]
           order == Touch(traceOrder, t, MaxTraces)
           states == StateFor(t, order)
<1>1. /\ TraceInv /\ SpanTypes /\ t \in Traces
  BY DEF Inv, SpanInv
<1>2. /\ traceOrder' = order /\ NoteScan(t, ctx, reply)
      /\ \A u \in Traces : u # t => scratch'[u] = states[u]
  BY DEF Scan, StateFor
<1>3. /\ Cached(order, t)
      /\ \A u \in Traces : u # t =>
           /\ states[u] \in {scratch[u], Fresh}
           /\ ~Cached(order, u) => states[u] = Fresh
           /\ Cached(order, u) => Cached(traceOrder, u) /\ states[u] = scratch[u]
  <2> HIDE DEF t
  <2> QED  BY <1>1, ScratchOfScan
<1>4. PICK fs \in Seq(SecurityEvent), new \in SUBSET TraceRule, attached \in BOOLEAN,
           n \in {0, 1} :
        /\ Flagged(t)' = Flagged(t) \cup new /\ new \cap Flagged(t) = {}
        /\ \A rule \in TraceRule :
             (rule \in RulesOf(fs) <=> rule \in new) /\ Alone(fs, rule)
        /\ attached => alerted' = [alerted EXCEPT ![s] = @ \o fs]
        /\ ~attached => alerted' = alerted
        /\ attached \/ new = {} \/ reply = "raises"
        /\ prompted'[t] = prompted[t] + n
        /\ scratch'[t].cost.llm_calls = scratch[t].cost.llm_calls + n
        /\ Budget \in new => scratch'[t].cost.llm_calls > CallBudget
        /\ n = 1 /\ scratch'[t].cost.llm_calls > CallBudget => Budget \in Flagged(t)'
  BY ScanHere
<1> HIDE DEF t, order, states
<1>5. ASSUME ~attached
      PROVE  \A u \in Traces : \A rule : Alerts(u, rule)' = Alerts(u, rule)
  BY <1>4, <1>5 DEF Alerts
<1>6. ASSUME attached
      PROVE  \A u \in Traces : \A rule :
               /\ Alerts(u, rule) \subseteq Alerts(u, rule)'
               /\ t # u \/ rule \notin RulesOf(fs) => Alerts(u, rule)' = Alerts(u, rule)
               /\ t = u /\ rule \in RulesOf(fs) => Alerts(u, rule)' # {}
               /\ Alerts(u, rule) = {} /\ Alone(fs, rule) =>
                    \A x, y \in Alerts(u, rule)' : x = y
  <2>1. alerted' = [alerted EXCEPT ![s] = @ \o fs]
    BY <1>4, <1>6
  <2> TAKE u \in Traces
  <2> TAKE rule
  <2> QED  BY <1>1, <2>1, AlertsGrow DEF t
<1>7. FlagsFollow(t)'
  <2>1. \A rule \in TraceRule :
          /\ Alerts(t, rule) \subseteq Alerts(t, rule)'
          /\ rule \notin new \/ ~attached => Alerts(t, rule)' = Alerts(t, rule)
          /\ rule \in new /\ attached => Alerts(t, rule)' # {}
          /\ Alerts(t, rule) = {} => \A x, y \in Alerts(t, rule)' : x = y
    BY <1>1, <1>4, <1>5, <1>6
  <2>2. /\ Cached(traceOrder', t) /\ t \in visited'
        /\ failed \subseteq failed' /\ forgotTraces \subseteq forgotTraces'
        /\ t \notin forgotTraces' => ~(t \in visited /\ Cardinality(recentTraces[t]) >= MaxTraces)
        /\ reply = "raises" => t \in failed'
    BY <1>1, <1>2, <1>3 DEF NoteScan
  <2> QED  BY <1>1, <1>4, <2>1, <2>2, FlagsHere
<1>8. ASSUME NEW u \in Traces, u # t
      PROVE  FlagsFollow(u)'
  <2>1. FlagsFollow(u) /\ Flagged(u) \subseteq TraceRule /\ Fresh.cost.llm_calls <= prompted[u]
    <3>1. Flagged(u) \subseteq TraceRule
      BY <1>1 DEF TraceInv, TraceTypes, Scratch, SequenceState, CostState, Flagged, TraceRule
    <3>2. prompted[u] \in Nat
      BY <1>1 DEF TraceInv, TraceTypes
    <3> QED  BY <3>1, <3>2 DEF FlagsInv, Fresh, CostInit
  <2>2. \A rule \in TraceRule \cup {Budget} : Alerts(u, rule)' = Alerts(u, rule)
    BY <1>5, <1>6, <1>8
  <2>3. /\ scratch'[u] \in {scratch[u], Fresh}
        /\ ~Cached(traceOrder', u) => scratch'[u] = Fresh
        /\ Cached(traceOrder', u) => Cached(traceOrder, u) /\ scratch'[u] = scratch[u]
    BY <1>2, <1>3, <1>8
  <2>4. /\ prompted'[u] = prompted[u]
        /\ u \in visited <=> u \in visited'
        /\ u \in failed <=> u \in failed'
        /\ u \in forgotTraces <=> u \in forgotTraces'
    <3>1. prompted \in [Traces -> Nat]
      BY <1>1 DEF TraceInv, TraceTypes
    <3> QED  BY <1>1, <1>2, <1>8, <3>1 DEF NoteScan
  <2> QED  BY <2>1, <2>2, <2>3, <2>4, FlagsElsewhere
<1> QED  BY <1>7, <1>8 DEF FlagsInv

\* Nothing is flagged, and nothing was reported, before any scan.
LEMMA FlagsInit == Init => FlagsInv
<1> SUFFICES ASSUME Init, NEW t \in Traces
             PROVE  FlagsFollow(t)
  BY DEF FlagsInv
<1>1. \A rule : Alerts(t, rule) = {}
  BY DEF Init, Alerts
<1>2. /\ scratch[t] = Fresh /\ prompted[t] = 0
      /\ Fresh.cost.llm_calls = 0 /\ Fresh.sequence.flagged = {} /\ Fresh.cost.flagged = {}
  BY DEF Init, Fresh, SequenceInit, CostInit
<1>3. Flagged(t) = {} /\ ~(0 > CallBudget)
  BY <1>2, ThresholdAssumption DEF Flagged
<1> QED  BY <1>1, <1>2, <1>3 DEF FlagsFollow

\* The other steps leave the scratches and the alerts alone.
LEMMA FlagsStutter ==
  ASSUME FlagsInv, UNCHANGED <<traceVars, alerted>>
  PROVE  FlagsInv'
<1>1. /\ traceOrder' = traceOrder /\ scratch' = scratch /\ forgotTraces' = forgotTraces
      /\ visited' = visited /\ failed' = failed /\ prompted' = prompted /\ alerted' = alerted
  BY DEF traceVars
<1>2. ASSUME NEW t \in Traces
      PROVE  FlagsFollow(t)'
  <2>1. FlagsFollow(t)
    BY DEF FlagsInv
  <2>2. \A rule : Alerts(t, rule)' = Alerts(t, rule)
    BY <1>1 DEF Alerts
  <2>3. Flagged(t)' = Flagged(t)
    BY <1>1 DEF Flagged
  <2> QED  BY <1>1, <2>1, <2>2, <2>3 DEF FlagsFollow
<1> QED  BY <1>2 DEF FlagsInv

LEMMA FlagsKept == Inv /\ FlagsInv /\ [Next]_vars => FlagsInv'
<1> SUFFICES ASSUME Inv, FlagsInv, [Next]_vars
             PROVE  FlagsInv'
  OBVIOUS
<1>1. ASSUME NEW s \in Spans, Start(s)
      PROVE  FlagsInv'
  BY <1>1, FlagsStutter DEF Start, caches, history, traceVars
<1>2. ASSUME NEW s \in Spans, End(s)
      PROVE  FlagsInv'
  BY <1>2, FlagsStutter DEF End, caches, history, traceVars
<1>3. ASSUME NEW s \in Spans, NEW ctx \in Contexts, NEW reply \in LlmReplies,
             NEW content \in ContentFindings, Scan(s, ctx, reply, content)
      PROVE  FlagsInv'
  BY <1>3, ScanFlags
<1>4. ASSUME NEW s \in Spans, NEW fs \in DirectEvents, RecordEvents(s, fs)
      PROVE  FlagsInv'
  BY <1>4, FlagsStutter DEF RecordEvents, caches, traceVars
<1>5. CASE UNCHANGED vars
  BY <1>5, FlagsStutter DEF vars, caches, history, traceVars
<1> QED  BY <1>1, <1>2, <1>3, <1>4, <1>5 DEF Next

\* The flags of every trace follow its alerts in every behaviour.
LEMMA FlagsHold == Spec => [](Inv /\ FlagsInv)
<1>1. Init => FlagsInv
  BY FlagsInit
<1>2. Inv /\ FlagsInv /\ [Next]_vars => FlagsInv'
  BY FlagsKept
<1> QED  BY <1>1, <1>2, Invariance, PTL DEF Spec

\* "one event per anomaly class per trace" (sequence.py:52, cost_loop.py:50): for
\* every cap and every number of spans, a rule is reported at most once per trace
\* unless the trace was scanned again after MaxTraces others.
THEOREM AnomaliesComeOnce == Spec => []OncePerTrace
<1>1. FlagsInv => OncePerTrace
  <2> SUFFICES ASSUME FlagsInv, NEW t \in Traces \ forgotTraces, NEW rule \in TraceRule
               PROVE  Cardinality(Alerts(t, rule)) <= 1
    BY DEF OncePerTrace
  <2>1. \A x, y \in Alerts(t, rule) : x = y
    BY DEF FlagsInv, FlagsFollow
  <2>2. CASE Alerts(t, rule) = {}
    BY <2>2, FS_EmptySet
  <2>3. CASE Alerts(t, rule) # {}
    <3>1. PICK x : Alerts(t, rule) = {x}
      BY <2>1, <2>3
    <3> QED  BY <3>1, FS_Singleton
  <2> QED  BY <2>2, <2>3
<1> QED  BY <1>1, FlagsHold, PTL

\* add (sequence.py:53) sets the flag before _attach: only a scan that raises in between
\* silences a rule, and it silences it in its own trace alone.
THEOREM OnlyFailuresSilence == Spec => []FlaggedUnlessFailed
<1>1. FlagsInv => FlaggedUnlessFailed
  BY DEF FlagsInv, FlagsFollow, FlaggedUnlessFailed
<1> QED  BY <1>1, FlagsHold, PTL

\* cost_loop.py:64: for every budget the alarm of a trace goes off with the first
\* prompt beyond it and not before, over whichever spans the prompts were spread.
THEOREM BudgetAlarmIsExact == Spec => []BudgetAlarmExact
<1>1. TraceInv /\ FlagsInv => BudgetAlarmExact
  BY DEF FlagsInv, FlagsFollow, BudgetAlarmExact
<1> QED  BY <1>1, FlagsHold, PTL DEF Inv

-----------------------------------------------------------------------------
(* The pipeline implements the ledger.                                      *)

\* Appending findings extends a list of events.
LEMMA ConcatExtends ==
  ASSUME NEW S, NEW a \in Seq(S), NEW b \in Seq(S), b # <<>>
  PROVE  IsStrictPrefix(a, a \o b)
<1>1. Len(a) \in Nat /\ Len(b) \in Nat /\ Len(b) # 0
  BY LenProperties, EmptySeq
<1>2. a \o b \in Seq(S) /\ Len(a \o b) = Len(a) + Len(b)
  BY ConcatProperties
<1>3. SubSeq(a, 1, Len(a)) = SubSeq(a \o b, 1, Len(a))
  <2>1. CASE Len(a) = 0
    BY <2>1, SubSeqEmpty
  <2>2. CASE Len(a) # 0
    BY <1>1, <2>2, SubSeqOfConcat1
  <2> QED  BY <2>1, <2>2
<1>4. a # a \o b
  BY <1>1, <1>2
<1> QED  BY <1>1, <1>2, <1>3, <1>4 DEF IsStrictPrefix, IsPrefix

\* What is left of a list grows with the list.
LEMMA RestOfConcat ==
  ASSUME NEW S, NEW a \in Seq(S), NEW b \in Seq(S), NEW n \in 0 .. Len(a)
  PROVE  Rest(a, n) \o b = Rest(a \o b, n)
<1>1. Len(a) \in Nat /\ Len(b) \in Nat
  BY LenProperties
<1>2. a \o b \in Seq(S) /\ Len(a \o b) = Len(a) + Len(b)
  BY ConcatProperties
<1>3. Rest(a \o b, Len(a)) = b
  <2>1. CASE Len(b) = 0
    BY <1>1, <1>2, <2>1, EmptySeq, SubSeqEmpty DEF Rest
  <2>2. CASE Len(b) # 0
    <3>1. SubSeq(a \o b, Len(a) + 1, Len(a) + Len(b)) = SubSeq(b, 1, Len(b))
      BY <1>1, <2>2, SubSeqOfConcat2
    <3> QED  BY <1>2, <3>1, SubSeqFull DEF Rest
  <2> QED  BY <2>1, <2>2
<1>4. CASE n = Len(a)
  <2>1. Rest(a, n) = <<>>
    BY <1>1, <1>4, SubSeqEmpty DEF Rest
  <2> QED  BY <1>3, <1>4, <2>1, ConcatEmptySeq
<1>5. CASE n # Len(a)
  <2>1. SubSeq(a \o b, n + 1, Len(a)) = SubSeq(a, n + 1, Len(a))
    BY <1>1, <1>5, SubSeqOfConcat1
  <2>2. SubSeq(a \o b, n + 1, Len(a)) \o SubSeq(a \o b, Len(a) + 1, Len(a \o b))
          = SubSeq(a \o b, n + 1, Len(a \o b))
    <3> DEFINE c == a \o b
               m == n + 1
               k == Len(a)
    <3>1. m \in 1 .. Len(c) + 1 /\ k \in m - 1 .. Len(c) /\ Len(c) \in k .. Len(c)
      BY <1>1, <1>2, <1>5
    <3>2. c \in Seq(S)
      BY <1>2
    <3> HIDE DEF c, m, k
    <3>3. SubSeq(c, m, k) \o SubSeq(c, k + 1, Len(c)) = SubSeq(c, m, Len(c))
      BY <3>1, <3>2, ConcatAdjacentSubSeq
    <3> QED  BY <3>3 DEF c, m, k
  <2> QED  BY <1>3, <2>1, <2>2 DEF Rest
<1> QED  BY <1>4, <1>5

LEMMA StartedSize ==
  ASSUME SpanInv
  PROVE  IsFiniteSet(Started) /\ Cardinality(Started) \in Nat
  BY Constants, FS_Subset, FS_CardinalityType DEF Started

LEMMA InitLedgerInv == Init => LedgerInv
<1> SUFFICES ASSUME Init
             PROVE  LedgerInv
  OBVIOUS
<1>1. \A s \in Spans : accumulated[s] = Rest(found[s], 0) /\ 0 \in 0 .. Len(found[s])
  BY EmptySeq, SubSeqEmpty DEF Init, Rest
<1> QED  BY <1>1 DEF Init, LedgerInv

\* A step of _attach: the other spans' lists are kept or dropped whole, and the
\* span is forgotten only if MaxSpans others had findings in between.
LEMMA AttachLedger ==
  ASSUME SpanInv, LedgerInv, NEW s \in Spans, NEW fs \in Seq(SecurityEvent),
         status[s] # "unstarted", Attach(s, fs), NoteFindings(s, fs), UNCHANGED status
  PROVE  LedgerInv'
<1> USE Constants DEF SpanInv
<1> DEFINE order == Touch(spanOrder, s, MaxSpans)
<1>1. Started' = Started /\ s \in Started
  BY DEF Started
<1>2. \A u \in Spans : recentSpans'[u] \subseteq Started' \ {u}
  BY <1>1 DEF LedgerInv, NoteFindings, Use, SpanTypes
<1>3. forgotSpans' # {} => Cardinality(Started') > MaxSpans
  <2> SUFFICES ASSUME forgotSpans = {}, Cardinality(recentSpans[s]) >= MaxSpans
               PROVE  Cardinality(Started) > MaxSpans
    BY <1>1 DEF NoteFindings, LedgerInv
  <2>1. /\ IsFiniteSet(Started \ {s})
        /\ Cardinality(Started \ {s}) = Cardinality(Started) - 1
    BY <1>1, StartedSize, FS_RemoveElement
  <2>2. /\ Cardinality(recentSpans[s]) <= Cardinality(Started \ {s})
        /\ Cardinality(recentSpans[s]) \in Nat
    BY <2>1, FS_Subset, FS_CardinalityType DEF LedgerInv
  <2> QED  BY <2>1, <2>2, StartedSize
<1>4. \A u \in Spans : \E n \in 0 .. Len(found'[u]) : accumulated'[u] = Rest(found'[u], n)
  <2>1. Cached(order, s)
    BY TouchShape DEF SpanTypes
  <2>2. accumulated' = [EventsFor(s, order) EXCEPT ![s] = @ \o fs]
    BY DEF Attach
  <2> HIDE DEF order
  <2> SUFFICES ASSUME NEW u \in Spans
               PROVE  \E n \in 0 .. Len(found'[u]) : accumulated'[u] = Rest(found'[u], n)
    OBVIOUS
  <2>3. CASE u = s
    <3>1. PICK n \in 0 .. Len(found[s]) : accumulated[s] = Rest(found[s], n)
      BY DEF LedgerInv
    <3>2. accumulated'[s] = accumulated[s] \o fs /\ found'[s] = found[s] \o fs
      BY <2>1, <2>2 DEF EventsFor, NoteFindings, SpanTypes
    <3>3. found[s] \in Seq(SecurityEvent)
      BY DEF SpanTypes
    <3>4. n \in 0 .. Len(found[s] \o fs)
      BY <3>3, LenProperties, ConcatProperties
    <3>5. Rest(found[s], n) \o fs = Rest(found[s] \o fs, n)
      BY <3>3, RestOfConcat
    <3> QED  BY <2>3, <3>1, <3>2, <3>4, <3>5
  <2>4. CASE u # s
    <3>1. found'[u] = found[u] /\ found[u] \in Seq(SecurityEvent)
      BY <2>4 DEF NoteFindings, SpanTypes
    <3>2. CASE Cached(order, u)
      BY <2>2, <2>4, <3>1, <3>2 DEF EventsFor, LedgerInv
    <3>3. CASE ~Cached(order, u)
      <4>1. accumulated'[u] = <<>>
        BY <2>2, <2>4, <3>3 DEF EventsFor
      <4>2. Len(found[u]) \in Nat
        BY <3>1, LenProperties
      <4>3. Rest(found[u], Len(found[u])) = <<>> /\ Len(found[u]) \in 0 .. Len(found[u])
        BY <4>2, SubSeqEmpty DEF Rest
      <4> QED  BY <3>1, <4>1, <4>2, <4>3
    <3> QED  BY <3>2, <3>3
  <2> QED  BY <2>3, <2>4
<1> QED  BY <1>2, <1>3, <1>4 DEF LedgerInv

LEMMA LedgerInvStep == Inv /\ LedgerInv /\ [Next]_vars => LedgerInv'
<1> SUFFICES ASSUME Inv, LedgerInv, [Next]_vars
             PROVE  LedgerInv'
  OBVIOUS
<1> USE Constants DEF Inv
<1>1. ASSUME UNCHANGED <<status, forgotSpans, recentSpans, found, accumulated>>
      PROVE  LedgerInv'
  BY <1>1 DEF LedgerInv, Started
<1>2. ASSUME NEW s \in Spans, Start(s)
      PROVE  LedgerInv'
  <2>1. UNCHANGED <<forgotSpans, recentSpans, found, accumulated>>
    BY <1>2 DEF Start, history, caches
  <2>2. Started \subseteq Started' /\ Started' \subseteq Spans
    BY <1>2 DEF Start, Started, SpanInv, SpanTypes
  <2>3. Cardinality(Started) <= Cardinality(Started') /\ Cardinality(Started') \in Nat
    BY <2>2, FS_Subset, FS_CardinalityType
  <2>4. \A u \in Spans : recentSpans'[u] \subseteq Started' \ {u}
    BY <2>1, <2>2 DEF LedgerInv
  <2>5. forgotSpans' # {} => Cardinality(Started') > MaxSpans
    BY <2>1, <2>3, StartedSize DEF LedgerInv
  <2> QED  BY <2>1, <2>4, <2>5 DEF LedgerInv
<1>3. ASSUME NEW s \in Spans, End(s)
      PROVE  LedgerInv'
  <2>1. UNCHANGED <<forgotSpans, recentSpans, found, accumulated>>
    BY <1>3 DEF End, history, caches
  <2>2. Started' = Started
    BY <1>3 DEF End, Started, SpanInv, SpanTypes
  <2> QED  BY <2>1, <2>2 DEF LedgerInv
<1>4. ASSUME NEW s \in Spans, NEW ctx \in Contexts, NEW reply \in LlmReplies,
             NEW content \in ContentFindings, Scan(s, ctx, reply, content)
      PROVE  LedgerInv'
  <2>1. PICK fs \in Seq(SecurityEvent) :
          /\ status[s] # "unstarted" /\ UNCHANGED <<status, direct>>
          /\ \/ fs # <<>> /\ Attach(s, fs) /\ NoteFindings(s, fs)
             \/ UNCHANGED <<events, summary, mirror, spanOrder, accumulated, alerted,
                            found, recentSpans, forgotSpans>>
    BY <1>4, ScanIsAttach
  <2> QED  BY <1>1, <2>1, AttachLedger
<1>5. ASSUME NEW s \in Spans, NEW fs \in DirectEvents, RecordEvents(s, fs)
      PROVE  LedgerInv'
  BY <1>1, <1>5 DEF RecordEvents, caches
<1>6. CASE UNCHANGED vars
  BY <1>1, <1>6 DEF vars, attributes, caches, history
<1> QED  BY <1>2, <1>3, <1>4, <1>5, <1>6 DEF Next

\* A call of _attach on a live span is one entry of the ledger; on an ended span
\* it shows nowhere.
LEMMA AttachIsRecord ==
  ASSUME Inv, LedgerInv, NEW s \in Spans, NEW fs \in Seq(SecurityEvent), fs # <<>>,
         Attach(s, fs), NoteFindings(s, fs), UNCHANGED <<status, direct>>
  PROVE  Ledger!Record(s) \/ UNCHANGED <<status, events, summary, direct>>
<1> USE Constants DEF Inv
<1>1. CASE status[s] = "recording"
  <2> DEFINE order == Touch(spanOrder, s, MaxSpans)
             lists == [EventsFor(s, order) EXCEPT ![s] = @ \o fs]
  <2>1. /\ events[s] \in Seq(SecurityEvent) /\ events \in [Spans -> Seq(SecurityEvent)]
        /\ accumulated \in [Spans -> Seq(SecurityEvent)]
        /\ summary \in [Spans -> Summary]
    BY DEF SpanInv, SpanTypes
  <2>2. events' = [events EXCEPT ![s] = events[s] \o fs]
    BY <1>1 DEF Attach, AddEvents
  <2>3. events'[s] = events[s] \o fs
    BY <2>1, <2>2
  <2>4. summary' = [summary EXCEPT ![s] = SummaryOf(accumulated[s] \o fs)]
    <3>1. Cached(order, s)
      BY TouchShape DEF SpanInv, SpanTypes
    <3>2. summary' = SetSummary(summary, s, SummaryOf(lists[s]))
      BY DEF Attach
    <3>3. lists[s] = accumulated[s] \o fs
      <4> HIDE DEF order
      <4> QED  BY <3>1 DEF EventsFor
    <3> HIDE DEF order, lists
    <3> QED  BY <1>1, <3>2, <3>3 DEF SetSummary
  <2>5. summary'[s] = SummaryOf(accumulated[s] \o fs)
    BY <2>1, <2>4
  <2>6. Ledger!IsStrictPrefix(events[s], events'[s])
    <3>1. IsStrictPrefix(events[s], events'[s])
      BY <2>1, <2>3, ConcatExtends
    <3> QED  BY <3>1 DEF IsStrictPrefix, IsPrefix, Ledger!IsStrictPrefix, Ledger!IsPrefix
  <2>7. Ledger!Extend(s)
    BY <1>1, <2>2, <2>3, <2>4, <2>5, <2>6 DEF Ledger!Extend
  <2>8. ASSUME s \notin direct
        PROVE  \E n \in 0 .. Len(events[s]) :
                 /\ summary'[s] = SummaryOf(Rest(events'[s], n))
                 /\ n # 0 => Cardinality(Started) > MaxSpans
    <3>1. events[s] = found[s]
      BY <1>1, <2>8 DEF SpanInv, EventsFollow
    <3>2. Len(events[s]) \in Nat
      BY <2>1, LenProperties
    <3> DEFINE Covers(n) == /\ summary'[s] = SummaryOf(Rest(events'[s], n))
                            /\ n # 0 => Cardinality(Started) > MaxSpans
    <3>3. CASE s \in forgotSpans'
      <4>1. PICK n \in 0 .. Len(found[s]) : accumulated[s] = Rest(found[s], n)
        BY DEF LedgerInv
      <4>2. accumulated[s] \o fs = Rest(events'[s], n)
        <5>1. found[s] \in Seq(SecurityEvent)
          BY DEF SpanInv, SpanTypes
        <5>2. Rest(found[s], n) \o fs = Rest(found[s] \o fs, n)
          BY <5>1, RestOfConcat
        <5> QED  BY <2>3, <3>1, <4>1, <5>2
      <4>3. Cardinality(Started) > MaxSpans
        <5>1. LedgerInv' /\ Started' = Started
          <6>1. status[s] # "unstarted"
            BY <1>1
          <6> QED  BY <6>1, AttachLedger DEF Started
        <5> QED  BY <3>3, <5>1 DEF LedgerInv
      <4>4. Covers(n) /\ n \in 0 .. Len(events[s])
        BY <2>5, <3>1, <4>1, <4>2, <4>3
      <4> QED  BY <4>4
    <3>4. CASE s \notin forgotSpans'
      <4>1. /\ s \notin forgotSpans
            /\ found[s] # <<>> => ~(Cardinality(recentSpans[s]) >= MaxSpans)
        BY <3>4 DEF NoteFindings
      <4>2. accumulated[s] = found[s]
        BY <4>1, ListComplete
      <4>3. events'[s] \in Seq(SecurityEvent)
        BY <2>1, <2>3, ConcatProperties
      <4>4. Rest(events'[s], 0) = accumulated[s] \o fs
        BY <2>3, <3>1, <4>2, <4>3, SubSeqFull DEF Rest
      <4>5. summary'[s] = SummaryOf(Rest(events'[s], 0))
        BY <2>5, <4>4
      <4>6. Covers(0) /\ 0 \in 0 .. Len(events[s])
        BY <3>2, <4>5
      <4> QED  BY <4>6
    <3> QED  BY <3>3, <3>4
  <2>9. /\ \A list : Ledger!SummaryOf(list) = SummaryOf(list)
        /\ Ledger!Started = Started
        /\ \A S : Ledger!Cardinality(S) = Cardinality(S)
    BY DEF Cardinality, Ledger!Cardinality, SummaryOf, MaxSeverity, Ledger!SummaryOf, Ledger!MaxSeverity, Started, Ledger!Started
  <2>10. s \in direct \/ \E n \in 0 .. Len(events[s]) :
           /\ summary'[s] = Ledger!SummaryOf(SubSeq(events'[s], n + 1, Len(events'[s])))
           /\ n # 0 => Ledger!Cardinality(Ledger!Started) > MaxSpans
    BY <2>8, <2>9 DEF Rest
  <2> QED  BY <2>7, <2>10 DEF Ledger!Record
<1>2. CASE status[s] # "recording"
  BY <1>2 DEF Attach, AddEvents, SetSummary, SpanInv, SpanTypes
<1> QED  BY <1>1, <1>2

\* A direct recording: on a live span an entry of which nothing is promised.
LEMMA DirectIsRecord ==
  ASSUME Inv, NEW s \in Spans, NEW fs \in DirectEvents, RecordEvents(s, fs)
  PROVE  Ledger!RecordDirect(s)
<1> USE Constants DEF Inv
<1>1. /\ events[s] \in Seq(SecurityEvent) /\ events \in [Spans -> Seq(SecurityEvent)]
      /\ summary \in [Spans -> Summary] /\ fs # <<>> /\ fs \in Seq(SecurityEvent)
  BY DEF SpanInv, SpanTypes, RecordEvents
<1>2. direct' = direct \cup {s} /\ UNCHANGED status
  BY DEF RecordEvents
<1>3. CASE status[s] = "recording"
  <2>1. events' = [events EXCEPT ![s] = events[s] \o fs]
    BY <1>3 DEF RecordEvents, AddEvents
  <2>2. summary' = [summary EXCEPT ![s] = SummaryOf(fs)]
    BY <1>3 DEF RecordEvents, SetSummary
  <2>3. events'[s] = events[s] \o fs /\ summary'[s] = SummaryOf(fs)
    BY <1>1, <2>1, <2>2
  <2>4. Ledger!IsStrictPrefix(events[s], events'[s])
    <3>1. IsStrictPrefix(events[s], events'[s])
      BY <1>1, <2>3, ConcatExtends
    <3> QED  BY <3>1 DEF IsStrictPrefix, IsPrefix, Ledger!IsStrictPrefix, Ledger!IsPrefix
  <2> QED  BY <1>2, <1>3, <2>1, <2>2, <2>3, <2>4 DEF Ledger!RecordDirect, Ledger!Extend
<1>4. CASE status[s] # "recording"
  BY <1>1, <1>2, <1>4 DEF RecordEvents, AddEvents, SetSummary, Ledger!RecordDirect
<1> QED  BY <1>3, <1>4

\* Every step of the pipeline is a step of the ledger, or none.
LEMMA LedgerStep == Inv /\ LedgerInv /\ [Next]_vars => [Ledger!Next]_(Ledger!vars)
<1> SUFFICES ASSUME Inv, LedgerInv, [Next]_vars
             PROVE  [Ledger!Next]_(Ledger!vars)
  OBVIOUS
<1> USE Constants DEF Inv, Ledger!vars, Ledger!Next
<1>1. ASSUME NEW s \in Spans, Start(s)
      PROVE  Ledger!Start(s)
  BY <1>1 DEF Start, history, Ledger!Start
<1>2. ASSUME NEW s \in Spans, End(s)
      PROVE  Ledger!End(s)
  BY <1>2 DEF End, history, Ledger!End
<1>3. ASSUME NEW s \in Spans, NEW ctx \in Contexts, NEW reply \in LlmReplies,
             NEW content \in ContentFindings, Scan(s, ctx, reply, content)
      PROVE  Ledger!Record(s) \/ UNCHANGED <<status, events, summary, direct>>
  <2>1. PICK fs \in Seq(SecurityEvent) :
          /\ status[s] # "unstarted" /\ UNCHANGED <<status, direct>>
          /\ \/ fs # <<>> /\ Attach(s, fs) /\ NoteFindings(s, fs)
             \/ UNCHANGED <<events, summary, mirror, spanOrder, accumulated, alerted,
                            found, recentSpans, forgotSpans>>
    BY <1>3, ScanIsAttach
  <2> QED  BY <2>1, AttachIsRecord
<1>4. ASSUME NEW s \in Spans, NEW fs \in DirectEvents, RecordEvents(s, fs)
      PROVE  Ledger!RecordDirect(s)
  BY <1>4, DirectIsRecord
<1>5. CASE UNCHANGED vars
  BY <1>5 DEF vars, attributes, history
<1> QED  BY <1>1, <1>2, <1>3, <1>4, <1>5 DEF Next

\* For any caps, spans and traces, what a backend sees of the pipeline is a
\* behaviour of FindingLedger: caches, evictions, detectors and their failures
\* show in events and summary only as the ledger allows.
THEOREM ImplementsLedger == Spec => LedgerSpec
<1>1. Init => Ledger!Init
  BY DEF Init, Ledger!Init, NoSummary, Ledger!NoSummary, LOW, Ledger!LOW
<1>2. Inv /\ LedgerInv /\ [Next]_vars => LedgerInv'
  BY LedgerInvStep
<1>3. Inv /\ LedgerInv /\ [Next]_vars => [Ledger!Next]_(Ledger!vars)
  BY LedgerStep
<1> QED  BY <1>1, <1>2, <1>3, Invariance, InitLedgerInv, PTL
         DEF Spec, LedgerSpec, Ledger!Spec
=============================================================================
