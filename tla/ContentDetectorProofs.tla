------------------------ MODULE ContentDetectorProofs ------------------------
(***************************************************************************)
(* Theorems about ContentDetectors: for every environment, every text,     *)
(* every reply of the local model and every tool.  The scores are sums,    *)
(* which the community modules define by recursion over a set; the first   *)
(* section proves what is needed of them by induction over finite sets.    *)
(***************************************************************************)
EXTENDS ContentDetectors, SequenceTheorems, FiniteSetTheorems, WellFoundedInduction, TLAPS

(* Sums. *)

\* Induction over the subsets of a finite set, stated with the set G of those for
\* which the claim holds.
LEMMA SetInduction ==
  ASSUME NEW S, IsFiniteSet(S), NEW G, {} \in G,
         \A T \in SUBSET S : T # {} /\ (\A x \in T : T \ {x} \in G) => T \in G
  PROVE  SUBSET S \subseteq G
<1> DEFINE B == (SUBSET S) \ G
<1> SUFFICES ASSUME B # {}
             PROVE  FALSE
  OBVIOUS
<1>1. PICK T \in B : \A U \in B : ~ (<<U, T>> \in StrictSubsetOrdering(S))
  <2>1. B \subseteq FiniteSubsetsOf(S)
    BY FS_FiniteSubsetsOfFinite
  <2> HIDE DEF B
  <2> QED  BY <2>1, FS_StrictSubsetOrderingWellFounded, WFMin
<1>2. ASSUME NEW x \in T
      PROVE  T \ {x} \in G
  <2>1. T \ {x} \in SUBSET S /\ T \in SUBSET S
    OBVIOUS
  <2>2. T \ {x} \subseteq T /\ T \ {x} # T
    OBVIOUS
  <2>3. <<T \ {x}, T>> \in StrictSubsetOrdering(S)
    BY <2>1, <2>2 DEF StrictSubsetOrdering
  <2> QED  BY <1>1, <2>1, <2>3
<1> QED  BY <1>2

\* The same over the numbers up to n.
LEMMA NumberInduction ==
  ASSUME NEW n \in Nat, NEW G, 0 \in G, \A k \in Nat : k \in G => k + 1 \in G
  PROVE  n \in G
<1> DEFINE below(k) == 0 .. k - 1
           H == {T \in SUBSET (0 .. n) : \A k \in Nat : T = below(k) => k \in G}
<1>1. IsFiniteSet(0 .. n)
  BY FS_Interval
<1>2. \A k \in Nat : below(k) = {} => k \in G
  OBVIOUS
<1>3. {} \in H
  BY <1>2
<1>4. ASSUME NEW T \in SUBSET (0 .. n), T # {}, \A x \in T : T \ {x} \in H
      PROVE  T \in H
  <2> SUFFICES ASSUME NEW k \in Nat, T = below(k)
               PROVE  k \in G
    OBVIOUS
  <2>1. k # 0 /\ k - 1 \in Nat /\ k - 1 \in T
    BY <1>4
  <2>2. T \ {k - 1} = below(k - 1)
    BY <2>1
  <2>3. k - 1 \in G
    BY <1>4, <2>1, <2>2
  <2> QED  BY <2>1, <2>3
<1>5. SUBSET (0 .. n) \subseteq H
  <2>1. \A T \in SUBSET (0 .. n) : T # {} /\ (\A x \in T : T \ {x} \in H) => T \in H
    BY <1>4
  <2> HIDE DEF H
  <2> QED  BY <1>1, <1>3, <2>1, SetInduction
<1>6. below(n) \in SUBSET (0 .. n)
  OBVIOUS
<1> QED  BY <1>5, <1>6

\* What the fold takes next from a set, and the recursion over the subsets of one.
First(T) == CHOOSE x \in T : TRUE

Rest(f, T, sum) == IF T = {} THEN 0 ELSE f[First(T)] + sum[T \ {First(T)}]

Sums(f, S) == CHOOSE sum : sum = [T \in SUBSET S |-> Rest(f, T, sum)]

LEMMA SumIsFold ==
  ASSUME NEW f, NEW S
  PROVE  SumFunctionOnSet(f, S) = Sums(f, S)[S]
  BY DEF SumFunctionOnSet, FoldFunctionOnSet, MapThenFoldSet, Sums, Rest, First

\* There is a function that the recursion defines.
LEMMA SumsRecursion ==
  ASSUME NEW f, NEW S, IsFiniteSet(S)
  PROVE  Sums(f, S) = [T \in SUBSET S |-> Rest(f, T, Sums(f, S))]
<1> DEFINE level(n) == {T \in SUBSET S : Cardinality(T) <= n}
           G == {n \in Nat : \E sum : sum = [T \in level(n) |-> Rest(f, T, sum)]}
<1>1. ASSUME NEW T \in SUBSET S
      PROVE  /\ IsFiniteSet(T) /\ Cardinality(T) \in Nat
             /\ Cardinality(T) <= Cardinality(S)
             /\ T # {} => /\ First(T) \in T
                          /\ Cardinality(T \ {First(T)}) = Cardinality(T) - 1
                          /\ Cardinality(T) # 0
  <2>1. IsFiniteSet(T) /\ Cardinality(T) <= Cardinality(S)
    BY FS_Subset
  <2>2. T # {} => First(T) \in T
    BY DEF First
  <2> QED  BY <2>1, <2>2, FS_CardinalityType, FS_RemoveElement, FS_EmptySet
<1>2. 0 \in G
  <2> DEFINE zero == [T \in level(0) |-> 0]
  <2>1. \A T \in level(0) : T = {}
    <3> SUFFICES ASSUME NEW T \in SUBSET S, Cardinality(T) <= 0
                 PROVE  T = {}
      OBVIOUS
    <3>1. Cardinality(T) \in Nat /\ IsFiniteSet(T)
      BY <1>1
    <3>2. Cardinality(T) = 0
      BY <3>1
    <3> QED  BY <3>1, <3>2, FS_EmptySet
  <2>2. zero = [T \in level(0) |-> Rest(f, T, zero)]
    BY <2>1 DEF Rest
  <2> QED  BY <2>2
<1>3. ASSUME NEW n \in Nat, n \in G
      PROVE  n + 1 \in G
  <2>1. PICK sum : sum = [T \in level(n) |-> Rest(f, T, sum)]
    BY <1>3
  <2> DEFINE more == [T \in level(n + 1) |-> Rest(f, T, sum)]
  <2>2. ASSUME NEW T \in level(n)
        PROVE  T \in level(n + 1) /\ more[T] = sum[T]
    <3>1. T \in SUBSET S /\ Cardinality(T) \in Nat /\ Cardinality(T) <= n
      BY <1>1
    <3>2. T \in level(n + 1)
      BY <3>1
    <3>3. sum[T] = Rest(f, T, sum)
      BY <2>1
    <3> QED  BY <3>2, <3>3
  <2>3. ASSUME NEW T \in level(n + 1), T # {}
        PROVE  T \ {First(T)} \in level(n)
    BY <1>1, <2>3
  <2>4. \A T \in level(n + 1) : Rest(f, T, more) = Rest(f, T, sum)
    BY <2>2, <2>3 DEF Rest
  <2>5. more = [T \in level(n + 1) |-> Rest(f, T, more)]
    BY <2>4
  <2> HIDE DEF more, level
  <2> QED  BY <2>5
<1>4. Cardinality(S) \in G
  <2>1. Cardinality(S) \in Nat
    BY FS_CardinalityType
  <2> HIDE DEF G
  <2> QED  BY <1>2, <1>3, <2>1, NumberInduction
<1>5. level(Cardinality(S)) = SUBSET S
  BY <1>1
<1>6. \E sum : sum = [T \in SUBSET S |-> Rest(f, T, sum)]
  BY <1>4, <1>5
<1> QED  BY <1>6 DEF Sums

\* What the rest of the module uses of the recursion, on whole numbers.
LEMMA SumsShape ==
  ASSUME NEW f, NEW S, IsFiniteSet(S), \A s \in S : f[s] \in Int
  PROVE  LET sum == Sums(f, S)
         IN  /\ sum[{}] = 0
             /\ \A T \in SUBSET S : sum[T] \in Int
             /\ \A T \in SUBSET S : \A x \in T : sum[T] = f[x] + sum[T \ {x}]
<1> DEFINE sum == Sums(f, S)
           Ints == {T \in SUBSET S : sum[T] \in Int}
           Free == {T \in SUBSET S : \A x \in T : sum[T] = f[x] + sum[T \ {x}]}
<1>1. sum = [T \in SUBSET S |-> Rest(f, T, sum)]
  BY SumsRecursion
<1> HIDE DEF sum
<1>2. sum[{}] = 0
  <2>1. {} \in SUBSET S
    OBVIOUS
  <2>2. sum[{}] = Rest(f, {}, sum)
    BY <1>1, <2>1
  <2> QED  BY <2>2 DEF Rest
<1>3. ASSUME NEW T \in SUBSET S, T # {}
      PROVE  First(T) \in T /\ sum[T] = f[First(T)] + sum[T \ {First(T)}]
  <2>1. First(T) \in T
    BY <1>3 DEF First
  <2>2. sum[T] = Rest(f, T, sum)
    BY <1>1
  <2> QED  BY <1>3, <2>1, <2>2 DEF Rest
<1>4. SUBSET S \subseteq Ints
  <2>1. {} \in Ints
    BY <1>2
  <2>2. ASSUME NEW T \in SUBSET S, T # {}, \A x \in T : T \ {x} \in Ints
        PROVE  T \in Ints
    <3>1. First(T) \in T /\ sum[T] = f[First(T)] + sum[T \ {First(T)}]
      BY <1>3, <2>2
    <3>2. f[First(T)] \in Int /\ sum[T \ {First(T)}] \in Int
      BY <2>2, <3>1
    <3> QED  BY <3>1, <3>2
  <2>3. \A T \in SUBSET S : T # {} /\ (\A x \in T : T \ {x} \in Ints) => T \in Ints
    BY <2>2
  <2> HIDE DEF Ints
  <2> QED  BY <2>1, <2>3, SetInduction
<1>5. SUBSET S \subseteq Free
  <2>1. {} \in Free
    OBVIOUS
  <2>2. ASSUME NEW T \in SUBSET S, T # {}, \A x \in T : T \ {x} \in Free
        PROVE  T \in Free
    <3> SUFFICES ASSUME NEW x \in T
                 PROVE  sum[T] = f[x] + sum[T \ {x}]
      OBVIOUS
    <3> DEFINE c == First(T)
               less == T \ {x, c}
    <3>1. c \in T /\ sum[T] = f[c] + sum[T \ {c}]
      BY <1>3, <2>2
    <3>2. CASE x = c
      BY <3>1, <3>2
    <3>3. CASE x # c
      <4>1. x \in T \ {c} /\ c \in T \ {x}
        BY <3>1, <3>3
      <4>2. (T \ {c}) \ {x} = less /\ (T \ {x}) \ {c} = less
        OBVIOUS
      <4>3. T \ {c} \in Free /\ T \ {x} \in Free
        BY <2>2, <3>1
      <4>4. sum[T \ {c}] = f[x] + sum[less]
        BY <4>1, <4>2, <4>3
      <4>5. sum[T \ {x}] = f[c] + sum[less]
        BY <4>1, <4>2, <4>3
      <4>6. f[x] \in Int /\ f[c] \in Int /\ sum[less] \in Int
        BY <1>4, <3>1
      <4> HIDE DEF c, less
      <4> QED  BY <3>1, <4>4, <4>5, <4>6
    <3> QED  BY <3>2, <3>3
  <2>3. \A T \in SUBSET S : T # {} /\ (\A x \in T : T \ {x} \in Free) => T \in Free
    BY <2>2
  <2> HIDE DEF Free
  <2> QED  BY <2>1, <2>3, SetInduction
<1> QED  BY <1>2, <1>4, <1>5 DEF sum

\* Adding elements with values that are not negative does not make a sum smaller.
LEMMA SumGrows ==
  ASSUME NEW f, NEW S, IsFiniteSet(S), \A s \in S : f[s] \in Nat, NEW T \in SUBSET S
  PROVE  /\ SumFunctionOnSet(f, T) \in Nat /\ SumFunctionOnSet(f, S) \in Nat
         /\ SumFunctionOnSet(f, T) <= SumFunctionOnSet(f, S)
<1> DEFINE all == Sums(f, S)
           part == Sums(f, T)
           Nats == {U \in SUBSET S : all[U] \in Nat}
           Same == {U \in SUBSET T : part[U] = all[U]}
           More == {U \in SUBSET (S \ T) : all[T] <= all[T \cup U]}
<1>1. IsFiniteSet(T) /\ IsFiniteSet(S \ T)
  BY FS_Subset
<1>2. /\ all[{}] = 0
      /\ \A U \in SUBSET S : all[U] \in Int
      /\ \A U \in SUBSET S : \A x \in U : all[U] = f[x] + all[U \ {x}]
  <2>1. \A s \in S : f[s] \in Int
    OBVIOUS
  <2> QED  BY <2>1, SumsShape
<1>3. /\ part[{}] = 0
      /\ \A U \in SUBSET T : \A x \in U : part[U] = f[x] + part[U \ {x}]
  <2>1. \A s \in T : f[s] \in Int
    OBVIOUS
  <2> QED  BY <1>1, <2>1, SumsShape
<1>4. SumFunctionOnSet(f, T) = part[T] /\ SumFunctionOnSet(f, S) = all[S]
  BY SumIsFold
<1> HIDE DEF all, part
<1>5. SUBSET S \subseteq Nats
  <2>1. {} \in Nats
    BY <1>2
  <2>2. ASSUME NEW U \in SUBSET S, U # {}, \A x \in U : U \ {x} \in Nats
        PROVE  U \in Nats
    <3>1. PICK x \in U : TRUE
      BY <2>2
    <3>2. all[U] = f[x] + all[U \ {x}] /\ f[x] \in Nat /\ all[U \ {x}] \in Nat
      BY <1>2, <2>2
    <3> QED  BY <3>2
  <2>3. \A U \in SUBSET S : U # {} /\ (\A x \in U : U \ {x} \in Nats) => U \in Nats
    BY <2>2
  <2> HIDE DEF Nats
  <2> QED  BY <2>1, <2>3, SetInduction
<1>6. SUBSET T \subseteq Same
  <2>1. {} \in Same
    BY <1>2, <1>3
  <2>2. ASSUME NEW U \in SUBSET T, U # {}, \A x \in U : U \ {x} \in Same
        PROVE  U \in Same
    <3>1. PICK x \in U : TRUE
      BY <2>2
    <3>2. all[U] = f[x] + all[U \ {x}] /\ part[U] = f[x] + part[U \ {x}]
      BY <1>2, <1>3
    <3> QED  BY <2>2, <3>2
  <2>3. \A U \in SUBSET T : U # {} /\ (\A x \in U : U \ {x} \in Same) => U \in Same
    BY <2>2
  <2> HIDE DEF Same
  <2> QED  BY <1>1, <2>1, <2>3, SetInduction
<1>7. SUBSET (S \ T) \subseteq More
  <2>1. {} \in More
    <3>1. T \cup {} = T /\ all[T] \in Int
      BY <1>2
    <3> QED  BY <3>1
  <2>2. ASSUME NEW U \in SUBSET (S \ T), U # {}, \A x \in U : U \ {x} \in More
        PROVE  U \in More
    <3>1. PICK x \in U : TRUE
      BY <2>2
    <3>2. (T \cup U) \ {x} = T \cup (U \ {x}) /\ x \in T \cup U
      OBVIOUS
    <3>3. all[T \cup U] = f[x] + all[T \cup (U \ {x})]
      BY <1>2, <3>2
    <3>4. /\ f[x] \in Nat /\ all[T \cup (U \ {x})] \in Int /\ all[T] \in Int
          /\ all[T] <= all[T \cup (U \ {x})]
      BY <1>2, <2>2
    <3>5. all[T] <= all[T \cup U]
      BY <3>3, <3>4
    <3> QED  BY <3>5
  <2>3. \A U \in SUBSET (S \ T) : U # {} /\ (\A x \in U : U \ {x} \in More) => U \in More
    BY <2>2
  <2> HIDE DEF More
  <2> QED  BY <1>1, <2>1, <2>3, SetInduction
<1>8. part[T] = all[T] /\ all[T] \in Nat /\ all[S] \in Nat
  BY <1>5, <1>6
<1>9. all[T] <= all[S]
  <2>1. T \cup (S \ T) = S
    OBVIOUS
  <2> QED  BY <1>7, <2>1
<1> QED  BY <1>4, <1>8, <1>9

\* Two functions that differ in two places at most have sums that differ by as much.
LEMMA SumChanges ==
  ASSUME NEW S, IsFiniteSet(S), NEW f \in [S -> Int], NEW g \in [S -> Int],
         NEW i \in S, NEW j \in S, i # j,
         \A s \in S \ {i, j} : f[s] = g[s]
  PROVE  /\ SumFunctionOnSet(f, S) \in Int /\ SumFunctionOnSet(g, S) \in Int
         /\ SumFunctionOnSet(f, S) - SumFunctionOnSet(g, S)
              = (f[i] - g[i]) + (f[j] - g[j])
<1> DEFINE sf == Sums(f, S)
           sg == Sums(g, S)
           by(T) == (IF i \in T THEN f[i] - g[i] ELSE 0)
                      + (IF j \in T THEN f[j] - g[j] ELSE 0)
           Apart == {T \in SUBSET S : sf[T] - sg[T] = by(T)}
<1>0. ASSUME NEW h \in [S -> Int]
      PROVE  /\ Sums(h, S)[{}] = 0
             /\ \A T \in SUBSET S : Sums(h, S)[T] \in Int
             /\ \A T \in SUBSET S : \A x \in T :
                  Sums(h, S)[T] = h[x] + Sums(h, S)[T \ {x}]
  <2>1. \A s \in S : h[s] \in Int
    OBVIOUS
  <2> QED  BY <2>1, SumsShape
<1>1. /\ sf[{}] = 0
      /\ \A T \in SUBSET S : sf[T] \in Int
      /\ \A T \in SUBSET S : \A x \in T : sf[T] = f[x] + sf[T \ {x}]
  BY <1>0
<1>2. /\ sg[{}] = 0
      /\ \A T \in SUBSET S : sg[T] \in Int
      /\ \A T \in SUBSET S : \A x \in T : sg[T] = g[x] + sg[T \ {x}]
  BY <1>0
<1>3. SumFunctionOnSet(f, S) = sf[S] /\ SumFunctionOnSet(g, S) = sg[S]
  BY SumIsFold
<1> HIDE DEF sf, sg
<1>4. SUBSET S \subseteq Apart
  <2>1. {} \in Apart
    BY <1>1, <1>2
  <2>2. ASSUME NEW T \in SUBSET S, T # {}, \A x \in T : T \ {x} \in Apart
        PROVE  T \in Apart
    <3>1. PICK x \in T : TRUE
      BY <2>2
    <3>2. /\ sf[T] = f[x] + sf[T \ {x}] /\ sg[T] = g[x] + sg[T \ {x}]
          /\ f[x] \in Int /\ g[x] \in Int /\ sf[T \ {x}] \in Int /\ sg[T \ {x}] \in Int
          /\ sf[T \ {x}] - sg[T \ {x}] = by(T \ {x})
      BY <1>1, <1>2, <2>2
    <3>3. f[i] \in Int /\ g[i] \in Int /\ f[j] \in Int /\ g[j] \in Int
      OBVIOUS
    <3>4. sf[T] - sg[T] = (f[x] - g[x]) + by(T \ {x})
      <4> HIDE DEF by
      <4>1. by(T \ {x}) \in Int
        BY <3>2
      <4> QED  BY <3>2, <4>1
    <3>5. CASE x = i
      BY <3>3, <3>4, <3>5
    <3>6. CASE x = j
      BY <3>3, <3>4, <3>6
    <3>7. CASE x # i /\ x # j
      BY <3>2, <3>3, <3>4, <3>7
    <3> QED  BY <3>5, <3>6, <3>7
  <2>3. \A T \in SUBSET S : T # {} /\ (\A x \in T : T \ {x} \in Apart) => T \in Apart
    BY <2>2
  <2> HIDE DEF Apart
  <2> QED  BY <2>1, <2>3, SetInduction
<1> QED  BY <1>1, <1>2, <1>3, <1>4

-----------------------------------------------------------------------------
(* The invariant. *)

LEMMA InitInv == Init => Inv
  BY DEF Init, Inv

LEMMA FromEnvInv == Inv /\ FromEnv => Inv'
<1> SUFFICES ASSUME Inv, FromEnv
             PROVE  Inv'
  OBVIOUS
<1>1. env' = env /\ context' = context /\ findings' = findings
  BY DEF FromEnv
<1>2. config' = Configuration'
  BY <1>1 DEF FromEnv, Configuration, Acceptable, Threshold, On, AllowedTools
<1>3. context = NoContext /\ findings = {}
  BY DEF FromEnv, Inv, NotRead
<1> QED  BY <1>1, <1>2, <1>3 DEF Inv, NoContext

LEMMA ScanInv == Inv /\ Scan => Inv'
<1> SUFFICES ASSUME Inv, Scan
             PROVE  Inv'
  OBVIOUS
<1>1. env' = env /\ config' = config /\ config.state = "built"
  BY DEF Scan
<1>2. config' \in {NotRead', Configuration'}
  BY <1>1 DEF Inv, NotRead, Configuration, Acceptable, Threshold, On, AllowedTools
<1>3. context' \in Contexts /\ findings' = AllFindings(context')
  BY DEF Scan
<1> QED  BY <1>1, <1>2, <1>3 DEF Inv, AllFindings, FindingsOf, ScopeFindings

LEMMA StutterInv == Inv /\ UNCHANGED vars => Inv'
<1> SUFFICES ASSUME Inv, UNCHANGED vars
             PROVE  Inv'
  OBVIOUS
<1>1. env' = env /\ config' = config /\ context' = context /\ findings' = findings
  BY DEF vars
<1>2. config' \in {NotRead', Configuration'}
  BY <1>1 DEF Inv, NotRead, Configuration, Acceptable, Threshold, On, AllowedTools
<1>3. AllFindings(context)' = AllFindings(context)
  BY <1>1 DEF AllFindings, FindingsOf, ScopeFindings
<1>4. Contexts' = Contexts /\ NoContext' = NoContext
  OBVIOUS
<1> QED  BY <1>1, <1>2, <1>3, <1>4 DEF Inv

\* The configuration is what the environment says, and the findings are those of the
\* last context.
THEOREM FindingsAreThoseOfTheContext == Spec => []Inv
<1>1. Inv /\ [Next]_vars => Inv'
  BY FromEnvInv, ScanInv, StutterInv DEF Next
<1> QED  BY <1>1, InitInv, PTL DEF Spec

-----------------------------------------------------------------------------
(* Scores. *)

LEMMA InjectionScore ==
  ASSUME NEW text, NEW less, less.matches \subseteq text.matches
  PROVE  LET hits == Hits(InjectionWeight, text)
             fewer == Hits(InjectionWeight, less)
         IN  /\ fewer \subseteq hits
             /\ SumFunctionOnSet(InjectionWeight, fewer) \in Nat
             /\ SumFunctionOnSet(InjectionWeight, hits) \in Nat
             /\ SumFunctionOnSet(InjectionWeight, fewer)
                  <= SumFunctionOnSet(InjectionWeight, hits)
<1> DEFINE hits == Hits(InjectionWeight, text)
           fewer == Hits(InjectionWeight, less)
<1>1. fewer \subseteq hits
  BY DEF Hits
<1>2. IsFiniteSet(DOMAIN InjectionWeight)
  <2> DEFINE a == {"override_instructions", "new_persona", "prompt_exfiltration"}
             b == {"delimiter_spoof", "concealment_order", "encoded_payload_execution"}
             c == {"markdown_exfil_link", "authority_spoof", "invisible_unicode"}
  <2>1. DOMAIN InjectionWeight = (a \cup b) \cup c
    BY DEF InjectionWeight
  <2>2. \A x, y, z : IsFiniteSet({x, y, z})
    <3> SUFFICES ASSUME NEW x, NEW y, NEW z
                 PROVE  IsFiniteSet({x, y, z})
      OBVIOUS
    <3>1. IsFiniteSet({x}) /\ IsFiniteSet({y}) /\ IsFiniteSet({z})
      BY FS_Singleton
    <3>2. IsFiniteSet({x} \cup {y})
      BY <3>1, FS_Union
    <3>3. IsFiniteSet(({x} \cup {y}) \cup {z})
      BY <3>1, <3>2, FS_Union
    <3>4. {x, y, z} = ({x} \cup {y}) \cup {z}
      OBVIOUS
    <3> QED  BY <3>3, <3>4
  <2>3. IsFiniteSet(a) /\ IsFiniteSet(b) /\ IsFiniteSet(c)
    BY <2>2
  <2> HIDE DEF a, b, c
  <2>4. IsFiniteSet(a \cup b)
    BY <2>3, FS_Union
  <2> QED  BY <2>1, <2>3, <2>4, FS_Union
<1>3. hits \subseteq DOMAIN InjectionWeight
  BY DEF Hits
<1>4. IsFiniteSet(hits)
  BY <1>2, <1>3, FS_Subset
<1>5. \A p \in hits : InjectionWeight[p] \in Nat
  BY <1>3 DEF InjectionWeight
<1> HIDE DEF hits, fewer
<1> QED  BY <1>1, <1>4, <1>5, SumGrows DEF hits, fewer

LEMMA Extremes ==
  ASSUME NEW a \in Int, NEW b \in Int
  PROVE  /\ Min({a, b}) = IF a <= b THEN a ELSE b
         /\ Max({a, b}) = IF a >= b THEN a ELSE b
  BY DEF Min, Max

-----------------------------------------------------------------------------
(* What a detector finds is valid. *)

LEMMA InjectionValid ==
  ASSUME NEW ctx, NEW f \in InjectionFindings(ctx)
  PROVE  f.confidence \in 0 .. 100
<1> DEFINE score == SumFunctionOnSet(InjectionWeight, Hits(InjectionWeight, ctx.text))
<1>1. score \in Nat
  BY InjectionScore
<1>2. f.confidence = InjectionConfidence(score)
  BY DEF InjectionFindings, Finding
<1> HIDE DEF score
<1>3. 5 * score \in Nat
  BY <1>1
<1>4. InjectionConfidence(score) = IF 100 <= 5 * score THEN 100 ELSE 5 * score
  BY <1>3, Extremes DEF InjectionConfidence
<1> QED  BY <1>2, <1>3, <1>4

LEMMA ModelValid ==
  ASSUME NEW ctx \in Contexts, NEW f \in LlmFindings(ctx)
  PROVE  f.confidence \in 0 .. 100
<1>1. /\ ctx.reply.kind = "verdict" /\ f.confidence = Confidence(ctx.reply)
      /\ ctx.reply \in Replies
  BY DEF LlmFindings, Finding, Contexts
<1>2. ctx.reply \in Verdict
  BY <1>1, ContentsAssumption
<1> DEFINE c == ctx.reply.confidence
<1>3. c \in {Unset, "nan"} \cup [{1} -> Int]
  BY <1>2 DEF Verdict
<1>4. CASE c = Unset \/ c = "nan"
  BY <1>1, <1>4 DEF Confidence
<1>5. CASE ~ (c = Unset \/ c = "nan")
  <2>1. c[1] \in Int
    BY <1>3, <1>5
  <2>2. Confidence(ctx.reply) = Max({0, Min({100, c[1]})})
    BY <1>5 DEF Confidence
  <2> HIDE DEF c
  <2>3. Min({100, c[1]}) = (IF 100 <= c[1] THEN 100 ELSE c[1])
    BY <2>1, Extremes
  <2> DEFINE m == Min({100, c[1]})
  <2>4. m \in Int /\ m <= 100
    BY <2>1, <2>3
  <2> HIDE DEF m
  <2>5. Max({0, m}) = (IF 0 >= m THEN 0 ELSE m)
    BY <2>4, Extremes
  <2> QED  BY <1>1, <2>2, <2>4, <2>5 DEF m
<1> QED  BY <1>4, <1>5

LEMMA PoisoningShape ==
  ASSUME NEW ctx, NEW f \in PoisoningFindings(ctx)
  PROVE  \E p \in Hits(PoisoningSeverity, ctx.text) : \E severity :
           f = Finding("tool_poisoning", severity, {p}, {}, 85)
<1> DEFINE severity(p) == IF ctx.surface = "tool_output"
                            THEN Min({HIGH, PoisoningSeverity[p]})
                            ELSE PoisoningSeverity[p]
<1>1. f \in {Finding("tool_poisoning", severity(p), {p}, {}, 85) :
              p \in Hits(PoisoningSeverity, ctx.text)}
  BY DEF PoisoningFindings
<1> HIDE DEF severity
<1> QED  BY <1>1

LEMMA SecretShape ==
  ASSUME NEW ctx, NEW f
  PROVE  f \in SecretFindings(ctx)
           <=> \E p \in DOMAIN SecretRule : \E m \in Yielded(p, ctx.text) :
                 m.entropy >= SecretRule[p][2] /\ f = SecretLeak(p, m)
<1> DEFINE found(p) == SecretsOf(p, Yielded(p, ctx.text))
<1>1. SecretFindings(ctx) = UNION {found(p) : p \in DOMAIN SecretRule}
  BY DEF SecretFindings
<1>2. ASSUME NEW p
      PROVE  f \in found(p)
               <=> \E m \in Yielded(p, ctx.text) : m.entropy >= SecretRule[p][2] /\ f = SecretLeak(p, m)
  BY DEF SecretsOf
<1> HIDE DEF found
<1>3. f \in SecretFindings(ctx) <=> \E p \in DOMAIN SecretRule : f \in found(p)
  BY <1>1
<1> QED  BY <1>2, <1>3

LEMMA PiiShape ==
  ASSUME NEW ctx, NEW f
  PROVE  f \in PiiFindings(ctx)
           <=> \E p \in DOMAIN PiiRule : \E m \in Yielded(p, ctx.text) :
                 PiiGate(p, m.digits) /\ f = PiiLeak(p, m)
<1> DEFINE found(p) == PersonalDataOf(p, Yielded(p, ctx.text))
<1>1. PiiFindings(ctx) = UNION {found(p) : p \in DOMAIN PiiRule}
  BY DEF PiiFindings
<1>2. ASSUME NEW p
      PROVE  f \in found(p)
               <=> \E m \in Yielded(p, ctx.text) : PiiGate(p, m.digits) /\ f = PiiLeak(p, m)
  BY DEF PersonalDataOf
<1> HIDE DEF found
<1>3. f \in PiiFindings(ctx) <=> \E p \in DOMAIN PiiRule : f \in found(p)
  BY <1>1
<1> QED  BY <1>2, <1>3

LEMMA TableValid ==
  ASSUME NEW ctx,
         NEW f \in SecretFindings(ctx) \cup PiiFindings(ctx) \cup PoisoningFindings(ctx)
                     \cup ScopeFindings(ctx) \cup MemoryFindings(ctx)
  PROVE  f.confidence \in 0 .. 100
<1>1. CASE f \in SecretFindings(ctx)
  <2>1. \A p \in DOMAIN SecretRule : (IF SecretRule[p][2] > 0 THEN 90 ELSE 100) \in 0 .. 100
    OBVIOUS
  <2> QED  BY <1>1, <2>1, SecretShape DEF SecretLeak, Finding
<1>2. CASE f \in PiiFindings(ctx)
  <2>1. \A p \in DOMAIN PiiRule : PiiRule[p][2] \in 0 .. 100
    BY DEF PiiRule
  <2> QED  BY <1>2, <2>1, PiiShape DEF PiiLeak, Finding
<1>3. CASE f \in PoisoningFindings(ctx)
  BY <1>3, PoisoningShape DEF Finding
<1>4. CASE f \in ScopeFindings(ctx)
  BY <1>4 DEF ScopeFindings, Finding
<1>5. CASE f \in MemoryFindings(ctx)
  BY <1>5 DEF MemoryFindings, StandingOrder, PersistentInjections, Finding
<1> QED  BY <1>1, <1>2, <1>3, <1>4, <1>5

\* No finding has a confidence its pydantic model refuses, and no configuration that
\* was built a threshold below the least one (schema.py:99, config.py:45-49).
THEOREM ObjectsAreValid == Spec => []FieldsValid
<1>1. ASSUME Inv
      PROVE  FieldsValid
  <2>1. ASSUME NEW f \in findings
        PROVE  f.confidence \in 0 .. 100
    <3>1. context \in Contexts /\ f \in AllFindings(context)
      BY <1>1, <2>1 DEF Inv
    <3>2. PICK toggle : f \in FindingsOf(toggle, context)
      BY <3>1 DEF AllFindings
    <3>3. \/ f \in InjectionFindings(context)
          \/ f \in LlmFindings(context)
          \/ f \in SecretFindings(context) \cup PiiFindings(context)
                     \cup PoisoningFindings(context) \cup ScopeFindings(context)
                     \cup MemoryFindings(context)
      BY <3>2 DEF FindingsOf
    <3> QED  BY <3>1, <3>3, InjectionValid, ModelValid, TableValid
  <2>2. ASSUME config.state = "built", NEW name \in DOMAIN LeastOf
        PROVE  config.threshold[name] >= LeastOf[name]
    <3>1. config = Configuration
      <4>1. NotRead.state # "built"
        BY DEF NotRead
      <4>2. config \in {NotRead, Configuration}
        BY <1>1 DEF Inv
      <4> QED  BY <2>2, <4>1, <4>2
    <3>2. \A n \in DOMAIN DefaultOf : Acceptable(n)
      BY <2>2, <3>1 DEF Configuration, Refused
    <3>3. config.threshold = [n \in DOMAIN DefaultOf |-> Threshold(n)]
      BY <3>1, <3>2 DEF Configuration
    <3>4. name \in DOMAIN DefaultOf
      BY <2>2 DEF DefaultOf, LeastOf
    <3> QED  BY <3>2, <3>3, <3>4 DEF Acceptable
  <2> QED  BY <2>1, <2>2 DEF FieldsValid
<1> QED  BY <1>1, FindingsAreThoseOfTheContext, PTL

-----------------------------------------------------------------------------
(* The list of allowed tools. *)

\* The rules each detector may name.
RulesOf(toggle) ==
  CASE toggle = "secrets" -> DOMAIN SecretRule
    [] toggle = "pii" -> DOMAIN PiiRule
    [] toggle = "prompt_injection" -> DOMAIN InjectionWeight
    [] toggle = "tool_poisoning" -> DOMAIN PoisoningSeverity
    [] toggle = "scope_violation" -> {"tool_not_allowlisted", "sensitive_path_access"}
    [] toggle = "memory_poisoning" -> DOMAIN InjectionWeight \cup {"persistence_order"}
    [] toggle = "llm" -> {"llm_classifier"}
    [] OTHER -> {}

LEMMA RulesAreTheDetectors ==
  ASSUME NEW ctx, NEW toggle, NEW f \in FindingsOf(toggle, ctx)
  PROVE  f.rules \subseteq RulesOf(toggle)
<1>1. CASE toggle = "secrets"
  BY <1>1, SecretShape DEF SecretLeak, FindingsOf, RulesOf, Finding
<1>2. CASE toggle = "pii"
  BY <1>2, PiiShape DEF PiiLeak, FindingsOf, RulesOf, Finding
<1>3. CASE toggle = "prompt_injection"
  BY <1>3 DEF FindingsOf, RulesOf, InjectionFindings, Hits, Finding
<1>4. CASE toggle = "tool_poisoning"
  <2>1. f \in PoisoningFindings(ctx)
    BY <1>4 DEF FindingsOf
  <2>2. PICK p \in Hits(PoisoningSeverity, ctx.text) :
          \E severity : f = Finding("tool_poisoning", severity, {p}, {}, 85)
    BY <2>1, PoisoningShape
  <2>3. f.rules = {p}
    BY <2>2 DEF Finding
  <2> QED  BY <1>4, <2>3 DEF RulesOf, Hits
<1>5. CASE toggle = "scope_violation"
  BY <1>5 DEF FindingsOf, RulesOf, ScopeFindings, Hits, Finding
<1>6. CASE toggle = "memory_poisoning"
  BY <1>6 DEF FindingsOf, RulesOf, MemoryFindings, StandingOrder, PersistentInjections,
              Hits, Finding
<1>7. CASE toggle = "llm"
  BY <1>7 DEF FindingsOf, RulesOf, LlmFindings, Finding
<1> QED  BY <1>1, <1>2, <1>3, <1>4, <1>5, <1>6, <1>7 DEF FindingsOf

LEMMA AllowlistIsScopes ==
  ASSUME NEW toggle, "tool_not_allowlisted" \in RulesOf(toggle)
  PROVE  toggle = "scope_violation"
  BY DEF RulesOf, SecretRule, PiiRule, InjectionWeight, PoisoningSeverity

LEMMA CardsArePii ==
  ASSUME NEW toggle, "credit_card" \in RulesOf(toggle)
  PROVE  toggle = "pii"
  BY DEF RulesOf, SecretRule, InjectionWeight, PoisoningSeverity

\* What the list allows, as the detector sees it and as the environment has it.
LEMMA ListAsWritten ==
  ASSUME env \in Environments, NEW tool \in Tools
  PROVE  (AllowedTools # Unset /\ tool \notin AllowedTools)
           <=> (env.allowed # Unset /\ env.allowed # {} /\ tool \notin env.allowed)
<1>1. env.allowed = Unset \/ env.allowed \in SUBSET (Tools \cup {Blank})
  BY EnvironmentsAssumption DEF Environment
<1>2. tool # Blank
  BY NamesAssumption
<1>3. CASE env.allowed \in {Unset, {}}
  BY <1>3 DEF AllowedTools
<1>4. CASE env.allowed \notin {Unset, {}}
  <2>1. AllowedTools = env.allowed \ {Blank}
    BY <1>4 DEF AllowedTools
  <2>2. AllowedTools \in SUBSET (Tools \cup {Blank})
    BY <1>1, <1>4, <2>1
  <2>3. AllowedTools # Unset
    BY <2>2, NamesAssumption
  <2> QED  BY <1>2, <1>4, <2>1, <2>3
<1> QED  BY <1>3, <1>4

LEMMA ScopeShape ==
  ASSUME NEW ctx
  PROVE  (\E f \in ScopeFindings(ctx) : f.rules = {"tool_not_allowlisted"})
           <=> /\ ctx.surface = "tool_input" /\ ctx.tool # NoTool
               /\ config.allowed # Unset /\ ctx.tool \notin config.allowed
<1> DEFINE named == {Finding("scope_violation", HIGH, {"tool_not_allowlisted"}, {}, 100) :
                       tool \in {t \in {ctx.tool} \ {NoTool} :
                                   config.allowed # Unset /\ t \notin config.allowed}}
           paths == {Finding("scope_violation", HIGH, {p}, {}, 85) :
                       p \in Hits([sensitive_path_access |-> HIGH], ctx.text)}
<1>1. ScopeFindings(ctx) = IF ctx.surface # "tool_input" THEN {} ELSE named \cup paths
  BY DEF ScopeFindings
<1>2. \A f \in paths : f.rules # {"tool_not_allowlisted"}
  <2> SUFFICES ASSUME NEW p \in Hits([sensitive_path_access |-> HIGH], ctx.text)
               PROVE  {p} # {"tool_not_allowlisted"}
    BY DEF Finding
  <2>1. p = "sensitive_path_access"
    BY DEF Hits
  <2> QED  BY <2>1
<1>3. (\E f \in named : f.rules = {"tool_not_allowlisted"})
        <=> /\ ctx.tool # NoTool
            /\ config.allowed # Unset /\ ctx.tool \notin config.allowed
  <2> DEFINE report == Finding("scope_violation", HIGH, {"tool_not_allowlisted"}, {}, 100)
  <2>1. report.rules = {"tool_not_allowlisted"}
    BY DEF Finding
  <2> HIDE DEF report
  <2>2. named = {report : tool \in {t \in {ctx.tool} \ {NoTool} :
                                     config.allowed # Unset /\ t \notin config.allowed}}
    BY DEF report
  <2> QED  BY <2>1, <2>2
<1> HIDE DEF named, paths
<1> QED  BY <1>1, <1>2, <1>3

\* A call is reported exactly if the environment lists other tools only: "any other
\* tool call is a violation" (scope.py:4), from the variable to the finding.
THEOREM ListsMeanWhatTheySay == Spec => []AllowlistExact
<1>1. ASSUME Inv
      PROVE  AllowlistExact
  <2> SUFFICES ASSUME config.state = "built", "scope_violation" \in config.detectors
               PROVE  (\E f \in findings : f.rules = {"tool_not_allowlisted"})
                        <=> /\ context.surface = "tool_input" /\ context.tool # NoTool
                            /\ env.allowed # Unset /\ env.allowed # {}
                            /\ context.tool \notin env.allowed
    BY DEF AllowlistExact
  <2>1. config = Configuration
    <3>1. NotRead.state # "built"
      BY DEF NotRead
    <3> QED  BY <1>1, <3>1 DEF Inv
  <2>2. config.allowed = AllowedTools
    BY <2>1 DEF Configuration, Refused
  <2>3. CASE context = NoContext /\ findings = {}
    BY <2>3 DEF NoContext
  <2>4. CASE context \in Contexts /\ findings = AllFindings(context)
    <3>1. (\E f \in findings : f.rules = {"tool_not_allowlisted"})
            <=> \E f \in ScopeFindings(context) : f.rules = {"tool_not_allowlisted"}
      <4>1. ASSUME NEW f \in findings, f.rules = {"tool_not_allowlisted"}
            PROVE  f \in ScopeFindings(context)
        <5>1. PICK toggle : f \in FindingsOf(toggle, context)
          BY <2>4 DEF AllFindings
        <5>2. toggle = "scope_violation"
          BY <4>1, <5>1, RulesAreTheDetectors, AllowlistIsScopes
        <5> QED  BY <5>1, <5>2 DEF FindingsOf
      <4>2. ScopeFindings(context) \subseteq findings
        BY <2>4 DEF AllFindings, FindingsOf
      <4> QED  BY <4>1, <4>2
    <3>2. context.tool # NoTool => context.tool \in Tools
      BY <2>4 DEF Contexts
    <3>3. env \in Environments
      BY <1>1 DEF Inv
    <3>4. CASE context.tool = NoTool
      BY <3>1, <3>4, ScopeShape
    <3>5. CASE context.tool # NoTool
      BY <2>2, <3>1, <3>2, <3>3, <3>5, ScopeShape, ListAsWritten
    <3> QED  BY <3>4, <3>5
  <2> QED  BY <1>1, <2>3, <2>4 DEF Inv
<1> QED  BY <1>1, FindingsAreThoseOfTheContext, PTL

-----------------------------------------------------------------------------
(* More text. *)

\* What is found in a part of a text is found in all of it.
LEMMA InjectionInMore ==
  ASSUME NEW ctx, NEW less, less.surface = ctx.surface,
         less.text.matches \subseteq ctx.text.matches,
         NEW f \in InjectionFindings(less)
  PROVE  \E g \in InjectionFindings(ctx) : g.type = f.type /\ g.severity >= f.severity
<1> DEFINE hits == Hits(InjectionWeight, ctx.text)
           fewer == Hits(InjectionWeight, less.text)
           score == SumFunctionOnSet(InjectionWeight, hits)
           part == SumFunctionOnSet(InjectionWeight, fewer)
           base == IF ctx.surface \in IndirectSurface THEN HIGH ELSE MEDIUM
           severity(n) == base + (IF n >= 15 THEN 1 ELSE 0)
           g == Finding("prompt_injection", severity(score), hits, {},
                        InjectionConfidence(score))
<1>1. score \in Nat /\ part \in Nat /\ part <= score
  BY InjectionScore
<1>2. /\ ctx.surface # "system_prompt" /\ ~ (part < 8)
      /\ f = Finding("prompt_injection", severity(part), fewer, {},
                     InjectionConfidence(part))
  BY DEF InjectionFindings
<1>3. g \in InjectionFindings(ctx)
  <2>1. ~ (score < 8)
    BY <1>1, <1>2
  <2> QED  BY <1>2, <2>1 DEF InjectionFindings
<1>4. severity(score) >= severity(part)
  <2>1. base \in Int
    BY DEF HIGH, MEDIUM
  <2> HIDE DEF base, score, part
  <2> QED  BY <1>1, <2>1
<1>5. g.type = f.type /\ g.severity >= f.severity
  <2> HIDE DEF severity, score, part, fewer, hits
  <2> QED  BY <1>2, <1>4 DEF Finding
<1> QED  BY <1>3, <1>5

LEMMA TablesInMore ==
  ASSUME NEW ctx, NEW less, less.surface = ctx.surface, less.tool = ctx.tool,
         less.text.matches \subseteq ctx.text.matches
  PROVE  /\ PoisoningFindings(less) \subseteq PoisoningFindings(ctx)
         /\ ScopeFindings(less) \subseteq ScopeFindings(ctx)
         /\ MemoryFindings(less) \subseteq MemoryFindings(ctx)
<1>1. \A table : Hits(table, less.text) \subseteq Hits(table, ctx.text)
  BY DEF Hits
<1>2. PoisoningFindings(less) \subseteq PoisoningFindings(ctx)
  BY <1>1 DEF PoisoningFindings
<1>3. ScopeFindings(less) \subseteq ScopeFindings(ctx)
  BY <1>1 DEF ScopeFindings
<1>4. MemoryFindings(less) \subseteq MemoryFindings(ctx)
  BY <1>1 DEF MemoryFindings, StandingOrder, PersistentInjections
<1> QED  BY <1>2, <1>3, <1>4

\* What finditer() yields of a set of matches.
Yields(S, C) ==
  /\ S \subseteq C
  /\ \A m \in C : m \in S <=> \A t \in S : t.from < m.from => t.to <= m.from

\* Going from left to right there is such a set, however far one goes.
LEMMA FindIterYields ==
  ASSUME NEW C, NEW length \in Nat,
         \A m \in C : m.from \in Nat /\ m.to \in Nat /\ m.from < length
  PROVE  Yields(FindIter(C), C)
<1> DEFINE upto(n) == {m \in C : m.from < n}
           G == {n \in Nat : \E S : Yields(S, upto(n))}
<1>1. 0 \in G
  <2>1. upto(0) = {}
    OBVIOUS
  <2>2. Yields({}, upto(0))
    BY <2>1 DEF Yields
  <2> QED  BY <2>2
<1>2. ASSUME NEW n \in Nat, n \in G
      PROVE  n + 1 \in G
  <2>1. PICK S : Yields(S, upto(n))
    BY <1>2
  <2> DEFINE here == {m \in C : m.from = n /\ \A t \in S : t.to <= n}
             more == S \cup here
  <2>2. \A t \in S : t \in C /\ t.from \in Nat /\ t.to \in Nat /\ t.from < n
    BY <2>1 DEF Yields
  <2>3. more \subseteq upto(n + 1)
    BY <2>2
  <2>4. ASSUME NEW m \in upto(n + 1)
        PROVE  m \in more <=> \A t \in more : t.from < m.from => t.to <= m.from
    <3>1. m \in C /\ m.from \in Nat /\ (m.from < n \/ m.from = n)
      OBVIOUS
    <3>2. CASE m.from < n
      <4>1. \A t \in more : t.from < m.from <=> t \in S /\ t.from < m.from
        BY <2>2, <3>1, <3>2
      <4>2. m \in S <=> \A t \in S : t.from < m.from => t.to <= m.from
        BY <2>1, <3>1, <3>2 DEF Yields
      <4>3. m \in more <=> m \in S
        BY <3>1, <3>2
      <4> QED  BY <4>1, <4>2, <4>3
    <3>3. CASE m.from = n
      <4>1. m \notin S
        BY <2>2, <3>3
      <4>2. m \in more <=> \A t \in S : t.to <= n
        BY <3>1, <3>3, <4>1
      <4>3. \A t \in more : t.from < n <=> t \in S
        BY <2>2
      <4> QED  BY <3>3, <4>2, <4>3
    <3> QED  BY <3>1, <3>2, <3>3
  <2>5. Yields(more, upto(n + 1))
    <3> HIDE DEF more, upto
    <3> QED  BY <2>3, <2>4 DEF Yields
  <2> HIDE DEF more, upto
  <2> QED  BY <2>5
<1>3. length \in G
  <2>1. \A n \in Nat : n \in G => n + 1 \in G
    BY <1>2
  <2> HIDE DEF G
  <2> QED  BY <1>1, <2>1, NumberInduction
<1>4. upto(length) = C
  OBVIOUS
<1>5. PICK S : Yields(S, C)
  BY <1>3, <1>4
<1>6. /\ S \in SUBSET C
      /\ \A m \in C : m \in S <=> \A t \in S : t.from < m.from => t.to <= m.from
  BY <1>5 DEF Yields
<1> QED  BY <1>6 DEF FindIter, Yields

\* And only one.
LEMMA FindIterUnique ==
  ASSUME NEW C, \A m \in C : m.from \in Nat, NEW S, NEW T, Yields(S, C), Yields(T, C)
  PROVE  S = T
<1> DEFINE G == {n \in Nat : \A m \in C : m.from < n => (m \in S <=> m \in T)}
<1>1. 0 \in G
  OBVIOUS
<1>2. ASSUME NEW n \in Nat, n \in G
      PROVE  n + 1 \in G
  <2> SUFFICES ASSUME NEW m \in C, m.from < n + 1
               PROVE  m \in S <=> m \in T
    OBVIOUS
  <2>1. /\ m \in S <=> \A t \in S : t.from < m.from => t.to <= m.from
        /\ m \in T <=> \A t \in T : t.from < m.from => t.to <= m.from
        /\ S \subseteq C /\ T \subseteq C
    BY DEF Yields
  <2>2. \A t \in C : t.from < m.from => (t \in S <=> t \in T)
    <3>1. \A t \in C : t.from < m.from => t.from < n
      OBVIOUS
    <3> QED  BY <1>2, <3>1
  <2> QED  BY <2>1, <2>2
<1>3. ASSUME NEW m \in C
      PROVE  m \in S <=> m \in T
  <2> DEFINE n == m.from + 1
  <2>1. n \in Nat /\ m.from < n
    OBVIOUS
  <2>2. n \in G
    <3>1. \A k \in Nat : k \in G => k + 1 \in G
      BY <1>2
    <3> HIDE DEF G, n
    <3> QED  BY <1>1, <2>1, <3>1, NumberInduction
  <2> QED  BY <2>1, <2>2
<1> QED  BY <1>3 DEF Yields

\* If nothing that is yielded reaches over a place, what is yielded before and after it
\* is what the whole yields there.
LEMMA PartsAreYielded ==
  ASSUME NEW C, NEW length \in Nat, NEW b \in Nat,
         \A m \in C : m.from \in Nat /\ m.to \in Nat /\ m.from < m.to /\ m.to <= length,
         \A m \in FindIter(C) : ~ (m.from < b /\ b < m.to)
  PROVE  /\ FindIter({m \in C : m.to <= b}) \subseteq FindIter(C)
         /\ FindIter({m \in C : m.from >= b}) \subseteq FindIter(C)
<1> DEFINE S == FindIter(C)
           front == {m \in C : m.to <= b}
           rest == {m \in C : m.from >= b}
<1>1. Yields(S, C) /\ Yields(FindIter(front), front) /\ Yields(FindIter(rest), rest)
  <2>1. ASSUME NEW D \in SUBSET C
        PROVE  Yields(FindIter(D), D)
    <3>1. \A m \in D : m.from \in Nat /\ m.to \in Nat /\ m.from < length
      OBVIOUS
    <3> QED  BY <3>1, FindIterYields
  <2> QED  BY <2>1
<1> HIDE DEF S
<1>2. /\ S \subseteq C
      /\ \A t \in S : ~ (t.from < b /\ b < t.to)
      /\ \A m \in C : m \in S <=> \A t \in S : t.from < m.from => t.to <= m.from
  BY <1>1 DEF Yields, S
<1>3. Yields(S \cap front, front)
  <2> SUFFICES ASSUME NEW m \in front
               PROVE  m \in S <=> \A t \in S \cap front : t.from < m.from => t.to <= m.from
    BY DEF Yields
  <2>1. ASSUME NEW t \in S, t.from < m.from
        PROVE  t \in front
    BY <1>2, <2>1
  <2> QED  BY <1>2, <2>1
<1>4. Yields(S \cap rest, rest)
  <2> SUFFICES ASSUME NEW m \in rest
               PROVE  m \in S <=> \A t \in S \cap rest : t.from < m.from => t.to <= m.from
    BY DEF Yields
  <2>1. ASSUME NEW t \in S, t.from < m.from
        PROVE  t \in rest \/ t.to <= m.from
    BY <1>2, <2>1
  <2> QED  BY <1>2, <2>1
<1>5. FindIter(front) = S \cap front
  <2>1. \A m \in front : m.from \in Nat
    OBVIOUS
  <2> QED  BY <1>1, <1>3, <2>1, FindIterUnique
<1>6. FindIter(rest) = S \cap rest
  <2>1. \A m \in rest : m.from \in Nat
    OBVIOUS
  <2> QED  BY <1>1, <1>4, <2>1, FindIterUnique
<1> QED  BY <1>5, <1>6 DEF S

\* A part of the context's text yields for a rule what the whole does.
LEMMA PartsOfTheText ==
  ASSUME context \in Contexts, NEW b \in context.text.breaks, NEW p, ~ ReachesOver(p, b),
         NEW part, part.matches \in {Before(b), After(b)}
  PROVE  Yielded(p, part) \subseteq Yielded(p, context.text)
<1> DEFINE C == {m \in context.text.matches : m.rule = p}
           length == context.text.length
<1>1. context.text \in Texts
  BY DEF Contexts
<1>2. context.text \in Text
  BY <1>1, ContentsAssumption
<1>3. length \in Nat /\ b \in Nat
  BY <1>2 DEF Text
<1>4. ASSUME NEW m \in C
      PROVE  m.from \in Nat /\ m.to \in Nat /\ m.from < m.to /\ m.to <= length
  <2>1. m \in Match
    BY <1>2 DEF Text
  <2>2. m.from < m.to /\ m.to <= length
    BY <1>1, ContentsAssumption
  <2> QED  BY <2>1, <2>2 DEF Match
<1>5. /\ Yielded(p, context.text) = FindIter(C)
      /\ Yielded(p, part) = FindIter({m \in part.matches : m.rule = p})
  BY DEF Yielded
<1>6. \A m \in FindIter(C) : ~ (m.from < b /\ b < m.to)
  BY <1>5 DEF ReachesOver
<1>7. \/ {m \in part.matches : m.rule = p} = {m \in C : m.to <= b}
      \/ {m \in part.matches : m.rule = p} = {m \in C : m.from >= b}
  BY DEF Before, After
<1> HIDE DEF C, length
<1>8. /\ FindIter({m \in C : m.to <= b}) \subseteq FindIter(C)
      /\ FindIter({m \in C : m.from >= b}) \subseteq FindIter(C)
  BY <1>3, <1>4, <1>6, PartsAreYielded
<1> QED  BY <1>5, <1>7, <1>8

LEMMA SeveritiesAreNumbers ==
  ASSUME NEW ctx, NEW toggle, toggle # "llm", toggle # "prompt_injection",
         NEW f \in FindingsOf(toggle, ctx)
  PROVE  f.severity \in Int
<1> USE DEF LOW, MEDIUM, HIGH, CRITICAL
<1>1. CASE f \in SecretFindings(ctx)
  <2>1. PICK p \in DOMAIN SecretRule : f.severity = SecretRule[p][1]
    BY <1>1, SecretShape DEF SecretLeak, Finding
  <2>2. \A q \in DOMAIN SecretRule : SecretRule[q][1] \in Int
    BY DEF SecretRule
  <2> QED  BY <2>1, <2>2
<1>2. CASE f \in PiiFindings(ctx)
  <2>1. PICK p \in DOMAIN PiiRule : f.severity = PiiRule[p][1]
    BY <1>2, PiiShape DEF PiiLeak, Finding
  <2>2. \A q \in DOMAIN PiiRule : PiiRule[q][1] \in Int
    BY DEF PiiRule
  <2> QED  BY <2>1, <2>2
<1>3. CASE f \in PoisoningFindings(ctx)
  <2> DEFINE severity(p) == IF ctx.surface = "tool_output"
                              THEN Min({HIGH, PoisoningSeverity[p]})
                              ELSE PoisoningSeverity[p]
  <2>1. f \in {Finding("tool_poisoning", severity(p), {p}, {}, 85) :
                p \in Hits(PoisoningSeverity, ctx.text)}
    BY <1>3 DEF PoisoningFindings
  <2>2. ASSUME NEW p \in Hits(PoisoningSeverity, ctx.text)
        PROVE  severity(p) \in Int
    <3>1. PoisoningSeverity[p] \in Int
      BY DEF PoisoningSeverity, Hits
    <3>2. Min({HIGH, PoisoningSeverity[p]}) \in Int
      BY <3>1, Extremes
    <3> QED  BY <3>1, <3>2
  <2> HIDE DEF severity
  <2> QED  BY <2>1, <2>2 DEF Finding
<1>4. CASE f \in ScopeFindings(ctx)
  BY <1>4 DEF ScopeFindings, Finding
<1>5. CASE f \in MemoryFindings(ctx)
  BY <1>5 DEF MemoryFindings, StandingOrder, PersistentInjections, Finding
<1> QED  BY <1>1, <1>2, <1>3, <1>4, <1>5 DEF FindingsOf

\* Which findings name a match.
LEMMA MatchesShape ==
  ASSUME NEW ctx, NEW toggle, NEW f \in FindingsOf(toggle, ctx)
  PROVE  f.matches = {} <=> toggle \notin {"secrets", "pii"}
<1>1. CASE toggle = "secrets"
  BY <1>1, SecretShape DEF SecretLeak, FindingsOf, Finding
<1>2. CASE toggle = "pii"
  BY <1>2, PiiShape DEF PiiLeak, FindingsOf, Finding
<1>3. CASE toggle = "prompt_injection"
  BY <1>3 DEF FindingsOf, InjectionFindings, Finding
<1>4. CASE toggle = "tool_poisoning"
  BY <1>4, PoisoningShape DEF FindingsOf, Finding
<1>5. CASE toggle = "scope_violation"
  BY <1>5 DEF FindingsOf, ScopeFindings, Finding
<1>6. CASE toggle = "memory_poisoning"
  BY <1>6 DEF FindingsOf, MemoryFindings, StandingOrder, PersistentInjections, Finding
<1>7. CASE toggle = "llm"
  BY <1>7 DEF FindingsOf, LlmFindings, Finding
<1> QED  BY <1>1, <1>2, <1>3, <1>4, <1>5, <1>6, <1>7 DEF FindingsOf

\* What is found in the lines before or after a line break is found in the whole text,
\* except for the matches of a rule of which one is yielded that reaches over the break:
\* patterns of other lines are still there, the score only grows, and finditer() comes
\* to the same matches.
THEOREM PartsAreFoundInTheWhole == Spec => []OnlyOverlapHides
<1>1. ASSUME Inv
      PROVE  OnlyOverlapHides
  <2> SUFFICES ASSUME NEW b \in context.text.breaks, NEW kept \in {Before(b), After(b)},
                      NEW f \in AllFindings([context EXCEPT !.text.matches = kept])
                                  \ LlmFindings([context EXCEPT !.text.matches = kept])
               PROVE  IF f.matches = {}
                        THEN \E g \in findings : g.type = f.type /\ g.severity >= f.severity
                        ELSE f \in findings \/ \E p \in f.rules : ReachesOver(p, b)
    BY DEF OnlyOverlapHides
  <2> DEFINE part == [context EXCEPT !.text.matches = kept]
  <2>1. context \in Contexts /\ findings = AllFindings(context)
    BY <1>1 DEF Inv, NoContext, NoText
  <2>2. /\ part.surface = context.surface /\ part.tool = context.tool
        /\ part.text.matches = kept /\ kept \subseteq context.text.matches
    <3>1. context.text \in Text
      BY <2>1, ContentsAssumption DEF Contexts
    <3>2. part.text = [context.text EXCEPT !.matches = kept]
      BY <2>1 DEF Contexts
    <3>3. part.text.matches = kept
      BY <3>1, <3>2 DEF Text
    <3>4. part.surface = context.surface /\ part.tool = context.tool
      BY <2>1 DEF Contexts
    <3> QED  BY <3>3, <3>4 DEF Before, After
  <2> HIDE DEF part
  <2>3. PICK toggle \in config.detectors : f \in FindingsOf(toggle, part)
    BY DEF AllFindings, part
  <2>4. FindingsOf(toggle, context) \subseteq findings
    BY <2>1, <2>3 DEF AllFindings
  <2>5. toggle # "llm"
    BY <2>3 DEF FindingsOf, part
  <2>6. CASE toggle \in {"secrets", "pii"}
    <3>1. f.matches # {}
      BY <2>3, <2>6, MatchesShape
    <3>2. ASSUME \A p \in f.rules : ~ ReachesOver(p, b)
          PROVE  f \in findings
      <4>1. \A p \in f.rules : Yielded(p, part.text) \subseteq Yielded(p, context.text)
        BY <2>1, <2>2, <3>2, PartsOfTheText
      <4>2. CASE toggle = "secrets"
        <5>1. f \in SecretFindings(part)
          BY <2>3, <4>2 DEF FindingsOf
        <5>2. PICK p \in DOMAIN SecretRule : \E m \in Yielded(p, part.text) :
                /\ m.entropy >= SecretRule[p][2]
                /\ f = SecretLeak(p, m)
          BY <5>1, SecretShape
        <5>3. PICK m \in Yielded(p, part.text) :
                /\ m.entropy >= SecretRule[p][2]
                /\ f = SecretLeak(p, m)
          BY <5>2
        <5>4. m \in Yielded(p, context.text)
          BY <4>1, <5>3 DEF Finding, SecretLeak, PiiLeak
        <5>5. f \in SecretFindings(context)
          BY <5>3, <5>4, SecretShape
        <5> QED  BY <2>4, <4>2, <5>5 DEF FindingsOf
      <4>3. CASE toggle = "pii"
        <5>1. f \in PiiFindings(part)
          BY <2>3, <4>3 DEF FindingsOf
        <5>2. PICK p \in DOMAIN PiiRule : \E m \in Yielded(p, part.text) :
                /\ PiiGate(p, m.digits)
                /\ f = PiiLeak(p, m)
          BY <5>1, PiiShape
        <5>3. PICK m \in Yielded(p, part.text) :
                /\ PiiGate(p, m.digits)
                /\ f = PiiLeak(p, m)
          BY <5>2
        <5>4. m \in Yielded(p, context.text)
          BY <4>1, <5>3 DEF Finding, SecretLeak, PiiLeak
        <5>5. f \in PiiFindings(context)
          BY <5>3, <5>4, PiiShape
        <5> QED  BY <2>4, <4>3, <5>5 DEF FindingsOf
      <4> QED  BY <2>6, <4>2, <4>3
    <3> QED  BY <3>1, <3>2
  <2>7. CASE toggle \notin {"secrets", "pii"}
    <3>1. f.matches = {}
      BY <2>3, <2>7, MatchesShape
    <3>2. \E g \in findings : g.type = f.type /\ g.severity >= f.severity
      <4>1. CASE toggle = "prompt_injection"
        <5>1. /\ FindingsOf(toggle, part) = InjectionFindings(part)
              /\ FindingsOf(toggle, context) = InjectionFindings(context)
          BY <4>1 DEF FindingsOf
        <5> QED  BY <2>2, <2>3, <2>4, <5>1, InjectionInMore
      <4>2. CASE toggle # "prompt_injection"
        <5>1. f \in FindingsOf(toggle, context)
          BY <2>2, <2>3, <2>5, <2>7, <4>2, TablesInMore DEF FindingsOf
        <5>2. f.severity >= f.severity
          BY <2>3, <2>5, <4>2, SeveritiesAreNumbers
        <5> QED  BY <2>4, <5>1, <5>2
      <4> QED  BY <4>1, <4>2
    <3> QED  BY <3>1, <3>2
  <2> QED  BY <2>6, <2>7
<1> QED  BY <1>1, FindingsAreThoseOfTheContext, PTL

-----------------------------------------------------------------------------
(* Card numbers. *)

LEMMA DoubledDigits ==
  ASSUME NEW i \in Nat, NEW d \in 0 .. 9, NEW e \in 0 .. 9
  PROVE  /\ LuhnDigit(d, i) \in 0 .. 9
         /\ LuhnDigit(d, i) = LuhnDigit(e, i) => d = e
  BY DEF LuhnDigit

\* Of two neighbours one is doubled.
LEMMA Neighbours ==
  ASSUME NEW i \in Nat, NEW d \in 0 .. 9, NEW e \in 0 .. 9, d # e, {d, e} # {0, 9}
  PROVE  LET by == (LuhnDigit(e, i) - LuhnDigit(d, i))
                     + (LuhnDigit(d, i + 1) - LuhnDigit(e, i + 1))
         IN  by # 0 /\ by \in -9 .. 9
<1>1. \/ i % 2 = 0 /\ (i + 1) % 2 = 1
      \/ i % 2 = 1 /\ (i + 1) % 2 = 0
  OBVIOUS
<1>2. ~ (d = 0 /\ e = 9) /\ ~ (d = 9 /\ e = 0)
  OBVIOUS
<1> QED  BY <1>1, <1>2 DEF LuhnDigit

LuhnTerms(digits) ==
  [i \in DOMAIN digits |-> LuhnDigit(digits[Len(digits) + 1 - i], i)]

\* The sums of two numbers that differ in two places at most.
LEMMA LuhnApart ==
  ASSUME NEW digits \in Seq(0 .. 9), NEW typo \in Seq(0 .. 9), Len(typo) = Len(digits),
         NEW i \in 1 .. Len(digits), NEW j \in 1 .. Len(digits), i # j,
         \A k \in 1 .. Len(digits) \ {i, j} : typo[k] = digits[k]
  PROVE  LET at(k) == Len(digits) + 1 - k
             by(k) == LuhnDigit(typo[k], at(k)) - LuhnDigit(digits[k], at(k))
         IN  /\ SumFunction(LuhnTerms(typo)) \in Int
             /\ SumFunction(LuhnTerms(digits)) \in Int
             /\ SumFunction(LuhnTerms(typo)) - SumFunction(LuhnTerms(digits))
                  = by(i) + by(j)
<1> DEFINE n == Len(digits)
           S == 1 .. n
           f == LuhnTerms(typo)
           g == LuhnTerms(digits)
<1>1. /\ n \in Nat /\ DOMAIN digits = S /\ DOMAIN typo = S
      /\ \A k \in S : digits[k] \in 0 .. 9 /\ typo[k] \in 0 .. 9
  BY LenProperties, ElementOfSeq
<1>2. /\ f = [k \in S |-> LuhnDigit(typo[n + 1 - k], k)]
      /\ g = [k \in S |-> LuhnDigit(digits[n + 1 - k], k)]
  BY <1>1 DEF LuhnTerms
<1>3. \A k \in S : /\ f[k] = LuhnDigit(typo[n + 1 - k], k)
                    /\ g[k] = LuhnDigit(digits[n + 1 - k], k)
  BY <1>2
<1> HIDE DEF f, g
<1>4. ASSUME NEW k \in S
      PROVE  f[k] \in Int /\ g[k] \in Int
  <2>1. n + 1 - k \in S /\ k \in Nat
    BY <1>1
  <2>2. LuhnDigit(typo[n + 1 - k], k) \in 0 .. 9 /\ LuhnDigit(digits[n + 1 - k], k) \in 0 .. 9
    BY <1>1, <2>1, DoubledDigits
  <2>3. f[k] \in 0 .. 9 /\ g[k] \in 0 .. 9
    BY <1>3, <2>2
  <2> QED  BY <2>3
<1>5. /\ n + 1 - i \in S /\ n + 1 - j \in S /\ n + 1 - i # n + 1 - j
      /\ n + 1 - (n + 1 - i) = i /\ n + 1 - (n + 1 - j) = j
  BY <1>1
<1>6. ASSUME NEW k \in S \ {n + 1 - i, n + 1 - j}
      PROVE  f[k] = g[k]
  <2>1. n + 1 - k \in S \ {i, j}
    BY <1>1
  <2> QED  BY <1>3, <2>1
<1>7. IsFiniteSet(S)
  BY <1>1, FS_Interval
<1>8. /\ SumFunctionOnSet(f, S) \in Int /\ SumFunctionOnSet(g, S) \in Int
      /\ SumFunctionOnSet(f, S) - SumFunctionOnSet(g, S)
           = (f[n + 1 - i] - g[n + 1 - i]) + (f[n + 1 - j] - g[n + 1 - j])
  <2> DEFINE a == n + 1 - i
             b == n + 1 - j
  <2>1. a \in S /\ b \in S /\ a # b
    BY <1>5
  <2>2. \A k \in S \ {a, b} : f[k] = g[k]
    BY <1>6
  <2>3. f \in [S -> Int] /\ g \in [S -> Int]
    BY <1>2, <1>4
  <2> HIDE DEF a, b, S
  <2>4. /\ SumFunctionOnSet(f, S) \in Int /\ SumFunctionOnSet(g, S) \in Int
        /\ SumFunctionOnSet(f, S) - SumFunctionOnSet(g, S) = (f[a] - g[a]) + (f[b] - g[b])
    BY <1>7, <2>1, <2>2, <2>3, SumChanges
  <2> QED  BY <2>4 DEF a, b
<1>9. /\ f[n + 1 - i] = LuhnDigit(typo[i], n + 1 - i)
      /\ g[n + 1 - i] = LuhnDigit(digits[i], n + 1 - i)
      /\ f[n + 1 - j] = LuhnDigit(typo[j], n + 1 - j)
      /\ g[n + 1 - j] = LuhnDigit(digits[j], n + 1 - j)
  BY <1>3, <1>5
<1>10. SumFunction(f) = SumFunctionOnSet(f, S) /\ SumFunction(g) = SumFunctionOnSet(g, S)
  BY <1>2 DEF SumFunction
<1> QED  BY <1>8, <1>9, <1>10 DEF f, g

\* Two sums that end in 0 differ by no less than 10.
LEMMA CheckDigit ==
  ASSUME NEW a \in Int, NEW b \in Int, a - b # 0, a - b \in -9 .. 9, b % 10 = 0
  PROVE  a % 10 # 0
  OBVIOUS

LEMMA LuhnIsTerms ==
  ASSUME NEW digits, LuhnValid(digits)
  PROVE  Len(digits) \in 13 .. 19 /\ SumFunction(LuhnTerms(digits)) % 10 = 0
  BY DEF LuhnValid, LuhnTerms

LEMMA OneDigitOff ==
  ASSUME NEW digits \in Seq(0 .. 9), NEW i \in 1 .. Len(digits), NEW d \in 0 .. 9,
         d # digits[i], LuhnValid(digits)
  PROVE  ~ LuhnValid([digits EXCEPT ![i] = d])
<1> DEFINE typo == [digits EXCEPT ![i] = d]
           n == Len(digits)
           j == IF i = 1 THEN 2 ELSE 1
           at(k) == n + 1 - k
<1>1. n \in 13 .. 19 /\ SumFunction(LuhnTerms(digits)) % 10 = 0
  BY LuhnIsTerms
<1>2. DOMAIN digits = 1 .. n /\ \A k \in 1 .. n : digits[k] \in 0 .. 9
  BY LenProperties, ElementOfSeq
<1>3. typo \in Seq(0 .. 9) /\ Len(typo) = n
  BY ExceptSeq
<1>4. typo[i] = d /\ \A k \in 1 .. n \ {i} : typo[k] = digits[k]
  BY <1>2
<1>5. j \in 1 .. n /\ i # j
  <2>1. n \in 13 .. 19
    BY <1>1
  <2> HIDE DEF n
  <2>2. n \in Nat /\ n >= 13
    BY <2>1
  <2> QED  BY <2>2
<1> HIDE DEF j, typo
<1>6. /\ SumFunction(LuhnTerms(typo)) \in Int /\ SumFunction(LuhnTerms(digits)) \in Int
      /\ SumFunction(LuhnTerms(typo)) - SumFunction(LuhnTerms(digits))
           = (LuhnDigit(typo[i], at(i)) - LuhnDigit(digits[i], at(i)))
               + (LuhnDigit(typo[j], at(j)) - LuhnDigit(digits[j], at(j)))
  <2>1. \A k \in 1 .. n \ {i, j} : typo[k] = digits[k]
    BY <1>4
  <2> QED  BY <1>3, <1>5, <2>1, LuhnApart
<1>7. at(i) \in Nat /\ at(j) \in Nat /\ digits[i] \in 0 .. 9 /\ digits[j] \in 0 .. 9
  BY <1>1, <1>2, <1>5
<1> HIDE DEF at, n
<1>8. /\ LuhnDigit(d, at(i)) \in 0 .. 9 /\ LuhnDigit(digits[i], at(i)) \in 0 .. 9
      /\ LuhnDigit(d, at(i)) # LuhnDigit(digits[i], at(i))
      /\ LuhnDigit(digits[j], at(j)) \in 0 .. 9
  BY <1>7, DoubledDigits
<1>9. typo[j] = digits[j]
  BY <1>4, <1>5
<1>10. SumFunction(LuhnTerms(typo)) % 10 # 0
  <2> DEFINE x == LuhnDigit(d, at(i))
             y == LuhnDigit(digits[i], at(i))
             z == LuhnDigit(digits[j], at(j))
             by == SumFunction(LuhnTerms(typo)) - SumFunction(LuhnTerms(digits))
  <2>0. by = (x - y) + (z - z)
    BY <1>4, <1>6, <1>9
  <2>1. /\ by # 0
        /\ by \in -9 .. 9
    <3>1. x \in 0 .. 9 /\ y \in 0 .. 9 /\ z \in 0 .. 9 /\ x # y
      BY <1>8
    <3> HIDE DEF x, y, z, by
    <3> QED  BY <2>0, <3>1
  <2> QED  BY <1>1, <1>6, <2>1, CheckDigit
<1> QED  BY <1>10, LuhnIsTerms DEF typo

LEMMA TwoDigitsSwapped ==
  ASSUME NEW digits \in Seq(0 .. 9), NEW i \in 1 .. Len(digits), i # Len(digits),
         digits[i] # digits[i + 1], {digits[i], digits[i + 1]} # {0, 9},
         LuhnValid(digits)
  PROVE  ~ LuhnValid([digits EXCEPT ![i] = digits[i + 1], ![i + 1] = digits[i]])
<1> DEFINE typo == [digits EXCEPT ![i] = digits[i + 1], ![i + 1] = digits[i]]
           n == Len(digits)
           j == i + 1
           at(k) == n + 1 - k
<1>1. n \in 13 .. 19 /\ SumFunction(LuhnTerms(digits)) % 10 = 0
  BY LuhnIsTerms
<1>2. DOMAIN digits = 1 .. n /\ \A k \in 1 .. n : digits[k] \in 0 .. 9
  BY LenProperties, ElementOfSeq
<1>3. j \in 1 .. n /\ i # j
  BY <1>1
<1>4. typo \in Seq(0 .. 9) /\ Len(typo) = n
  <2> DEFINE half == [digits EXCEPT ![i] = digits[i + 1]]
  <2>1. half \in Seq(0 .. 9) /\ Len(half) = n
    BY <1>2, <1>3, ExceptSeq
  <2>2. typo = [half EXCEPT ![j] = digits[i]]
    OBVIOUS
  <2> HIDE DEF half, typo
  <2>3. digits[i] \in 0 .. 9 /\ j \in 1 .. Len(half)
    BY <1>2, <1>3, <2>1
  <2>4. [half EXCEPT ![j] = digits[i]] \in Seq(0 .. 9)
        /\ Len([half EXCEPT ![j] = digits[i]]) = Len(half)
    BY <2>1, <2>3, ExceptSeq
  <2> QED  BY <2>1, <2>2, <2>4
<1>5. /\ typo[i] = digits[j] /\ typo[j] = digits[i]
      /\ \A k \in 1 .. n \ {i, j} : typo[k] = digits[k]
  BY <1>2, <1>3
<1> HIDE DEF typo
<1>6. /\ SumFunction(LuhnTerms(typo)) \in Int /\ SumFunction(LuhnTerms(digits)) \in Int
      /\ SumFunction(LuhnTerms(typo)) - SumFunction(LuhnTerms(digits))
           = (LuhnDigit(typo[i], at(i)) - LuhnDigit(digits[i], at(i)))
               + (LuhnDigit(typo[j], at(j)) - LuhnDigit(digits[j], at(j)))
  <2> HIDE DEF j
  <2> QED  BY <1>3, <1>4, <1>5, LuhnApart
<1> DEFINE m == at(j)
           a == digits[i]
           b == digits[j]
<1>7. m \in Nat /\ at(i) = m + 1 /\ a \in 0 .. 9 /\ b \in 0 .. 9
  <2>1. n \in Nat /\ i \in Int /\ j <= n
    BY <1>1, <1>3
  <2>2. a \in 0 .. 9 /\ b \in 0 .. 9
    BY <1>2, <1>3
  <2> HIDE DEF n, a, b
  <2>3. m = n + 1 - (i + 1) /\ at(i) = n + 1 - i
    OBVIOUS
  <2> HIDE DEF m, at
  <2> QED  BY <2>1, <2>2, <2>3
<1>8. a # b /\ {b, a} # {0, 9}
  OBVIOUS
<1>9. SumFunction(LuhnTerms(typo)) - SumFunction(LuhnTerms(digits))
        = (LuhnDigit(b, m + 1) - LuhnDigit(a, m + 1)) + (LuhnDigit(a, m) - LuhnDigit(b, m))
  BY <1>5, <1>6, <1>7
<1> HIDE DEF m, a, b, at, j, n
<1>10. /\ LuhnDigit(a, m) \in 0 .. 9 /\ LuhnDigit(b, m) \in 0 .. 9
       /\ LuhnDigit(a, m + 1) \in 0 .. 9 /\ LuhnDigit(b, m + 1) \in 0 .. 9
  <2>1. m + 1 \in Nat
    BY <1>7
  <2> QED  BY <1>7, <2>1, DoubledDigits
<1> DEFINE by == (LuhnDigit(a, m) - LuhnDigit(b, m))
                   + (LuhnDigit(b, m + 1) - LuhnDigit(a, m + 1))
<1>11. by # 0 /\ by \in -9 .. 9
  BY <1>7, <1>8, Neighbours
<1>12. SumFunction(LuhnTerms(typo)) - SumFunction(LuhnTerms(digits)) = by
  <2> DEFINE a0 == LuhnDigit(a, m)
             b0 == LuhnDigit(b, m)
             a1 == LuhnDigit(a, m + 1)
             b1 == LuhnDigit(b, m + 1)
  <2>1. a0 \in 0 .. 9 /\ b0 \in 0 .. 9 /\ a1 \in 0 .. 9 /\ b1 \in 0 .. 9
    BY <1>10
  <2>2. SumFunction(LuhnTerms(typo)) - SumFunction(LuhnTerms(digits)) = (b1 - a1) + (a0 - b0)
    BY <1>9
  <2>3. by = (a0 - b0) + (b1 - a1)
    OBVIOUS
  <2> HIDE DEF a0, b0, a1, b1, by
  <2> QED  BY <2>1, <2>2, <2>3
<1> HIDE DEF by
<1>13. SumFunction(LuhnTerms(typo)) % 10 # 0
  BY <1>1, <1>6, <1>11, <1>12, CheckDigit
<1> QED  BY <1>13, LuhnIsTerms DEF typo, j

\* Next to a number that is reported as a card's, none with one digit mistyped or two
\* neighbours swapped is reported: what the check digit is for (_text.py:25).
THEOREM NoTypoIsACard == Spec => []TypoIsNoCard
<1>1. ASSUME Inv
      PROVE  TypoIsNoCard
  <2> SUFFICES ASSUME NEW m \in context.text.matches,
                      NEW f \in findings, f.rules = {"credit_card"}, f.matches = {m},
                      NEW typo \in Typos(m.digits) \ {m.digits}
               PROVE  ~ PiiGate("credit_card", typo)
    BY DEF TypoIsNoCard
  <2>1. context \in Contexts /\ findings = AllFindings(context)
    BY <1>1 DEF Inv
  <2>2. m \in Match
    BY <2>1, ContentsAssumption DEF Contexts, Text
  <2>3. PICK toggle : f \in FindingsOf(toggle, context)
    BY <2>1 DEF AllFindings
  <2>4. toggle = "pii"
    BY <2>3, RulesAreTheDetectors, CardsArePii
  <2>5. f \in PiiFindings(context)
    BY <2>3, <2>4 DEF FindingsOf
  <2>6. PICK p, n : /\ PiiGate(p, n.digits)
                    /\ f = PiiLeak(p, n)
    BY <2>5, PiiShape
  <2>7. LuhnValid(m.digits)
    <3>1. p = "credit_card" /\ n = m
      BY <2>6 DEF PiiLeak, Finding
    <3> QED  BY <2>6, <3>1 DEF PiiGate
  <2>8. ~ LuhnValid(typo)
    <3> DEFINE digits == m.digits
    <3>1. digits \in Seq(0 .. 9) /\ DOMAIN digits = 1 .. Len(digits)
      BY <2>2, LenProperties DEF Match
    <3> HIDE DEF digits
    <3>2. \/ \E i \in 1 .. Len(digits), d \in 0 .. 9 : typo = [digits EXCEPT ![i] = d]
          \/ \E i \in 1 .. Len(digits) :
               /\ i # Len(digits) /\ {digits[i], digits[i + 1]} # {0, 9}
               /\ typo = [digits EXCEPT ![i] = digits[i + 1], ![i + 1] = digits[i]]
      <4> DEFINE once(i, d) == [digits EXCEPT ![i] = d]
                 swap(i) == [digits EXCEPT ![i] = digits[i + 1], ![i + 1] = digits[i]]
                 pairs == {j \in DOMAIN digits \ {Len(digits)} :
                             {digits[j], digits[j + 1]} # {0, 9}}
      <4>1. typo \in Typos(digits)
        BY DEF digits
      <4>2. Typos(digits) = {once(i, d) : i \in DOMAIN digits, d \in 0 .. 9}
                              \cup {swap(i) : i \in pairs}
        BY DEF Typos
      <4>3. \A i \in pairs : /\ i \in 1 .. Len(digits) /\ i # Len(digits)
                            /\ {digits[i], digits[i + 1]} # {0, 9}
        BY <3>1
      <4> HIDE DEF once, swap, pairs
      <4>4. \/ \E i \in 1 .. Len(digits), d \in 0 .. 9 : typo = once(i, d)
            \/ \E i \in pairs : typo = swap(i)
        BY <3>1, <4>1, <4>2
      <4> QED  BY <4>3, <4>4 DEF once, swap
    <3>3. typo # digits /\ LuhnValid(digits)
      BY <2>7 DEF digits
    <3>4. ASSUME NEW i \in 1 .. Len(digits), NEW d \in 0 .. 9,
                 typo = [digits EXCEPT ![i] = d]
          PROVE  ~ LuhnValid(typo)
      <4>1. d # digits[i]
        BY <3>1, <3>3, <3>4
      <4> QED  BY <3>1, <3>3, <3>4, <4>1, OneDigitOff
    <3>5. ASSUME NEW i \in 1 .. Len(digits), i # Len(digits),
                 {digits[i], digits[i + 1]} # {0, 9},
                 typo = [digits EXCEPT ![i] = digits[i + 1], ![i + 1] = digits[i]]
          PROVE  ~ LuhnValid(typo)
      <4>1. digits[i] # digits[i + 1]
        BY <3>1, <3>3, <3>5
      <4> QED  BY <3>1, <3>3, <3>5, <4>1, TwoDigitsSwapped
    <3> QED  BY <3>2, <3>4, <3>5
  <2> QED  BY <2>8 DEF PiiGate
<1> QED  BY <1>1, FindingsAreThoseOfTheContext, PTL
=============================================================================
