------------------------ MODULE ProviderOrder_proofs -------------------------
(***************************************************************************)
(* Theorems about ProviderOrder, for any ranks, places and thresholds:     *)
(* every order of providers is complete, each announced decision names the *)
(* head of its order, and what explores is due for it.                     *)
(***************************************************************************)
EXTENDS ProviderOrder, FiniteSetTheorems, SequenceTheorems, WellFoundedInduction, TLAPS

-----------------------------------------------------------------------------
(* Least elements and sorted orders *)

\* A set of naturals has a least element.
LEMMA LeastNatural ==
    ASSUME NEW T \in SUBSET Nat, T # {}
    PROVE  \E x \in T : \A y \in T : x <= y
<1>1. PICK x \in T : \A y \in T : ~ (<<y, x>> \in OpToRel(<, Nat))
  BY NatLessThanWellFounded, WFMin
<1>2. \A y \in T : ~(y < x)
  BY <1>1 DEF OpToRel
<1>3. QED
  BY <1>2

\* An order that has each of some providers once.
Lists(order, providers) ==
    /\ order \in Seq(providers) /\ IsInjective(order) /\ Range(order) = providers

\* What tells any two providers apart, in one direction only, and is transitive.
IsStrictOrder(before, providers) ==
    /\ before \subseteq providers \X providers
    /\ \A p \in providers : <<p, p>> \notin before
    /\ \A p, q \in providers : p # q => <<p, q>> \in before \/ <<q, p>> \in before
    /\ \A p, q, r \in providers :
         <<p, q>> \in before /\ <<q, r>> \in before => <<p, r>> \in before

\* Finitely many providers can be sorted by any such order: the place of each is the
\* number of those before it.
LEMMA SortExists ==
    ASSUME NEW S, IsFiniteSet(S), NEW before, IsStrictOrder(before, S)
    PROVE  \E s \in Bijection(1..Cardinality(S), S) :
             \A i, j \in DOMAIN s : i < j => <<s[i], s[j]>> \in before
<1> DEFINE n == Cardinality(S)
           Below(p) == {q \in S : <<q, p>> \in before}
           at == [p \in S |-> Cardinality(Below(p)) + 1]
<1>1. n \in Nat
  BY FS_CardinalityType
<1>2. ASSUME NEW p \in S
      PROVE  /\ IsFiniteSet(Below(p))
             /\ Cardinality(Below(p)) \in Nat
             /\ Cardinality(Below(p)) < n
  <2>1. Below(p) \in SUBSET S /\ p \notin Below(p)
    BY DEF IsStrictOrder
  <2> HIDE DEF Below
  <2>2. /\ IsFiniteSet(Below(p))
        /\ Cardinality(Below(p)) <= n
        /\ n = Cardinality(Below(p)) => S = Below(p)
    BY <2>1, FS_Subset
  <2>3. Cardinality(Below(p)) # n
    BY <2>1, <2>2
  <2>4. QED
    BY <1>1, <2>2, <2>3, FS_CardinalityType
<1>3. ASSUME NEW p \in S, NEW q \in S, <<p, q>> \in before
      PROVE  Cardinality(Below(p)) < Cardinality(Below(q))
  <2>1. Below(p) \in SUBSET Below(q) /\ p \in Below(q) /\ p \notin Below(p)
    BY <1>3 DEF IsStrictOrder
  <2> HIDE DEF Below
  <2>2. /\ Cardinality(Below(p)) <= Cardinality(Below(q))
        /\ Cardinality(Below(q)) = Cardinality(Below(p)) => Below(q) = Below(p)
    BY <1>2, <2>1, FS_Subset
  <2>3. QED
    BY <1>2, <2>1, <2>2
<1> HIDE DEF n, Below
<1>4. \A p, q \in S : <<p, q>> \in before => at[p] < at[q]
  BY <1>2, <1>3
<1>5. at \in [S -> 1..n]
  BY <1>1, <1>2
<1>6. at \in Injection(S, 1..n)
  <2>1. ASSUME NEW p \in S, NEW q \in S, at[p] = at[q], p # q
        PROVE  FALSE
    <3>1. <<p, q>> \in before \/ <<q, p>> \in before
      BY <2>1 DEF IsStrictOrder
    <3>2. at[p] \in 1..n /\ at[q] \in 1..n
      BY <1>5
    <3> HIDE DEF at
    <3>3. QED
      BY <1>4, <2>1, <3>1, <3>2
  <2>2. QED
    BY <1>5, <2>1 DEF Injection, IsInjective
<1>7. at \in Surjection(S, 1..n)
  <2>1. IsFiniteSet(1..n) /\ Cardinality(1..n) = n
    BY <1>1, FS_Interval
  <2>2. QED
    BY <1>6, <2>1, FS_Injection DEF n
<1>8. \A p, q \in S : at[p] = at[q] => p = q
  BY <1>6 DEF Injection, IsInjective
<1>9. \A i \in 1..n : \E p \in S : at[p] = i
  BY <1>7 DEF Surjection
<1>10. \A p \in S : at[p] \in 1..n
  BY <1>5
<1> HIDE DEF at
<1> DEFINE s == [i \in 1..n |-> CHOOSE p \in S : at[p] = i]
<1>11. \A i \in 1..n : s[i] \in S /\ at[s[i]] = i
  BY <1>9
<1>12. s \in [1..n -> S] /\ DOMAIN s = 1..n
  BY <1>11
<1> HIDE DEF s
<1>13. s \in Bijection(1..n, S)
  <2>1. \A i, j \in 1..n : s[i] = s[j] => i = j
    BY <1>11
  <2>2. \A p \in S : at[p] \in 1..n /\ s[at[p]] = p
    BY <1>8, <1>10, <1>11
  <2>3. QED
    BY <1>12, <2>1, <2>2 DEF Bijection, Injection, Surjection, IsInjective
<1>14. ASSUME NEW i \in 1..n, NEW j \in 1..n, i < j
       PROVE  <<s[i], s[j]>> \in before
  <2>1. s[i] \in S /\ s[j] \in S /\ at[s[i]] = i /\ at[s[j]] = j
    BY <1>11
  <2>2. s[i] # s[j]
    BY <1>14, <2>1
  <2>3. ~ (<<s[j], s[i]>> \in before)
    BY <1>4, <1>14, <2>1
  <2>4. QED
    BY <2>1, <2>2, <2>3 DEF IsStrictOrder
<1>15. QED
  BY <1>12, <1>13, <1>14 DEF n

\* A bijection from the places is an order of the providers.
LEMMA BijectionLists ==
    ASSUME NEW S, IsFiniteSet(S), NEW s \in Bijection(1..Cardinality(S), S)
    PROVE  Lists(s, S)
<1>1. Cardinality(S) \in Nat
  BY FS_CardinalityType
<1>2. s \in [1..Cardinality(S) -> S] /\ IsInjective(s)
  BY DEF Bijection, Injection
<1>3. \A p \in S : \E i \in 1..Cardinality(S) : s[i] = p
  BY DEF Bijection, Surjection
<1>4. s \in Seq(S)
  BY <1>1, <1>2
<1>5. Range(s) = S
  BY <1>2, <1>3 DEF Range
<1>6. QED
  BY <1>2, <1>4, <1>5 DEF Lists

\* One order after another that has none of its providers.
LEMMA ListsConcat ==
    ASSUME NEW A, NEW B, A \cap B = {}, NEW a, NEW b, Lists(a, A), Lists(b, B)
    PROVE  Lists(a \o b, A \cup B)
<1>1. a \in Seq(A \cup B) /\ b \in Seq(A \cup B)
  BY SeqMonotonic DEF Lists
<1>2. /\ Len(a \o b) = Len(a) + Len(b)
      /\ \A i \in 1..(Len(a) + Len(b)) :
           (a \o b)[i] = IF i <= Len(a) THEN a[i] ELSE b[i - Len(a)]
  BY <1>1, ConcatProperties
<1>3. Range(a \o b) = A \cup B
  BY <1>1, RangeConcatenation DEF Lists
<1>4. /\ Len(a) \in Nat /\ Len(b) \in Nat
      /\ DOMAIN a = 1..Len(a) /\ DOMAIN b = 1..Len(b) /\ DOMAIN (a \o b) = 1..(Len(a) + Len(b))
  BY <1>1, <1>2
<1>5. /\ \A i \in 1..Len(a) : a[i] \in A
      /\ \A i \in 1..Len(b) : b[i] \in B
  BY <1>4 DEF Lists
<1>6. ASSUME NEW i \in 1..(Len(a) + Len(b)), NEW j \in 1..(Len(a) + Len(b)),
             (a \o b)[i] = (a \o b)[j]
      PROVE  i = j
  <2>1. CASE i <= Len(a) /\ j <= Len(a)
    <3>1. i \in DOMAIN a /\ j \in DOMAIN a /\ a[i] = a[j]
      BY <1>2, <1>4, <1>6, <2>1
    <3>2. QED
      BY <3>1 DEF Lists, IsInjective
  <2>2. CASE ~(i <= Len(a)) /\ ~(j <= Len(a))
    <3>1. i - Len(a) \in DOMAIN b /\ j - Len(a) \in DOMAIN b /\ b[i - Len(a)] = b[j - Len(a)]
      BY <1>2, <1>4, <1>6, <2>2
    <3>2. i - Len(a) = j - Len(a)
      BY <3>1 DEF Lists, IsInjective
    <3>3. QED
      BY <1>4, <3>2
  <2>3. CASE i <= Len(a) /\ ~(j <= Len(a))
    <3>1. i \in 1..Len(a) /\ j - Len(a) \in 1..Len(b) /\ a[i] = b[j - Len(a)]
      BY <1>2, <1>4, <1>6, <2>3
    <3>2. QED
      BY <1>5, <3>1
  <2>4. CASE ~(i <= Len(a)) /\ j <= Len(a)
    <3>1. j \in 1..Len(a) /\ i - Len(a) \in 1..Len(b) /\ a[j] = b[i - Len(a)]
      BY <1>2, <1>4, <1>6, <2>4
    <3>2. QED
      BY <1>5, <3>1
  <2>5. QED
    BY <2>1, <2>2, <2>3, <2>4
<1>7. IsInjective(a \o b)
  BY <1>4, <1>6 DEF IsInjective
<1>8. a \o b \in Seq(A \cup B)
  BY <1>1
<1>9. QED
  BY <1>3, <1>7, <1>8 DEF Lists

\* One provider is an order of itself.
LEMMA ListsOne ==
    ASSUME NEW p
    PROVE  Lists(<<p>>, {p})
<1>1. <<p>> \in Seq({p}) /\ DOMAIN <<p>> = {1} /\ <<p>>[1] = p
  OBVIOUS
<1>2. QED
  BY <1>1 DEF Lists, IsInjective, Range

\* An order is empty exactly when there are no providers.
LEMMA ListsEmpty ==
    ASSUME NEW S, NEW s, Lists(s, S)
    PROVE  /\ s = <<>> <=> S = {}
           /\ S # {} => s[1] \in S
<1>1. s \in Seq(S) /\ Range(s) = S
  BY DEF Lists
<1>2. S = {s[i] : i \in 1..Len(s)}
  BY <1>1 DEF Range
<1>3. QED
  BY <1>1, <1>2

-----------------------------------------------------------------------------
(* Orders that read no evidence *)

\* cost_rank tells providers apart with their places in the configuration.
LEMMA RankLists ==
    ASSUME OrderAssumption, NEW S \in SUBSET Names
    PROVE  Lists(ByRank(S), S)
<1> DEFINE before == {b \in S \X S : \/ Rank[b[1]] < Rank[b[2]]
                                     \/ Rank[b[1]] = Rank[b[2]] /\ Place[b[1]] < Place[b[2]]}
<1>1. IsFiniteSet(S)
  BY FS_Subset DEF OrderAssumption
<1>2. \A p, q \in S : <<p, q>> \in before <=> \/ Rank[p] < Rank[q]
                                              \/ Rank[p] = Rank[q] /\ Place[p] < Place[q]
  OBVIOUS
<1>3. /\ \A p \in S : Rank[p] \in Nat /\ Place[p] \in Nat
      /\ \A p, q \in S : Place[p] = Place[q] => p = q
  BY DEF OrderAssumption, IsInjective
<1>4. before \subseteq S \X S
  OBVIOUS
<1> HIDE DEF before
<1>5. IsStrictOrder(before, S)
  BY <1>2, <1>3, <1>4 DEF IsStrictOrder
<1>6. \E s \in Bijection(1..Cardinality(S), S) :
         \A i, j \in DOMAIN s : i < j => <<s[i], s[j]>> \in before
  BY <1>1, <1>5, SortExists
<1>7. \E s \in Bijection(1..Cardinality(S), S) :
         \A i, j \in DOMAIN s : i < j =>
            \/ Rank[s[i]] < Rank[s[j]]
            \/ Rank[s[i]] = Rank[s[j]] /\ Place[s[i]] < Place[s[j]]
  <2>1. \A s \in Bijection(1..Cardinality(S), S) : \A i \in DOMAIN s : s[i] \in S
    BY DEF Bijection, Injection
  <2>2. QED
    BY <1>2, <1>6, <2>1
<1>8. ByRank(S) \in Bijection(1..Cardinality(S), S)
  BY <1>7 DEF ByRank, Sorted
<1>9. QED
  BY <1>1, <1>8, BijectionLists

\* Some places of a list have a last one.
LEMMA LastOfPlaces ==
    ASSUME NEW n \in Nat, NEW T \in SUBSET (1..n), T # {}
    PROVE  Max(T) \in T
<1> DEFINE rest == {n - i : i \in T}
<1>1. rest \in SUBSET Nat /\ rest # {}
  <2>1. \A i \in T : i \in Nat /\ n - i \in Nat
    OBVIOUS
  <2>2. PICK i \in T : TRUE
    OBVIOUS
  <2>3. n - i \in rest
    OBVIOUS
  <2>4. QED
    BY <2>1, <2>3
<1>2. PICK x \in rest : \A y \in rest : x <= y
  <2> HIDE DEF rest
  <2>1. QED
    BY <1>1, LeastNatural
<1>3. PICK m \in T : x = n - m
  BY <1>2
<1>4. \A i \in T : m >= i
  <2> SUFFICES ASSUME NEW i \in T PROVE m >= i
    OBVIOUS
  <2>1. n - i \in rest
    OBVIOUS
  <2>2. n - m <= n - i
    BY <1>2, <1>3, <2>1
  <2>3. QED
    BY <2>2
<1>5. QED
  BY <1>4 DEF Max

\* A recipe orders those of the gateway that it names by the last place it names them.
LEMMA NamedLists ==
    ASSUME OrderAssumption, NEW gateway \in SUBSET Names, NEW recipe \in Seq(Names)
    PROVE  Lists(AsNamed(recipe, gateway), gateway \cap Range(recipe))
<1> DEFINE S == gateway \cap Range(recipe)
           LastAt(p) == Max({i \in DOMAIN recipe : recipe[i] = p})
           before == {b \in S \X S : LastAt(b[1]) < LastAt(b[2])}
<1>1. IsFiniteSet(S)
  BY FS_Subset DEF OrderAssumption
<1>2. ASSUME NEW p \in S
      PROVE  LastAt(p) \in Nat /\ recipe[LastAt(p)] = p
  <2>1. DOMAIN recipe = 1..Len(recipe) /\ Len(recipe) \in Nat
    OBVIOUS
  <2>2. PICK i \in DOMAIN recipe : recipe[i] = p
    BY DEF Range
  <2> DEFINE T == {k \in DOMAIN recipe : recipe[k] = p}
  <2>3. T \in SUBSET (1..Len(recipe)) /\ T # {}
    BY <2>1, <2>2
  <2>4. LastAt(p) = Max(T)
    OBVIOUS
  <2>5. Max(T) \in T
    <3> HIDE DEF T
    <3>1. QED
      BY <2>1, <2>3, LastOfPlaces
  <2>6. QED
    BY <2>1, <2>4, <2>5
<1>3. \A p, q \in S : LastAt(p) = LastAt(q) => p = q
  BY <1>2
<1>4. /\ before \subseteq S \X S
      /\ \A p, q \in S : <<p, q>> \in before <=> LastAt(p) < LastAt(q)
  <2> HIDE DEF S, LastAt
  <2>1. QED
    OBVIOUS
<1> HIDE DEF LastAt, before, S
<1>6. IsStrictOrder(before, S)
  BY <1>2, <1>3, <1>4 DEF IsStrictOrder
<1>7. \E s \in Bijection(1..Cardinality(S), S) :
         \A i, j \in DOMAIN s : i < j => <<s[i], s[j]>> \in before
  BY <1>1, <1>6, SortExists
<1>8. \E s \in Bijection(1..Cardinality(S), S) :
         \A i, j \in DOMAIN s : i < j => LastAt(s[i]) < LastAt(s[j])
  <2>1. \A s \in Bijection(1..Cardinality(S), S) : \A i \in DOMAIN s : s[i] \in S
    BY DEF Bijection, Injection
  <2>2. QED
    BY <1>4, <1>7, <2>1
<1>9. AsNamed(recipe, gateway) \in Bijection(1..Cardinality(S), S)
  BY <1>8 DEF AsNamed, Sorted, S, LastAt
<1>10. QED
  BY <1>1, <1>9, BijectionLists DEF S

-----------------------------------------------------------------------------
(* Sums over the ledger *)

\* One of the elements of a set.
Some(s) == CHOOSE x \in s : TRUE

\* The equation of the recursive sum of the folds.
SumsUp(g, c, S) ==
    g = [s \in SUBSET S |-> IF s = {} THEN 0 ELSE c[Some(s)] + g[s \ {Some(s)}]]

\* It has a solution: a set is summed once smaller ones are.
LEMMA SumExists ==
    ASSUME NEW S, IsFiniteSet(S), NEW c \in [S -> Nat]
    PROVE  \E g : SumsUp(g, c, S)
<1> DEFINE Small(n) == {s \in SUBSET S : Cardinality(s) <= n}
           Sums(g, n) == \A s \in Small(n) :
                            g[s] = IF s = {} THEN 0 ELSE c[Some(s)] + g[s \ {Some(s)}]
           Missing == {n \in Nat : ~ \E g \in [Small(n) -> Nat] : Sums(g, n)}
<1>1. ASSUME NEW s \in SUBSET S
      PROVE  /\ IsFiniteSet(s) /\ Cardinality(s) \in Nat
             /\ Cardinality(s) = 0 <=> s = {}
             /\ s # {} => /\ Some(s) \in S
                          /\ s \ {Some(s)} \in SUBSET S
                          /\ Cardinality(s \ {Some(s)}) = Cardinality(s) - 1
  <2>1. IsFiniteSet(s) /\ Cardinality(s) \in Nat
    BY FS_Subset, FS_CardinalityType
  <2>2. s # {} => Some(s) \in s
    BY DEF Some
  <2>3. QED
    BY <2>1, <2>2, FS_EmptySet, FS_RemoveElement
<1>2. \A s \in SUBSET S : Cardinality(s) \in Nat /\ (Cardinality(s) = 0 => s = {})
  BY <1>1
<1>3. Missing = {}
  <2> SUFFICES ASSUME Missing # {} PROVE FALSE
    OBVIOUS
  <2>1. PICK n \in Missing : \A k \in Missing : n <= k
    <3>1. Missing \in SUBSET Nat
      OBVIOUS
    <3> HIDE DEF Missing
    <3>2. QED
      BY <3>1, LeastNatural
  <2>2. n \in Nat /\ ~ \E g \in [Small(n) -> Nat] : Sums(g, n)
    OBVIOUS
  <2>3. CASE n = 0
    <3> DEFINE g == [s \in Small(n) |-> 0]
    <3>1. g \in [Small(n) -> Nat]
      OBVIOUS
    <3>2. ASSUME NEW s \in Small(n) PROVE s = {}
      <4>1. s \in SUBSET S /\ Cardinality(s) <= 0
        BY <2>3
      <4>2. QED
        BY <1>2, <4>1
    <3>3. Sums(g, n)
      BY <3>2
    <3>4. QED
      BY <2>2, <3>1, <3>3
  <2>4. CASE n # 0
    <3>1. n - 1 \in Nat /\ n - 1 \notin Missing
      <4> HIDE DEF Missing
      <4>1. QED
        BY <2>1, <2>2, <2>4
    <3>2. PICK g \in [Small(n - 1) -> Nat] : Sums(g, n - 1)
      BY <3>1
    <3> DEFINE h == [s \in Small(n) |-> IF s = {} THEN 0
                                        ELSE c[Some(s)] + g[s \ {Some(s)}]]
    <3>3. \A s \in Small(n) : s # {} => Some(s) \in S /\ s \ {Some(s)} \in Small(n - 1)
      BY <1>1, <2>2
    <3>4. ASSUME NEW s \in Small(n - 1) PROVE s \in Small(n) /\ g[s] \in Nat
      <4>1. s \in SUBSET S /\ Cardinality(s) <= n - 1
        OBVIOUS
      <4>2. Cardinality(s) <= n
        BY <1>2, <2>2, <4>1
      <4>3. QED
        BY <3>2, <4>1, <4>2
    <3>5. \A s \in Small(n - 1) :
             g[s] = IF s = {} THEN 0 ELSE c[Some(s)] + g[s \ {Some(s)}]
      BY <3>2
    <3> HIDE DEF Small
    <3>6. \A s \in Small(n) : h[s] = IF s = {} THEN 0 ELSE c[Some(s)] + g[s \ {Some(s)}]
      OBVIOUS
    <3>7. h \in [Small(n) -> Nat]
      BY <3>3, <3>4
    <3> HIDE DEF h
    <3>8. \A s \in Small(n - 1) : h[s] = g[s]
      BY <3>4, <3>5, <3>6
    <3>9. Sums(h, n)
      <4>1. ASSUME NEW s \in Small(n), s # {}
            PROVE  h[s] = c[Some(s)] + h[s \ {Some(s)}]
        BY <3>3, <3>6, <3>8, <4>1
      <4>2. ASSUME NEW s \in Small(n), s = {}
            PROVE  h[s] = 0
        BY <3>6, <4>2
      <4>3. QED
        BY <4>1, <4>2
    <3>10. QED
      BY <2>2, <3>7, <3>9
  <2>5. QED
    BY <2>3, <2>4
<1>4. Cardinality(S) \in Nat
  BY FS_CardinalityType
<1>5. PICK g \in [Small(Cardinality(S)) -> Nat] : Sums(g, Cardinality(S))
  BY <1>3, <1>4
<1>6. Small(Cardinality(S)) = SUBSET S
  BY FS_Subset
<1>7. g \in [SUBSET S -> Nat]
  BY <1>5, <1>6
<1>8. \A s \in SUBSET S : g[s] = IF s = {} THEN 0 ELSE c[Some(s)] + g[s \ {Some(s)}]
  BY <1>5, <1>6
<1>9. SumsUp(g, c, S)
  BY <1>7, <1>8 DEF SumsUp
<1>10. QED
  BY <1>9

\* And it is a number, whichever solution of its equation is taken.
LEMMA SumNatural ==
    ASSUME NEW S, IsFiniteSet(S), NEW c \in [S -> Nat], NEW g, SumsUp(g, c, S)
    PROVE  /\ g[S] \in Nat
           /\ S # {} => g[S] >= c[Some(S)]
<1>1. \A s \in SUBSET S : g[s] = IF s = {} THEN 0 ELSE c[Some(s)] + g[s \ {Some(s)}]
  BY DEF SumsUp
<1>2. ASSUME NEW s \in SUBSET S
      PROVE  /\ Cardinality(s) \in Nat
             /\ s # {} => /\ c[Some(s)] \in Nat
                          /\ s \ {Some(s)} \in SUBSET S
                          /\ Cardinality(s \ {Some(s)}) = Cardinality(s) - 1
  <2>1. IsFiniteSet(s) /\ Cardinality(s) \in Nat
    BY FS_Subset, FS_CardinalityType
  <2>2. s # {} => Some(s) \in s
    BY DEF Some
  <2>3. QED
    BY <2>1, <2>2, FS_RemoveElement
<1> DEFINE wrong == {s \in SUBSET S : g[s] \notin Nat}
           sizes == {Cardinality(s) : s \in wrong}
<1>3. wrong = {}
  <2> SUFFICES ASSUME wrong # {} PROVE FALSE
    OBVIOUS
  <2>1. sizes \in SUBSET Nat /\ sizes # {}
    <3>1. \A s \in wrong : Cardinality(s) \in Nat
      BY <1>2
    <3> HIDE DEF wrong
    <3>2. QED
      BY <3>1
  <2>2. PICK n \in sizes : \A k \in sizes : n <= k
    <3> HIDE DEF sizes
    <3>1. QED
      BY <2>1, LeastNatural
  <2>3. PICK s \in wrong : n = Cardinality(s)
    OBVIOUS
  <2>4. s \in SUBSET S /\ g[s] \notin Nat
    OBVIOUS
  <2>5. s # {}
    <3>1. s = {} => g[s] = 0
      BY <1>1, <2>4
    <3>2. 0 \in Nat
      OBVIOUS
    <3> HIDE DEF wrong
    <3>3. QED
      BY <2>4, <3>1, <3>2
  <2> DEFINE r == s \ {Some(s)}
  <2>6. r \in SUBSET S /\ Cardinality(r) = Cardinality(s) - 1 /\ Cardinality(s) \in Nat
    BY <1>2, <2>4, <2>5
  <2>7. g[s] = c[Some(s)] + g[r] /\ c[Some(s)] \in Nat
    BY <1>1, <1>2, <2>4, <2>5
  <2> HIDE DEF r
  <2>8. g[r] \notin Nat
    BY <2>4, <2>7
  <2>9. Cardinality(r) \in sizes
    BY <2>6, <2>8
  <2> HIDE DEF sizes, wrong
  <2>10. QED
    BY <2>2, <2>3, <2>6, <2>9
<1>4. \A s \in SUBSET S : g[s] \in Nat
  BY <1>3
<1>5. S \in SUBSET S
  OBVIOUS
<1>6. QED
  <2>1. CASE S = {}
    BY <1>4, <1>5, <2>1
  <2>2. CASE S # {}
    <3> DEFINE r == S \ {Some(S)}
    <3>1. r \in SUBSET S /\ c[Some(S)] \in Nat /\ g[S] = c[Some(S)] + g[r]
      BY <1>1, <1>2, <1>5, <2>2
    <3> HIDE DEF r
    <3>2. g[r] \in Nat
      BY <1>4, <3>1
    <3>3. QED
      BY <3>1, <3>2
  <2>3. QED
    BY <2>1, <2>2

\* What the usable rows of a provider cost, weighted, is a number.
LEMMA SpendNatural ==
    ASSUME NEW rows, NEW ids, IsFiniteSet(ids), \A i \in ids : rows[i].cost \in Nat
    PROVE  Spend(rows, ids) \in Nat
<1> DEFINE c == [i \in ids |-> rows[i].cost * Weight(rows[i])]
           Solves(g) == g = [s \in SUBSET ids |->
                               IF s = {} THEN 0
                               ELSE LET x == CHOOSE y \in s : TRUE
                                    IN  rows[x].cost * Weight(rows[x]) + g[s \ {x}]]
           sum == CHOOSE g : Solves(g)
<1>1. c \in [ids -> Nat]
  <2>1. \A i \in ids : Weight(rows[i]) \in {1, 2}
    BY DEF Weight
  <2>2. \A i \in ids : rows[i].cost * Weight(rows[i]) \in Nat
    BY <2>1
  <2>3. QED
    BY <2>2
<1>2. \A s \in SUBSET ids : s # {} => c[Some(s)] = rows[Some(s)].cost * Weight(rows[Some(s)])
  BY DEF Some
<1>3. ASSUME NEW g
      PROVE  Solves(g) <=> SumsUp(g, c, ids)
  <2> HIDE DEF c
  <2>1. QED
    BY <1>2 DEF Some, SumsUp
<1>4. Solves(sum)
  <2>1. \E g : Solves(g)
    <3> HIDE DEF Solves, c
    <3>1. PICK g : SumsUp(g, c, ids)
      BY <1>1, SumExists
    <3>2. Solves(g)
      BY <1>3, <3>1
    <3>3. QED
      BY <3>2
  <2> HIDE DEF Solves
  <2>2. QED
    BY <2>1
<1>5. sum[ids] \in Nat
  <2> HIDE DEF Solves, c, sum
  <2>1. QED
    BY <1>1, <1>3, <1>4, SumNatural
<1>6. Spend(rows, ids) = sum[ids]
  BY DEF Spend, MapThenSumSet, MapThenFoldSet
<1>7. QED
  BY <1>5, <1>6

\* So is the weight of some successes, and any success weighs something.
LEMMA WeightNatural ==
    ASSUME NEW rows, NEW ids, IsFiniteSet(ids)
    PROVE  /\ WeightOf(rows, ids) \in Nat
           /\ ids # {} => WeightOf(rows, ids) >= 1
<1> DEFINE c == [i \in ids |-> Weight(rows[i])]
           Solves(g) == g = [s \in SUBSET ids |->
                               IF s = {} THEN 0
                               ELSE LET x == CHOOSE y \in s : TRUE
                                    IN  Weight(rows[x]) + g[s \ {x}]]
           sum == CHOOSE g : Solves(g)
<1>1. c \in [ids -> Nat] /\ \A i \in ids : c[i] >= 1
  BY DEF Weight
<1>2. \A s \in SUBSET ids : s # {} => Some(s) \in ids /\ c[Some(s)] = Weight(rows[Some(s)])
  BY DEF Some
<1>3. ASSUME NEW g
      PROVE  Solves(g) <=> SumsUp(g, c, ids)
  <2> HIDE DEF c
  <2>1. QED
    BY <1>2 DEF Some, SumsUp
<1>4. Solves(sum)
  <2>1. \E g : Solves(g)
    <3> HIDE DEF Solves, c
    <3>1. PICK g : SumsUp(g, c, ids)
      BY <1>1, SumExists
    <3>2. Solves(g)
      BY <1>3, <3>1
    <3>3. QED
      BY <3>2
  <2> HIDE DEF Solves
  <2>2. QED
    BY <2>1
<1>5. sum[ids] \in Nat /\ (ids # {} => sum[ids] >= c[Some(ids)])
  <2> HIDE DEF Solves, c, sum
  <2>1. QED
    BY <1>1, <1>3, <1>4, SumNatural
<1>6. ids # {} => c[Some(ids)] >= 1 /\ c[Some(ids)] \in Nat
  BY <1>1, <1>2
<1>7. WeightOf(rows, ids) = sum[ids]
  BY DEF WeightOf, MapThenSumSet, MapThenFoldSet
<1> HIDE DEF c, sum
<1>8. QED
  BY <1>5, <1>6, <1>7

-----------------------------------------------------------------------------
(* Orders by observed spend *)

\* A score is made of numbers, and what qualifies has a success that weighs something.
LEMMA ScoreTyped ==
    ASSUME OrderAssumption, NEW T, NEW rows \in Seq(T), NEW domain, NEW p, NEW t,
           \A i \in DOMAIN rows : rows[i].cost \in Nat
    PROVE  /\ Score(rows, domain, p, t).spend \in Nat
           /\ Qualifies(Score(rows, domain, p, t)) =>
                 Score(rows, domain, p, t).weightedWins \in Nat \ {0}
<1> DEFINE ids == Within(rows, UsableRows(rows, domain, p), t - Window, t)
           wins == Wins(rows, ids)
<1>1. ids \subseteq 1..Len(rows) /\ wins \subseteq ids
  BY DEF Within, UsableRows, Wins
<1>2. IsFiniteSet(1..Len(rows)) /\ Len(rows) \in Nat
  BY FS_Interval
<1>3. Score(rows, domain, p, t) =
        [attempts |-> Cardinality(ids), wins |-> Cardinality(wins),
         spend |-> Spend(rows, ids),
         weightedWins |-> WeightOf(rows, wins)]
  BY DEF Score
<1> HIDE DEF ids, wins
<1>4. IsFiniteSet(ids) /\ IsFiniteSet(wins)
  BY <1>1, <1>2, FS_Subset
<1>5. \A i \in ids : rows[i].cost \in Nat
  BY <1>1
<1>6. Spend(rows, ids) \in Nat
  BY <1>4, <1>5, SpendNatural
<1>7. /\ WeightOf(rows, wins) \in Nat
      /\ wins # {} => WeightOf(rows, wins) >= 1
  BY <1>4, WeightNatural
<1>8. Qualifies(Score(rows, domain, p, t)) => wins # {}
  <2>1. (wins = {} => Cardinality(wins) = 0) /\ MinSuccesses \in Nat \ {0}
    BY <1>4, FS_EmptySet DEF OrderAssumption
  <2>2. Qualifies(Score(rows, domain, p, t)) => Cardinality(wins) >= MinSuccesses
    BY <1>3 DEF Qualifies
  <2>3. QED
    BY <2>1, <2>2
<1>9. QED
  BY <1>3, <1>6, <1>7, <1>8

\* Multiplying both sides by a positive number keeps their order.
LEMMA TimesPositive ==
    ASSUME NEW x \in Nat, NEW y \in Nat, NEW k \in Nat \ {0}
    PROVE  /\ x < y => x * k < y * k
           /\ x <= y => x * k <= y * k
           /\ x * k < y * k => x < y
           /\ x * k <= y * k => x <= y
<1>1. ASSUME NEW a \in Nat, NEW b \in Nat, a < b
      PROVE  a * k < b * k
  <2>1. b - a - 1 \in Nat
    BY <1>1
  <2>2. b * k = a * k + k + (b - a - 1) * k
    OBVIOUS
  <2>3. (b - a - 1) * k \in Nat /\ a * k \in Nat
    BY <2>1
  <2>4. QED
    BY <2>2, <2>3
<1>2. x * k \in Nat /\ y * k \in Nat
  OBVIOUS
<1>3. (x < y => x * k < y * k) /\ (y < x => y * k < x * k) /\ (x = y => x * k = y * k)
  BY <1>1
<1> DEFINE u == x * k
           v == y * k
<1> HIDE DEF u, v
<1>4. QED
  BY <1>2, <1>3 DEF u, v

\* Comparing spend per success by cross-multiplication is transitive.
LEMMA SpendTransitive ==
    ASSUME NEW a \in Nat, NEW b \in Nat, NEW c \in Nat,
           NEW u \in Nat \ {0}, NEW v \in Nat \ {0}, NEW w \in Nat \ {0},
           a * v <= b * u, b * w <= c * v
    PROVE  /\ a * w <= c * u
           /\ a * v < b * u \/ b * w < c * v => a * w < c * u
<1>1. /\ a * v \in Nat /\ b * u \in Nat /\ b * w \in Nat /\ c * v \in Nat
      /\ a * w \in Nat /\ c * u \in Nat
  OBVIOUS
<1>2. (a * v) * w <= (b * u) * w /\ (a * v < b * u => (a * v) * w < (b * u) * w)
  BY <1>1, TimesPositive
<1>3. (b * w) * u <= (c * v) * u /\ (b * w < c * v => (b * w) * u < (c * v) * u)
  BY <1>1, TimesPositive
<1>4. (a * v) * w = (a * w) * v /\ (b * u) * w = (b * w) * u /\ (c * v) * u = (c * u) * v
  OBVIOUS
<1>5. (a * w) * v \in Nat /\ (b * w) * u \in Nat /\ (c * u) * v \in Nat
  BY <1>1
<1>6. /\ (a * w) * v <= (c * u) * v
      /\ a * v < b * u \/ b * w < c * v => (a * w) * v < (c * u) * v
  <2> DEFINE l == (a * w) * v
             m == (b * w) * u
             r == (c * u) * v
  <2>1. l <= m /\ m <= r /\ l \in Nat /\ m \in Nat /\ r \in Nat
    BY <1>2, <1>3, <1>4, <1>5
  <2>2. (a * v < b * u => l < m) /\ (b * w < c * v => m < r)
    BY <1>2, <1>3, <1>4
  <2> HIDE DEF l, m, r
  <2>3. l <= r /\ (a * v < b * u \/ b * w < c * v => l < r)
    BY <2>1, <2>2
  <2>4. QED
    BY <2>3 DEF l, r
<1>7. QED
  BY <1>1, <1>6, TimesPositive

\* Qualified providers by spend per success, then the others, is an order of them all.
LEMMA CostLists ==
    ASSUME OrderAssumption, NEW S \in SUBSET Names, NEW qualified, NEW score,
           \A p \in qualified : /\ score[p].spend \in Nat
                                /\ score[p].weightedWins \in Nat \ {0}
    PROVE  Lists(ByCost(score, qualified, S), S)
<1> DEFINE Less(p, q) == SpendsLess(score[p], score[q])
           Same(p, q) == SpendsEqually(score[p], score[q])
           Before(p, q) == \/ p \in qualified /\ q \notin qualified
                           \/ {p, q} \subseteq qualified /\ Less(p, q)
                           \/ /\ {p, q} \subseteq qualified => Same(p, q)
                              /\ p \in qualified <=> q \in qualified
                              /\ Ahead(p, q)
           before == {b \in S \X S : Before(b[1], b[2])}
<1>1. IsFiniteSet(S)
  BY FS_Subset DEF OrderAssumption
<1>2. /\ \A p \in S : ~Ahead(p, p)
      /\ \A p, q \in S : p # q => Ahead(p, q) \/ Ahead(q, p)
      /\ \A p, q, r \in S : Ahead(p, q) /\ Ahead(q, r) => Ahead(p, r)
  <2>1. /\ \A p \in S : Rank[p] \in Nat /\ Alphabet[p] \in Nat
        /\ \A p, q \in S : Alphabet[p] = Alphabet[q] => p = q
    BY DEF OrderAssumption, IsInjective
  <2>2. QED
    BY <2>1 DEF Ahead
<1>3. ASSUME NEW p \in qualified, NEW q \in qualified
      PROVE  /\ ~Less(p, p)
             /\ Less(p, q) \/ Same(p, q) \/ Less(q, p)
             /\ ~ (Less(p, q) /\ Same(p, q))
  <2>1. /\ score[p].spend * score[q].weightedWins \in Nat
        /\ score[q].spend * score[p].weightedWins \in Nat
        /\ score[p].spend * score[p].weightedWins \in Nat
    BY <1>3
  <2>2. QED
    BY <2>1 DEF SpendsLess, SpendsEqually
<1>4. ASSUME NEW p \in qualified, NEW q \in qualified, NEW r \in qualified,
             Less(p, q) \/ Same(p, q), Less(q, r) \/ Same(q, r)
      PROVE  /\ Less(p, r) \/ Same(p, r)
             /\ Less(p, q) \/ Less(q, r) => Less(p, r)
  <2> DEFINE a == score[p].spend
             b == score[q].spend
             c == score[r].spend
             u == score[p].weightedWins
             v == score[q].weightedWins
             w == score[r].weightedWins
  <2>1. /\ a \in Nat /\ b \in Nat /\ c \in Nat
        /\ u \in Nat \ {0} /\ v \in Nat \ {0} /\ w \in Nat \ {0}
    OBVIOUS
  <2>2. /\ Less(p, q) <=> a * v < b * u
        /\ Less(q, r) <=> b * w < c * v
        /\ Less(p, r) <=> a * w < c * u
        /\ Same(p, q) <=> a * v = b * u
        /\ Same(q, r) <=> b * w = c * v
        /\ Same(p, r) <=> a * w = c * u
    BY DEF SpendsLess, SpendsEqually
  <2> HIDE DEF a, b, c, u, v, w, Less, Same
  <2>3. /\ a * v \in Nat /\ b * u \in Nat /\ b * w \in Nat
        /\ c * v \in Nat /\ a * w \in Nat /\ c * u \in Nat
    BY <2>1
  <2>4. a * v <= b * u /\ b * w <= c * v
    BY <1>4, <2>2, <2>3
  <2>5. a * w <= c * u /\ (a * v < b * u \/ b * w < c * v => a * w < c * u)
    BY <2>1, <2>4, SpendTransitive
  <2>6. QED
    BY <2>2, <2>3, <2>5
<1> HIDE DEF Less, Same
<1>5. \A p \in S : ~Before(p, p)
  BY <1>2, <1>3
<1>6. ASSUME NEW p \in S, NEW q \in S, p # q
      PROVE  Before(p, q) \/ Before(q, p)
  <2>1. CASE p \in qualified /\ q \in qualified
    <3>1. Same(p, q) => Same(q, p)
      BY DEF Same, SpendsEqually
    <3>2. QED
      BY <1>2, <1>3, <1>6, <2>1, <3>1
  <2>2. QED
    BY <1>2, <1>6, <2>1
<1>7. ASSUME NEW p \in S, NEW q \in S, NEW r \in S, Before(p, q), Before(q, r)
      PROVE  Before(p, r)
  <2>1. CASE p \in qualified /\ q \in qualified /\ r \in qualified
    <3>1. Less(p, q) \/ (Same(p, q) /\ Ahead(p, q))
      BY <1>7, <2>1
    <3>2. Less(q, r) \/ (Same(q, r) /\ Ahead(q, r))
      BY <1>7, <2>1
    <3>3. Less(p, r) \/ (Same(p, r) /\ Ahead(p, q) /\ Ahead(q, r))
      BY <1>4, <2>1, <3>1, <3>2
    <3>4. QED
      BY <1>2, <2>1, <3>3
  <2>2. QED
    BY <1>2, <1>7, <2>1
<1>8. /\ before \subseteq S \X S
      /\ \A p, q \in S : <<p, q>> \in before <=> Before(p, q)
  <2> HIDE DEF Before
  <2>1. QED
    OBVIOUS
<1>9. IsStrictOrder(before, S)
  <2> HIDE DEF Before, before
  <2>1. QED
    BY <1>5, <1>6, <1>7, <1>8 DEF IsStrictOrder
<1>10. \E s \in Bijection(1..Cardinality(S), S) :
          \A i, j \in DOMAIN s : i < j => Before(s[i], s[j])
  <2> HIDE DEF Before, before
  <2>1. \E s \in Bijection(1..Cardinality(S), S) :
           \A i, j \in DOMAIN s : i < j => <<s[i], s[j]>> \in before
    BY <1>1, <1>9, SortExists
  <2>2. \A s \in Bijection(1..Cardinality(S), S) : \A i \in DOMAIN s : s[i] \in S
    BY DEF Bijection, Injection
  <2>3. QED
    BY <1>8, <2>1, <2>2
<1>11. ByCost(score, qualified, S) \in Bijection(1..Cardinality(S), S)
  BY <1>10 DEF ByCost, Sorted, Less, Same
<1>12. QED
  BY <1>1, <1>11, BijectionLists

\* Moving some providers to the front keeps an order complete.
LEMMA FirstLists ==
    ASSUME OrderAssumption, NEW S \in SUBSET Names, NEW order, Lists(order, S), NEW chosen
    PROVE  Lists(First(order, chosen), S)
<1> DEFINE At(p) == PlaceIn(order, p)
           Before(p, q) == \/ p \in chosen /\ q \notin chosen
                           \/ /\ p \in chosen <=> q \in chosen
                              /\ At(p) < At(q)
           before == {b \in S \X S : Before(b[1], b[2])}
<1>1. IsFiniteSet(S) /\ Range(order) = S
  BY FS_Subset DEF OrderAssumption, Lists
<1>2. ASSUME NEW p \in S
      PROVE  At(p) \in Nat /\ order[At(p)] = p
  <2>1. \E i \in DOMAIN order : order[i] = p
    BY <1>1 DEF Range
  <2>2. At(p) \in DOMAIN order /\ order[At(p)] = p
    BY <2>1 DEF PlaceIn
  <2>3. DOMAIN order \subseteq Nat
    BY DEF Lists
  <2>4. QED
    BY <2>2, <2>3
<1>3. \A p, q \in S : At(p) = At(q) => p = q
  BY <1>2
<1> HIDE DEF At
<1>4. /\ \A p \in S : ~Before(p, p)
      /\ \A p, q \in S : p # q => Before(p, q) \/ Before(q, p)
      /\ \A p, q, r \in S : Before(p, q) /\ Before(q, r) => Before(p, r)
  BY <1>2, <1>3
<1>5. /\ before \subseteq S \X S
      /\ \A p, q \in S : <<p, q>> \in before <=> Before(p, q)
  <2> HIDE DEF Before
  <2>1. QED
    OBVIOUS
<1>6. \E s \in Bijection(1..Cardinality(S), S) :
         \A i, j \in DOMAIN s : i < j => Before(s[i], s[j])
  <2> HIDE DEF Before, before
  <2>1. IsStrictOrder(before, S)
    BY <1>4, <1>5 DEF IsStrictOrder
  <2>2. \E s \in Bijection(1..Cardinality(S), S) :
           \A i, j \in DOMAIN s : i < j => <<s[i], s[j]>> \in before
    BY <1>1, <2>1, SortExists
  <2>3. \A s \in Bijection(1..Cardinality(S), S) : \A i \in DOMAIN s : s[i] \in S
    BY DEF Bijection, Injection
  <2>4. QED
    BY <1>5, <2>2, <2>3
<1>7. First(order, chosen) \in Bijection(1..Cardinality(S), S)
  BY <1>1, <1>6 DEF First, Sorted, At
<1>8. QED
  BY <1>1, <1>7, BijectionLists

-----------------------------------------------------------------------------
(* Routes *)

\* What a route is made of.
LEMMA RouteFields ==
    ASSUME NEW order, NEW kind, NEW provider
    PROVE  /\ Route(order, kind, provider).order = order
           /\ Route(order, kind, provider).kind = kind
           /\ Route(order, kind, provider).provider = provider
BY DEF Route

\* Of several providers one goes ahead of all others, as no two have the same name.
LEMMA CheapestExists ==
    ASSUME OrderAssumption, NEW S \in SUBSET Names, S # {}
    PROVE  Cheapest(S) \in S
<1>1. Rank \in [Names -> Nat] /\ Alphabet \in [Names -> Nat] /\ IsInjective(Alphabet)
  BY DEF OrderAssumption
<1>2. PICK r \in {Rank[p] : p \in S} : \A y \in {Rank[p] : p \in S} : r <= y
  <2>1. {Rank[p] : p \in S} \in SUBSET Nat /\ {Rank[p] : p \in S} # {}
    BY <1>1
  <2>2. QED
    BY <2>1, LeastNatural
<1> DEFINE low == {p \in S : Rank[p] = r}
<1>3. PICK a \in {Alphabet[p] : p \in low} : \A y \in {Alphabet[p] : p \in low} : a <= y
  <2>1. {Alphabet[p] : p \in low} \in SUBSET Nat /\ {Alphabet[p] : p \in low} # {}
    BY <1>1, <1>2
  <2>2. QED
    BY <2>1, LeastNatural
<1>4. PICK p \in low : Alphabet[p] = a
  BY <1>3
<1>5. \A q \in S \ {p} : Ahead(p, q)
  <2> SUFFICES ASSUME NEW q \in S \ {p} PROVE Ahead(p, q)
    OBVIOUS
  <2>1. Rank[p] = r /\ Rank[p] <= Rank[q] /\ Rank[p] \in Nat /\ Rank[q] \in Nat
    BY <1>1, <1>2, <1>4
  <2>2. CASE Rank[q] = r
    <3>1. Alphabet[p] <= Alphabet[q]
      BY <1>3, <1>4, <2>2
    <3>2. Alphabet[p] # Alphabet[q]
      BY <1>1, <1>4 DEF IsInjective
    <3>3. Alphabet[p] \in Nat /\ Alphabet[q] \in Nat
      BY <1>1, <1>4
    <3>4. QED
      BY <2>1, <2>2, <3>1, <3>2, <3>3 DEF Ahead
  <2>3. CASE Rank[q] # r
    BY <2>1, <2>3 DEF Ahead
  <2>4. QED
    BY <2>2, <2>3
<1>6. p \in S
  BY <1>4
<1>7. QED
  BY <1>5, <1>6 DEF Cheapest

\* One provider before the others.
LEMMA PutFirst ==
    ASSUME NEW S, NEW p \in S, NEW rest, Lists(rest, S \ {p})
    PROVE  /\ Lists(<<p>> \o rest, S)
           /\ <<p>> \o rest # <<>>
           /\ (<<p>> \o rest)[1] = p
<1>1. Lists(<<p>> \o rest, {p} \cup (S \ {p}))
  BY ListsOne, ListsConcat
<1>2. {p} \cup (S \ {p}) = S
  OBVIOUS
<1>3. rest \in Seq(S \ {p}) /\ <<p>> \in Seq(S) /\ rest \in Seq(S)
  BY SeqMonotonic DEF Lists
<1>4. Len(<<p>>) = 1 /\ Len(rest) \in Nat /\ <<p>>[1] = p
  BY <1>3
<1>5. (<<p>> \o rest)[1] = p /\ Len(<<p>> \o rest) = 1 + Len(rest)
  BY <1>3, <1>4, ConcatProperties
<1>6. Lists(<<p>> \o rest, S)
  BY <1>1, <1>2
<1>7. <<p>> \o rest # <<>>
  BY <1>4, <1>5
<1>8. QED
  BY <1>5, <1>6, <1>7

\* A complete route whose decision names its first provider, or none if it is empty.
Headed(route, gateway) ==
    /\ Lists(route.order, gateway)
    /\ \/ route.order # <<>> /\ route.provider = route.order[1]
       \/ route.order = <<>> /\ route.provider = "none"

\* The same, or a decision that names a probe for a provider the gateway lacks.
Complete(route, gateway) ==
    \/ Headed(route, gateway)
    \/ /\ Lists(route.order, gateway)
       /\ route.kind = "recovery_probe" /\ route.provider \in Names \ gateway

\* What the request picks is named as its preference, exactly if the gateway has it.
Obeys(route, gateway, pick) ==
    /\ route.kind = "request_preference" <=> pick \in gateway
    /\ pick \in gateway => route.provider = pick

\* A decision that names the first of a complete order, or none.
LEMMA RouteHeaded ==
    ASSUME NEW gateway, NEW order, Lists(order, gateway), NEW kind, NEW p,
           IF order = <<>> THEN p = "none" ELSE p = order[1]
    PROVE  Headed(Route(order, kind, p), gateway)
<1> DEFINE route == Route(order, kind, p)
<1>1. route.order = order /\ route.provider = p
  BY RouteFields
<1> HIDE DEF route
<1>2. Headed(route, gateway)
  BY <1>1 DEF Headed
<1>3. QED
  BY <1>2 DEF route

\* A preferred provider goes first.
LEMMA PreferringHeaded ==
    ASSUME OrderAssumption, NEW gateway \in SUBSET Names, NEW p \in gateway, NEW kind
    PROVE  Headed(Route(Preferring(p, gateway), kind, p), gateway)
<1>1. Lists(ByRank(gateway \ {p}), gateway \ {p})
  BY RankLists
<1> DEFINE order == Preferring(p, gateway)
<1>2. Lists(order, gateway) /\ order # <<>> /\ order[1] = p
  BY <1>1, PutFirst DEF Preferring
<1> HIDE DEF order
<1>3. Headed(Route(order, kind, p), gateway)
  BY <1>2, RouteHeaded
<1>4. QED
  BY <1>3 DEF order

\* So does the first of those that a recipe names.
LEMMA RecipeHeaded ==
    ASSUME OrderAssumption, NEW gateway \in SUBSET Names, NEW recipe \in Seq(Names),
           AsNamed(recipe, gateway) # <<>>
    PROVE  Headed(Route(AsNamed(recipe, gateway)
                          \o ByRank(gateway \ Range(AsNamed(recipe, gateway))),
                        "recipe", AsNamed(recipe, gateway)[1]), gateway)
<1> DEFINE named == AsNamed(recipe, gateway)
           few == gateway \cap Range(recipe)
           rest == ByRank(gateway \ few)
<1>1. Lists(named, few)
  BY NamedLists
<1>2. Range(named) = few
  BY <1>1 DEF Lists
<1>3. Lists(rest, gateway \ few)
  BY RankLists
<1>4. Lists(named \o rest, gateway)
  <2>1. few \cup (gateway \ few) = gateway /\ few \cap (gateway \ few) = {}
    OBVIOUS
  <2> HIDE DEF named, rest, few
  <2>2. Lists(named \o rest, few \cup (gateway \ few))
    BY <1>1, <1>3, <2>1, ListsConcat
  <2>3. QED
    BY <2>1, <2>2
<1>5. named \in Seq(Names) /\ rest \in Seq(Names) /\ named # <<>>
  <2>1. few \subseteq Names /\ gateway \ few \subseteq Names
    OBVIOUS
  <2>2. named \in Seq(few) /\ rest \in Seq(gateway \ few)
    BY <1>1, <1>3 DEF Lists
  <2> HIDE DEF named, rest, few
  <2>3. named \in Seq(Names) /\ rest \in Seq(Names)
    BY <2>1, <2>2, SeqMonotonic
  <2>4. QED
    BY <2>3 DEF named
<1> HIDE DEF named, rest, few
<1>6. Len(named) \in Nat /\ Len(named) # 0 /\ Len(rest) \in Nat
  BY <1>5
<1>7. (named \o rest)[1] = named[1] /\ Len(named \o rest) # 0
  BY <1>5, <1>6, ConcatProperties
<1>8. named \o rest # <<>>
  BY <1>7
<1>9. Headed(Route(named \o rest, "recipe", named[1]), gateway)
  <2> DEFINE order == named \o rest
             kind == "recipe"
             p == named[1]
  <2>1. Lists(order, gateway) /\ order # <<>> /\ p = order[1]
    BY <1>4, <1>7, <1>8
  <2> HIDE DEF order, kind, p
  <2>2. Headed(Route(order, kind, p), gateway)
    BY <2>1, RouteHeaded
  <2>3. QED
    BY <2>2 DEF order, kind, p
<1>10. QED
  BY <1>2, <1>9 DEF named, rest

\* Without evidence the cheapest by rank goes first.
LEMMA RankHeaded ==
    ASSUME OrderAssumption, NEW gateway \in SUBSET Names
    PROVE  Headed(RankRoute(gateway), gateway)
<1>1. Lists(ByRank(gateway), gateway)
  BY RankLists
<1>2. ByRank(gateway) = <<>> <=> gateway = {}
  BY <1>1, ListsEmpty
<1> DEFINE order == ByRank(gateway)
           kind == "cost_rank"
           p == IF gateway = {} THEN "none" ELSE order[1]
<1>3. IF order = <<>> THEN p = "none" ELSE p = order[1]
  BY <1>2
<1> HIDE DEF order, kind, p
<1>4. Headed(Route(order, kind, p), gateway)
  BY <1>1, <1>3, RouteHeaded DEF order
<1>5. QED
  BY <1>4 DEF RankRoute, order, kind, p

\* With evidence the one that spends least per success, or the one to explore.
LEMMA CostHeaded ==
    ASSUME OrderAssumption, NEW T, NEW rows \in Seq(T), \A i \in DOMAIN rows : rows[i].cost \in Nat,
           NEW domain, NEW t, NEW gateway \in SUBSET Names
    PROVE  Headed(CostRoute(rows, domain, t, gateway), gateway)
<1> DEFINE score == [p \in gateway |-> Score(rows, domain, p, t)]
           qualified == {p \in gateway : Qualifies(score[p])}
           order == ByCost(score, qualified, gateway)
           candidates == Candidates(rows, domain, t, gateway, order[1])
           probe == Cheapest(candidates)
           rest == ByCost(score, qualified, gateway \ {probe})
<1>1. CostRoute(rows, domain, t, gateway) =
        IF qualified = {} THEN RankRoute(gateway)
        ELSE IF candidates = {} THEN Route(order, "observed_cost", order[1])
        ELSE Route(<<probe>> \o rest, "exploration", probe)
  BY DEF CostRoute
<1>2. \A p \in qualified : score[p].spend \in Nat /\ score[p].weightedWins \in Nat \ {0}
  <2> SUFFICES ASSUME NEW p \in qualified
               PROVE  score[p].spend \in Nat /\ score[p].weightedWins \in Nat \ {0}
    OBVIOUS
  <2>1. score[p] = Score(rows, domain, p, t) /\ Qualifies(Score(rows, domain, p, t))
    OBVIOUS
  <2>2. QED
    BY <2>1, ScoreTyped
<1>3. qualified \subseteq gateway /\ candidates \subseteq gateway
  BY DEF Candidates
<1> HIDE DEF score, qualified
<1>4. Lists(order, gateway)
  BY <1>2, CostLists
<1>5. CASE qualified = {}
  BY <1>1, <1>5, RankHeaded
<1>6. CASE qualified # {} /\ candidates = {}
  <2>1. order # <<>>
    BY <1>3, <1>4, <1>6, ListsEmpty
  <2> HIDE DEF order, candidates, probe, rest
  <2>2. QED
    BY <1>1, <1>4, <1>6, <2>1, RouteFields DEF Headed
<1>7. CASE qualified # {} /\ candidates # {}
  <2>1. probe \in gateway
    <3> HIDE DEF candidates
    <3>1. probe \in candidates
      BY <1>3, <1>7, CheapestExists
    <3>2. QED
      BY <1>3, <3>1
  <2>2. Lists(rest, gateway \ {probe})
    BY <1>2, CostLists
  <2> HIDE DEF order, candidates, probe, rest
  <2> DEFINE all == <<probe>> \o rest
             kind == "exploration"
  <2>3. Lists(all, gateway) /\ all # <<>> /\ probe = all[1]
    BY <2>1, <2>2, PutFirst
  <2>4. CostRoute(rows, domain, t, gateway) = Route(all, kind, probe)
    BY <1>1, <1>7
  <2> HIDE DEF all, kind
  <2>5. Headed(Route(all, kind, probe), gateway)
    BY <2>3, RouteHeaded
  <2>6. QED
    BY <2>4, <2>5
<1>8. QED
  BY <1>5, <1>6, <1>7

\* Probes go first; the decision names one that the gateway lacks only if it lacks all.
LEMMA ProbesHeaded ==
    ASSUME OrderAssumption, NEW rows, NEW domain, NEW t, NEW gateway \in SUBSET Names,
           NEW learned, Headed(learned, gateway)
    PROVE  Complete(WithProbes(rows, domain, t, gateway, learned), gateway)
<1> DEFINE due == DueForProbe(rows, domain, t)
           order == First(learned.order, due)
           other == CHOOSE p \in due : \A q \in due : Alphabet[p] <= Alphabet[q]
<1>1. due \subseteq Names
  BY DEF DueForProbe
<1>2. Lists(order, gateway)
  BY FirstLists DEF Headed
<1>3. WithProbes(rows, domain, t, gateway, learned) =
        IF due = {} THEN learned
        ELSE Route(order, "recovery_probe", IF gateway \cap due # {} THEN order[1] ELSE other)
  BY DEF WithProbes
<1>4. due # {} => other \in due
  <2> SUFFICES ASSUME due # {} PROVE other \in due
    OBVIOUS
  <2> HIDE DEF due
  <2> DEFINE places == {Alphabet[p] : p \in due}
  <2>1. places \in SUBSET Nat /\ places # {}
    BY <1>1 DEF OrderAssumption
  <2>2. PICK x \in places : \A y \in places : x <= y
    <3> HIDE DEF places
    <3>1. QED
      BY <2>1, LeastNatural
  <2>3. PICK p \in due : Alphabet[p] = x
    BY <2>2
  <2>4. \A q \in due : Alphabet[p] <= Alphabet[q]
    BY <2>2, <2>3
  <2>5. QED
    BY <2>4
<1>5. gateway \cap due # {} => order # <<>>
  BY <1>2, ListsEmpty
<1> HIDE DEF due, order, other
<1>6. CASE due = {}
  BY <1>3, <1>6 DEF Complete
<1>7. CASE due # {} /\ gateway \cap due # {}
  <2>1. WithProbes(rows, domain, t, gateway, learned) = Route(order, "recovery_probe", order[1])
    BY <1>3, <1>7
  <2>2. Headed(Route(order, "recovery_probe", order[1]), gateway)
    BY <1>2, <1>5, <1>7, RouteFields DEF Headed
  <2>3. QED
    BY <2>1, <2>2 DEF Complete
<1>8. CASE due # {} /\ gateway \cap due = {}
  <2>1. WithProbes(rows, domain, t, gateway, learned) = Route(order, "recovery_probe", other)
    BY <1>3, <1>8
  <2>2. other \in Names \ gateway
    BY <1>1, <1>4, <1>8
  <2>3. QED
    BY <1>2, <2>1, <2>2, RouteFields DEF Complete
<1>9. QED
  BY <1>6, <1>7, <1>8

\* What the ledger leads to is never called a preference of the request.
LEMMA LearnedKind ==
    ASSUME NEW rows, NEW domain, NEW t, NEW gateway
    PROVE  WithProbes(rows, domain, t, gateway, CostRoute(rows, domain, t, gateway)).kind
             # "request_preference"
<1> DEFINE learned == CostRoute(rows, domain, t, gateway)
           probed == WithProbes(rows, domain, t, gateway, learned)
<1>1. probed = learned \/ \E order, p : probed = Route(order, "recovery_probe", p)
  BY DEF WithProbes
<1>2. \/ learned = RankRoute(gateway)
      \/ \E order, p : learned = Route(order, "observed_cost", p)
      \/ \E order, p : learned = Route(order, "exploration", p)
  BY DEF CostRoute
<1>3. RankRoute(gateway).kind = "cost_rank"
  BY RouteFields DEF RankRoute
<1> HIDE DEF learned, probed
<1>4. learned.kind # "request_preference"
  BY <1>2, <1>3, RouteFields
<1>5. probed.kind # "request_preference"
  BY <1>1, <1>4, RouteFields
<1>6. QED
  BY <1>5 DEF learned, probed

\* Whatever the ledger holds and the request, recipe and strategy ask for, a route tries
\* each provider of the gateway once, and its decision names the first of them, none if
\* there is none, or a probe for a provider that the gateway lacks; a provider that the
\* request picks goes first, and only then does the decision call itself a preference.
THEOREM RouteComplete ==
    ASSUME OrderAssumption, NEW T, NEW rows \in Seq(T), \A i \in DOMAIN rows : rows[i].cost \in Nat,
           NEW domain, NEW t, NEW gateway \in SUBSET Names, NEW pick,
           NEW recipe \in Seq(Names), NEW strategy
    PROVE  LET route == Ordered(rows, domain, t, gateway, pick, recipe, strategy)
           IN  Complete(route, gateway) /\ Obeys(route, gateway, pick)
<1> DEFINE route == Ordered(rows, domain, t, gateway, pick, recipe, strategy)
           named == AsNamed(recipe, gateway)
           learned == CostRoute(rows, domain, t, gateway)
           probed == WithProbes(rows, domain, t, gateway, learned)
<1>1. pick \in gateway <=> Picks(pick, gateway)
  BY DEF Picks, OrderAssumption
<1>2. CASE Picks(pick, gateway)
  <2>1. route = Route(Preferring(pick, gateway), "request_preference", pick)
    BY <1>2 DEF Ordered
  <2> HIDE DEF route, Complete, Obeys
  <2>2. Headed(route, gateway)
    BY <1>1, <1>2, <2>1, PreferringHeaded
  <2>3. route.kind = "request_preference" /\ route.provider = pick
    BY <2>1, RouteFields
  <2>4. QED
    BY <1>1, <1>2, <2>2, <2>3 DEF route, Complete, Obeys
<1>3. CASE ~Picks(pick, gateway) /\ named # <<>>
  <2>1. route = Route(named \o ByRank(gateway \ Range(named)), "recipe", named[1])
    BY <1>3 DEF Ordered
  <2>2. Headed(route, gateway)
    BY <1>3, <2>1, RecipeHeaded
  <2>3. route.kind = "recipe"
    BY <2>1, RouteFields
  <2> HIDE DEF route, Complete, Obeys
  <2>4. QED
    BY <1>1, <1>3, <2>2, <2>3 DEF route, Complete, Obeys
<1>4. CASE ~Picks(pick, gateway) /\ named = <<>> /\ Picks(strategy, gateway)
  <2>1. route = Route(Preferring(strategy, gateway), "strategy", strategy)
    BY <1>4 DEF Ordered
  <2> HIDE DEF route, Complete, Obeys
  <2>2. Headed(route, gateway)
    BY <1>4, <2>1, PreferringHeaded DEF Picks
  <2>3. route.kind = "strategy"
    BY <2>1, RouteFields
  <2>4. QED
    BY <1>1, <1>4, <2>2, <2>3 DEF route, Complete, Obeys
<1>5. CASE ~Picks(pick, gateway) /\ named = <<>> /\ ~Picks(strategy, gateway)
  <2>1. route = probed
    BY <1>5 DEF Ordered
  <2>2. Headed(learned, gateway)
    BY CostHeaded
  <2>3. probed.kind # "request_preference"
    BY LearnedKind
  <2> HIDE DEF route, learned
  <2>4. Complete(probed, gateway)
    BY <2>2, ProbesHeaded
  <2> HIDE DEF probed
  <2>5. QED
    BY <1>1, <1>5, <2>1, <2>3, <2>4 DEF route, Complete, Obeys
<1>6. QED
  BY <1>2, <1>3, <1>4, <1>5

\* A route that explores does so with a provider that is due for it.
THEOREM ExploredIsDue ==
    ASSUME OrderAssumption, NEW rows, NEW domain, NEW t, NEW gateway \in SUBSET Names,
           NEW pick, NEW recipe, NEW strategy,
           Ordered(rows, domain, t, gateway, pick, recipe, strategy).kind = "exploration"
    PROVE  DueForExploration(rows, domain,
             Ordered(rows, domain, t, gateway, pick, recipe, strategy).provider, t)
<1> DEFINE route == Ordered(rows, domain, t, gateway, pick, recipe, strategy)
           learned == CostRoute(rows, domain, t, gateway)
           probed == WithProbes(rows, domain, t, gateway, learned)
<1>1. route = probed
  <2>1. \/ \E order, p : route = Route(order, "request_preference", p)
        \/ \E order, p : route = Route(order, "recipe", p)
        \/ \E order, p : route = Route(order, "strategy", p)
        \/ route = probed
    BY DEF Ordered
  <2>2. QED
    BY <2>1, RouteFields
<1>2. probed = learned
  <2>1. probed = learned \/ \E order, p : probed = Route(order, "recovery_probe", p)
    BY DEF WithProbes
  <2>2. QED
    BY <1>1, <2>1, RouteFields
<1>3. PICK winner : LET due == Candidates(rows, domain, t, gateway, winner)
                    IN  due # {} /\ learned.provider = Cheapest(due)
  <2>1. \/ learned = RankRoute(gateway)
        \/ \E order, p : learned = Route(order, "observed_cost", p)
        \/ \E order, winner : /\ Candidates(rows, domain, t, gateway, winner) # {}
                              /\ learned = Route(order, "exploration",
                                   Cheapest(Candidates(rows, domain, t, gateway, winner)))
    BY DEF CostRoute
  <2>2. RankRoute(gateway).kind = "cost_rank"
    BY RouteFields DEF RankRoute
  <2>3. QED
    BY <1>1, <1>2, <2>1, <2>2, RouteFields
<1>4. Candidates(rows, domain, t, gateway, winner) \in SUBSET Names
  BY DEF Candidates
<1>5. learned.provider \in Candidates(rows, domain, t, gateway, winner)
  BY <1>3, <1>4, CheapestExists
<1>6. QED
  BY <1>1, <1>2, <1>5 DEF Candidates

=============================================================================
