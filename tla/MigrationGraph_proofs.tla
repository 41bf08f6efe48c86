------------------------- MODULE MigrationGraph_proofs -------------------------
(***************************************************************************)
(* Proofs about MigrationSorter and MigrationGraph, for all migrations,    *)
(* whatever their number, names and dependencies.                          *)
(***************************************************************************)
EXTENDS MigrationGraph, FiniteSetTheorems, SequenceTheorems, WellFoundedInduction, TLAPS

Frames == [vertex : Vertices, todo : SUBSET Vertices]

\* What is where between the steps of the search, and what it has found.
VisitInv ==
    /\ \A v \in Vertices : visited[v] = "visiting" <=> v \in OnStack
    /\ \A v \in Vertices : visited[v] = "visited" <=> \E k \in DOMAIN out : out[k] = v
    /\ \A v \in Vertices : v > root => visited[v] # "not_visited"

\* One path leads from a root to the vertex that is being visited.  The loop
\* over the neighbors of a vertex on it is at the next vertex.
StackInv ==
    /\ \A k, l \in DOMAIN stack : stack[k].vertex = stack[l].vertex => k = l
    /\ \A k \in 1 .. Len(stack) - 1 : <<stack[k].vertex, stack[k + 1].vertex>> \in edges
    /\ \A k \in DOMAIN stack : \A w \in Neighbors(stack[k].vertex) \ stack[k].todo :
          visited[w] = "visited" \/ (k < Len(stack) /\ w = stack[k + 1].vertex)
    /\ \A k \in DOMAIN stack : stack[k].todo \subseteq Neighbors(stack[k].vertex)

\* Dependents go first, and nothing twice.
OutInv ==
    /\ \A i, j \in DOMAIN out : out[i] = out[j] => i = j
    /\ \A e \in edges, j \in DOMAIN out : out[j] = e[1] =>
           \E i \in DOMAIN out : i < j /\ out[i] = e[2]

\* The order that was found is one of all vertices.
FoundInv == OutInv /\ \A v \in Vertices : \E k \in DOMAIN out : out[k] = v

Found == Reverse(out)

Placed(k) == order[k] = k

\* apply_permutation marks a position as its own when the item it is meant
\* to have is there.  The others still have their own items, but that the
\* item of the cycle's first position moves along; and each of them waits for
\* the item of another, the last of the cycle for that of the first.
PermuteInv ==
    /\ order \in Seq(Vertices) /\ Len(order) = Len(input)
    /\ outer \in Vertices /\ current \in Vertices
    /\ \A k \in Vertices : k < outer => Placed(k)
    /\ current # outer => Placed(outer) /\ ~Placed(current)
    /\ \A k \in Vertices : Placed(k) => items[k] = Found[k]
    /\ \A k \in Vertices : ~Placed(k) =>
          /\ order[k] = Found[k]
          /\ items[k] = IF k = current THEN outer ELSE k
          /\ \/ order[k] # current /\ ~Placed(order[k])
             \/ order[k] = outer /\ (current = outer => ~Placed(outer))

Started == phase \in {"search", "permute", "done"}

SortInv ==
    /\ TypeOK
    /\ IsSlice(input)
    /\ stack \in Seq(Frames) /\ out \in Seq(Vertices)
    /\ phase = "prepare" => root = Len(input) /\ stack = <<>> /\ out = <<>>
                            /\ visited = [v \in Vertices |-> "not_visited"]
    /\ phase \in {"prepare", "search"} => items = [v \in Vertices |-> v] /\ outer = 1 /\ current = 1
    /\ Started => /\ ~HasDuplicates(input) /\ ~HasInvalid(input)
                  /\ edges = GraphOf(input)
    /\ phase = "search" => VisitInv /\ StackInv /\ OutInv
    /\ phase \in {"permute", "done"} => FoundInv
    /\ phase = "permute" => PermuteInv
    /\ phase = "done" => items = Found
    /\ RefusesOnlyIllegal

-----------------------------------------------------------------------------
(* Numbers and permutations                                                *)

LEMMA LeastNumber ==
    ASSUME NEW S \in SUBSET Nat, S # {}
    PROVE  \E m \in S : \A k \in S : m <= k
<1>. DEFINE R == {ss \in Nat \X Nat : ss[1] < ss[2]}
<1>1. IsWellFoundedOn(R, Nat)
  BY NatLessThanWellFounded DEF OpToRel
<1>. HIDE DEF R
<1>2. PICK m \in S : \A k \in S : ~(<<k, m>> \in R)
  BY <1>1, WFMin
<1>3. ASSUME NEW k \in S, k < m PROVE FALSE
  <2>1. <<k, m>> \in R
    BY <1>3 DEF R
  <2>. QED BY <1>2, <2>1
<1>. QED BY <1>3

LEMMA LargestNumber ==
    ASSUME NEW n \in Nat, NEW S \in SUBSET (0 .. n), S # {}
    PROVE  \E m \in S : \A k \in S : k <= m
<1>. DEFINE T == {n - k : k \in S}
<1>1. T \in SUBSET Nat /\ T # {}
  OBVIOUS
<1>2. PICK t \in T : \A u \in T : t <= u
  BY <1>1, LeastNumber
<1>3. PICK m \in S : t = n - m
  BY <1>2
<1>4. ASSUME NEW k \in S PROVE k <= m
  <2>1. n - m <= n - k
    BY <1>2, <1>3
  <2>. QED BY <2>1
<1>. QED BY <1>4

Permutation(n, p) ==
    /\ p \in [1 .. n -> 1 .. n]
    /\ \A i, j \in 1 .. n : p[i] = p[j] => i = j

LEMMA PermutationsReachAll ==
    ASSUME NEW n \in Nat, NEW p, Permutation(n, p), NEW i \in 1 .. n
    PROVE  \E k \in 1 .. n : p[k] = i
<1>1. IsFiniteSet(1 .. n)
  BY FS_Interval
<1>2. p \in Injection(1 .. n, 1 .. n)
  BY DEF Permutation, Injection, IsInjective
<1>3. p \in Surjection(1 .. n, 1 .. n)
  BY <1>1, <1>2, FS_Injection
<1>. QED BY <1>3 DEF Surjection

\* The sequence t is s in another order.
Rearranged(s, t, p) ==
    /\ Permutation(Len(s), p)
    /\ t = [k \in 1 .. Len(s) |-> s[p[k]]]

LEMMA ComposedRearranged ==
    ASSUME NEW s, IsSlice(s), NEW t, IsSlice(t), NEW u, NEW p, NEW q,
           Rearranged(s, t, p), Rearranged(t, u, q), Len(t) = Len(s)
    PROVE  \E r : Rearranged(s, u, r)
<1>. DEFINE r == [k \in 1 .. Len(s) |-> p[q[k]]]
<1>1. Permutation(Len(s), r)
  BY DEF Rearranged, Permutation
<1>2. u = [k \in 1 .. Len(s) |-> s[r[k]]]
  BY DEF Rearranged, Permutation
<1>3. Rearranged(s, u, r)
  BY <1>1, <1>2 DEF Rearranged
<1>. QED BY <1>3

LEMMA RearrangedIsSlice ==
    ASSUME NEW s, IsSlice(s), NEW t, NEW p, Rearranged(s, t, p)
    PROVE  IsSlice(t) /\ Len(t) = Len(s)
<1>1. DOMAIN t = 1 .. Len(s) /\ Len(s) \in Nat
  BY DEF Rearranged, IsSlice
<1>2. t \in Seq({s[i] : i \in 1 .. Len(s)})
  BY <1>1, SeqDef DEF Rearranged, Permutation
<1>3. Len(t) = Len(s)
  BY <1>1, <1>2, LenProperties
<1>. QED BY <1>1, <1>3 DEF Rearranged, Permutation, IsSlice

\* What is wrong with a slice is wrong in any order.
LEMMA RearrangedKeepsFaults ==
    ASSUME NEW s, IsSlice(s), NEW t, NEW p, Rearranged(s, t, p)
    PROVE  /\ HasDuplicates(s) <=> HasDuplicates(t)
           /\ HasInvalid(s) <=> HasInvalid(t)
<1>. DEFINE n == Len(s)
<1>1. n \in Nat /\ DOMAIN s = 1 .. n /\ DOMAIN t = 1 .. n /\ Permutation(n, p)
  BY DEF IsSlice, Rearranged
<1>2. \A k \in 1 .. n : p[k] \in 1 .. n /\ t[k] = s[p[k]]
  BY <1>1 DEF Rearranged, Permutation
<1>3. \A i \in 1 .. n : \E k \in 1 .. n : p[k] = i
  BY <1>1, PermutationsReachAll
<1>4. \A i, j \in 1 .. n : p[i] = p[j] => i = j
  BY <1>1 DEF Permutation
<1>. HIDE DEF n
<1>5. HasDuplicates(s) => HasDuplicates(t)
  <2>1. SUFFICES ASSUME NEW i \in 1 .. n, NEW j \in 1 .. n, i # j,
                        Provides(s[i]) \intersect Provides(s[j]) # {}
                 PROVE  HasDuplicates(t)
    BY <1>1 DEF HasDuplicates
  <2>2. PICK k \in 1 .. n, l \in 1 .. n : p[k] = i /\ p[l] = j
    BY <1>3
  <2>3. t[k] = s[i] /\ t[l] = s[j] /\ k # l
    BY <1>2, <2>1, <2>2
  <2>4. Provides(t[k]) \intersect Provides(t[l]) # {}
    BY <2>1, <2>3
  <2>. QED BY <1>1, <2>3, <2>4 DEF HasDuplicates
<1>6. HasDuplicates(t) => HasDuplicates(s)
  <2>1. SUFFICES ASSUME NEW i \in 1 .. n, NEW j \in 1 .. n, i # j,
                        Provides(t[i]) \intersect Provides(t[j]) # {}
                 PROVE  HasDuplicates(s)
    BY <1>1 DEF HasDuplicates
  <2>2. Provides(s[p[i]]) \intersect Provides(s[p[j]]) # {} /\ p[i] # p[j]
    BY <1>2, <1>4, <2>1
  <2>. QED BY <1>1, <1>2, <2>2 DEF HasDuplicates
<1>7. HasInvalid(s) => HasInvalid(t)
  <2>1. SUFFICES ASSUME NEW i \in 1 .. n, NEW d \in s[i].deps,
                        \A j \in 1 .. n : d \notin Provides(s[j])
                 PROVE  HasInvalid(t)
    BY <1>1 DEF HasInvalid
  <2>2. PICK k \in 1 .. n : p[k] = i
    BY <1>3
  <2>3. d \in t[k].deps
    BY <1>2, <2>2
  <2>4. \A j \in 1 .. n : d \notin Provides(t[j])
    BY <1>2, <2>1
  <2>. QED BY <1>1, <2>3, <2>4 DEF HasInvalid
<1>8. HasInvalid(t) => HasInvalid(s)
  <2>1. SUFFICES ASSUME NEW i \in 1 .. n, NEW d \in t[i].deps,
                        \A j \in 1 .. n : d \notin Provides(t[j])
                 PROVE  HasInvalid(s)
    BY <1>1 DEF HasInvalid
  <2>2. d \in s[p[i]].deps
    BY <1>2
  <2>3. ASSUME NEW j \in 1 .. n PROVE d \notin Provides(s[j])
    <3>1. PICK k \in 1 .. n : p[k] = j
      BY <1>3
    <3>. QED BY <1>2, <2>1, <3>1
  <2>. QED BY <1>1, <1>2, <2>2, <2>3 DEF HasInvalid
<1>. QED BY <1>5, <1>6, <1>7, <1>8

\* Sorting by name is a rearrangement: no two positions have one rank.
LEMMA SortingRearranges ==
    ASSUME NEW s, IsSlice(s)
    PROVE  \E p : Rearranged(s, SortedByKey(s), p)
<1>. DEFINE n == Len(s)
            before(i, j) == s[i].key < s[j].key \/ (s[i].key = s[j].key /\ i <= j)
            UpTo(i) == {j \in DOMAIN s : before(j, i)}
            rank(i) == Cardinality(UpTo(i))
            ranks == [i \in 1 .. n |-> rank(i)]
            p == [k \in 1 .. n |-> CHOOSE i \in DOMAIN s : rank(i) = k]
<1>1. n \in Nat /\ DOMAIN s = 1 .. n /\ \A i \in 1 .. n : s[i].key \in Int
  BY DEF IsSlice
<1>. HIDE DEF n, rank
<1>2. IsFiniteSet(1 .. n) /\ Cardinality(1 .. n) = n
  BY <1>1, FS_Interval
<1>3. ASSUME NEW i \in 1 .. n
      PROVE  /\ UpTo(i) \in SUBSET (1 .. n) /\ IsFiniteSet(UpTo(i))
             /\ rank(i) \in 1 .. n
  <2>1. UpTo(i) \in SUBSET (1 .. n) /\ i \in UpTo(i)
    BY <1>1
  <2>. HIDE DEF UpTo
  <2>2. IsFiniteSet(UpTo(i)) /\ rank(i) <= n
    BY <1>2, <2>1, FS_Subset DEF rank
  <2>3. rank(i) \in Nat /\ rank(i) # 0
    BY <2>1, <2>2, FS_EmptySet, FS_CardinalityType DEF rank
  <2>. QED BY <1>1, <2>1, <2>2, <2>3
<1>4. ASSUME NEW i \in 1 .. n, NEW j \in 1 .. n, ~before(j, i)
      PROVE  rank(i) < rank(j)
  <2>1. before(i, j) /\ UpTo(i) \subseteq UpTo(j) /\ j \in UpTo(j) /\ j \notin UpTo(i)
    BY <1>1, <1>4
  <2>. HIDE DEF UpTo, before
  <2>2. rank(i) <= rank(j) /\ (rank(i) = rank(j) => UpTo(i) = UpTo(j))
    BY <1>3, <2>1, FS_Subset DEF rank
  <2>3. rank(i) # rank(j)
    BY <2>1, <2>2
  <2>4. rank(i) \in Nat /\ rank(j) \in Nat
    BY <1>1, <1>3
  <2>. QED BY <2>2, <2>3, <2>4
<1>. HIDE DEF UpTo
<1>5. ASSUME NEW i \in 1 .. n, NEW j \in 1 .. n, rank(i) = rank(j) PROVE i = j
  <2>1. rank(i) \in Nat /\ rank(j) \in Nat
    BY <1>1, <1>3
  <2>2. before(i, j) /\ before(j, i)
    <3>. HIDE DEF before
    <3>. QED BY <1>4, <1>5, <2>1
  <2>. QED BY <1>1, <2>2
<1>. HIDE DEF before
<1>6. Permutation(n, ranks)
  BY <1>3, <1>5 DEF Permutation
<1>7. ASSUME NEW k \in 1 .. n PROVE p[k] \in 1 .. n /\ rank(p[k]) = k
  <2>1. \E i \in 1 .. n : ranks[i] = k
    BY <1>1, <1>6, PermutationsReachAll
  <2>. QED BY <1>1, <2>1
<1>8. Permutation(n, p)
  <2>1. p \in [1 .. n -> 1 .. n]
    BY <1>7
  <2>2. \A i, j \in 1 .. n : p[i] = p[j] => i = j
    BY <1>7
  <2>. QED BY <2>1, <2>2 DEF Permutation
<1>9. SortedByKey(s) = [k \in 1 .. Len(s) |-> s[p[k]]]
  BY <1>1 DEF SortedByKey, rank, UpTo, before, n
<1>. QED BY <1>8, <1>9 DEF Rearranged, n

-----------------------------------------------------------------------------
(* Illegal slices                                                          *)

LEMMA DuplicatesAreIllegal ==
    ASSUME NEW s, IsSlice(s), NEW t, NEW p, Rearranged(s, t, p), HasDuplicates(s)
    PROVE  ~Legal(t)
BY RearrangedKeepsFaults DEF Legal

LEMMA InvalidIsIllegal ==
    ASSUME NEW s, IsSlice(s), NEW t, NEW p, Rearranged(s, t, p), HasInvalid(s)
    PROVE  ~Legal(t)
<1>1. HasInvalid(t)
  BY RearrangedKeepsFaults
<1>. QED BY <1>1 DEF HasInvalid, Legal

\* In a legal order an edge leads from an earlier to a later position.
LEMMA LegalEdges ==
    ASSUME NEW s, IsSlice(s), NEW t, NEW p, Rearranged(s, t, p), Legal(t),
           NEW a \in 1 .. Len(s), NEW b \in 1 .. Len(s), <<p[a], p[b]>> \in GraphOf(s)
    PROVE  a < b
<1>1. DOMAIN t = 1 .. Len(s) /\ Len(s) \in Nat
  BY DEF Rearranged, IsSlice
<1>2. t[a] = s[p[a]] /\ t[b] = s[p[b]]
  BY DEF Rearranged
<1>3. PICK d \in t[b].deps : d \in Provides(t[a])
  BY <1>2 DEF GraphOf
<1>4. PICK c \in 1 .. Len(s) : c < b /\ d \in Provides(t[c])
  BY <1>1 DEF Legal
<1>5. c = a
  BY <1>1, <1>3, <1>4 DEF Legal, HasDuplicates
<1>. QED BY <1>4, <1>5

\* Vertices each of which has an edge to another of them have no legal order.
LEMMA CyclesAreIllegal ==
    ASSUME NEW s, IsSlice(s), NEW t, NEW p, Rearranged(s, t, p),
           NEW C \in SUBSET (1 .. Len(s)), C # {},
           \A v \in C : \E w \in C : <<v, w>> \in GraphOf(s)
    PROVE  ~Legal(t)
<1>. SUFFICES ASSUME Legal(t) PROVE FALSE
  OBVIOUS
<1>. DEFINE n == Len(s)
            At == {k \in 1 .. n : p[k] \in C}
<1>1. n \in Nat /\ Permutation(n, p)
  BY DEF IsSlice, Rearranged
<1>2. \A v \in C : \E k \in 1 .. n : p[k] = v
  BY <1>1, PermutationsReachAll
<1>3. At \in SUBSET (0 .. n) /\ At # {}
  <2>1. At \subseteq 1 .. n /\ 1 .. n \subseteq 0 .. n
    BY <1>1
  <2>2. PICK v \in C : TRUE
    OBVIOUS
  <2>3. PICK k \in 1 .. n : p[k] = v
    BY <1>2
  <2>. QED BY <2>1, <2>3
<1>4. PICK a \in At : \A k \in At : k <= a
  BY <1>1, <1>3, LargestNumber
<1>5. PICK w \in C : <<p[a], w>> \in GraphOf(s)
  BY <1>4
<1>6. PICK b \in At : p[b] = w
  BY <1>2
<1>7. a < b
  BY <1>5, <1>6, LegalEdges
<1>. QED BY <1>1, <1>4, <1>7

-----------------------------------------------------------------------------
(* The beginning, and sorting by name                                      *)

LEMMA SortInit == Init => SortInv
<1>. SUFFICES ASSUME Init PROVE SortInv
  OBVIOUS
<1>1. IsSlice(input)
  BY InputsAssumption DEF Init
<1>2. TypeOK
  BY <1>1 DEF Init, TypeOK, Vertices, IsSlice
<1>. QED BY <1>1, <1>2 DEF Init, SortInv, Started, RefusesOnlyIllegal, Errors

LEMMA PrepareSorts ==
    ASSUME SortInv, Prepare
    PROVE  SortInv'
<1>1. IsSlice(input) /\ TypeOK /\ phase = "prepare"
  BY DEF SortInv, Prepare
<1>2. PICK p : Rearranged(input, input', p)
  BY <1>1, SortingRearranges DEF Prepare
<1>3. IsSlice(input') /\ Len(input') = Len(input)
  BY <1>1, <1>2, RearrangedIsSlice
<1>4. Vertices' = Vertices
  BY <1>1, <1>3 DEF Vertices, IsSlice
<1>5. edges' = GraphOf(input') /\ edges' \subseteq Vertices' \X Vertices'
  BY DEF Prepare, GraphOf, Vertices
<1>6. TypeOK'
  <2>1. phase' \in {"search", "duplicate", "invalid"}
    BY DEF Prepare
  <2>2. UNCHANGED <<root, visited, stack, out, items, outer, current>>
    BY DEF Prepare
  <2>. QED BY <1>1, <1>3, <1>4, <1>5, <2>1, <2>2 DEF TypeOK, Errors
<1>7. stack' \in Seq(Frames') /\ out' \in Seq(Vertices')
  BY <1>4 DEF SortInv, Prepare, Frames
<1>8. Started' => ~HasDuplicates(input') /\ ~HasInvalid(input')
  <2>1. Started' => ~HasDuplicates(input) /\ ~HasInvalid(input)
    BY DEF Started, Prepare
  <2>. QED BY <1>1, <1>2, <2>1, RearrangedKeepsFaults
<1>9. RefusesOnlyIllegal'
  <2>1. SUFFICES ASSUME phase' \in Errors, NEW f \in [Vertices' -> Vertices'],
                        \A i, j \in Vertices' : f[i] = f[j] => i = j
                 PROVE  ~Legal(Permuted(input', f))
    BY DEF RefusesOnlyIllegal
  <2>2. Rearranged(input', Permuted(input', f), f)
    BY <1>3, <2>1 DEF Rearranged, Permutation, Permuted, Vertices, IsSlice
  <2>3. IsSlice(Permuted(input', f))
    BY <1>3, <2>2, RearrangedIsSlice
  <2>4. PICK r : Rearranged(input, Permuted(input', f), r)
    BY <1>1, <1>2, <1>3, <2>2, ComposedRearranged
  <2>5. HasDuplicates(input) \/ HasInvalid(input)
    BY <2>1 DEF Prepare, Errors
  <2>. QED BY <1>1, <2>4, <2>5, DuplicatesAreIllegal, InvalidIsIllegal
<1>10. phase' = "search" => VisitInv' /\ StackInv' /\ OutInv'
  <2>1. /\ stack' = <<>> /\ out' = <<>> /\ root' = Len(input')
        /\ visited' = [v \in Vertices' |-> "not_visited"]
    BY <1>1, <1>3, <1>4 DEF SortInv, Prepare
  <2>2. VisitInv'
    BY <1>3, <2>1 DEF VisitInv, OnStack, Vertices, IsSlice
  <2>3. StackInv' /\ OutInv'
    BY <2>1 DEF StackInv, OutInv
  <2>. QED BY <2>2, <2>3
<1>11. phase' \notin {"prepare", "permute", "done"}
  BY DEF Prepare
<1>12. items' = [v \in Vertices' |-> v] /\ outer' = 1 /\ current' = 1
  BY <1>1, <1>4 DEF SortInv, Prepare
<1>. QED BY <1>3, <1>5, <1>6, <1>7, <1>8, <1>9, <1>10, <1>11, <1>12 DEF SortInv

-----------------------------------------------------------------------------
(* The search                                                              *)

LEMMA StackType ==
    ASSUME SortInv
    PROVE  /\ Len(stack) \in Nat /\ DOMAIN stack = 1 .. Len(stack)
           /\ \A k \in 1 .. Len(stack) : stack[k] \in Frames
           /\ Len(out) \in Nat /\ DOMAIN out = 1 .. Len(out)
           /\ \A k \in 1 .. Len(out) : out[k] \in Vertices
           /\ Len(input) \in Nat /\ Vertices = 1 .. Len(input)
BY DEF SortInv, IsSlice, Vertices

\* What has to be shown of a step of the search.
LEMMA SearchStep ==
    ASSUME SortInv, phase = "search", phase' = "search",
           UNCHANGED <<input, edges, items, outer, current>>,
           root' \in 0 .. Len(input),
           visited' \in [Vertices -> {"not_visited", "visiting", "visited"}],
           stack' \in Seq(Frames), out' \in Seq(Vertices),
           VisitInv', StackInv', OutInv'
    PROVE  SortInv'
<1>1. Vertices' = Vertices /\ Frames' = Frames /\ Started' = Started
  BY DEF Vertices, Frames, Started
<1>2. TypeOK'
  <2>1. \A k \in DOMAIN stack' : stack'[k] \in Frames
    OBVIOUS
  <2>2. \A k \in DOMAIN out' : out'[k] \in Vertices
    OBVIOUS
  <2>. QED BY <1>1, <2>1, <2>2 DEF SortInv, TypeOK, Frames
<1>3. RefusesOnlyIllegal'
  BY DEF RefusesOnlyIllegal, Errors
<1>. QED BY <1>1, <1>2, <1>3 DEF SortInv

\* What the loops over roots and neighbors leave on the stack when they enter
\* v: the last frame no longer has v to do.
EntersFrom(v, rest) ==
    /\ v \in Vertices /\ rest \in Seq(Frames) /\ Len(rest) = Len(stack)
    /\ \A k \in 1 .. Len(stack) :
          /\ rest[k].vertex = stack[k].vertex
          /\ rest[k].todo \subseteq Neighbors(stack[k].vertex)
          /\ \A w \in Neighbors(stack[k].vertex) \ rest[k].todo :
                \/ visited[w] = "visited"
                \/ k < Len(stack) /\ w = stack[k + 1].vertex
                \/ k = Len(stack) /\ w = v
    /\ stack # <<>> => <<stack[Len(stack)].vertex, v>> \in edges
    /\ \A x \in Vertices : x > root' => visited[x] # "not_visited" \/ x = v

LEMMA EnterVisited ==
    ASSUME SortInv, phase = "search", NEW v, NEW rest, EntersFrom(v, rest), root' \in 0 .. Len(input),
           visited[v] = "visited", stack' = rest,
           UNCHANGED <<input, edges, out, items, outer, current, visited, phase>>
    PROVE  SortInv'
<1>1. Vertices' = Vertices /\ \A x \in Vertices : Neighbors(x)' = Neighbors(x)
  BY DEF Vertices, Neighbors
<1>2. VisitInv /\ StackInv /\ OutInv /\ TypeOK
  BY DEF SortInv
<1>3. DOMAIN rest = 1 .. Len(stack) /\ DOMAIN stack = 1 .. Len(stack) /\ Len(stack) \in Nat
  BY StackType DEF EntersFrom
<1>4. OnStack' = OnStack
  <2>1. OnStack = {stack[k].vertex : k \in 1 .. Len(stack)}
    BY <1>3 DEF OnStack
  <2>2. OnStack' = {rest[k].vertex : k \in 1 .. Len(stack)}
    BY <1>3 DEF OnStack
  <2>3. \A k \in 1 .. Len(stack) : rest[k].vertex = stack[k].vertex
    BY DEF EntersFrom
  <2>. QED BY <2>1, <2>2, <2>3
<1>5. VisitInv'
  BY <1>1, <1>2, <1>4 DEF VisitInv, EntersFrom
<1>6. StackInv'
  <2>1. \A k \in 1 .. Len(stack) : stack[k].vertex \in Vertices
    BY StackType DEF Frames
  <2>2. \A k, l \in 1 .. Len(stack) : rest[k].vertex = rest[l].vertex => k = l
    BY <1>2, <1>3 DEF StackInv, EntersFrom
  <2>3. ASSUME NEW k \in 1 .. Len(stack) - 1
        PROVE  <<rest[k].vertex, rest[k + 1].vertex>> \in edges
    <3>1. k \in 1 .. Len(stack) /\ k + 1 \in 1 .. Len(stack)
      BY <1>3
    <3>2. rest[k].vertex = stack[k].vertex /\ rest[k + 1].vertex = stack[k + 1].vertex
      BY <3>1 DEF EntersFrom
    <3>. QED BY <1>2, <3>2 DEF StackInv
  <2>4. ASSUME NEW k \in 1 .. Len(stack), NEW w \in Neighbors(rest[k].vertex) \ rest[k].todo
        PROVE  visited[w] = "visited" \/ (k < Len(stack) /\ w = rest[k + 1].vertex)
    <3>1. k < Len(stack) => k + 1 \in 1 .. Len(stack)
      BY <1>3
    <3>2. rest[k].vertex = stack[k].vertex
      BY DEF EntersFrom
    <3>3. k < Len(stack) => rest[k + 1].vertex = stack[k + 1].vertex
      BY <3>1 DEF EntersFrom
    <3>4. \/ visited[w] = "visited"
          \/ k < Len(stack) /\ w = stack[k + 1].vertex
          \/ k = Len(stack) /\ w = v
      BY <3>2 DEF EntersFrom
    <3>. QED BY <3>3, <3>4
  <2>5. \A k \in 1 .. Len(stack) : rest[k].todo \subseteq Neighbors(rest[k].vertex)
    BY DEF EntersFrom
  <2>6. Len(rest) = Len(stack)
    BY DEF EntersFrom
  <2>7. \A k \in 1 .. Len(stack) : Neighbors(rest[k].vertex)' = Neighbors(rest[k].vertex)
    BY DEF Neighbors, Vertices
  <2>. QED BY <1>3, <2>2, <2>3, <2>4, <2>5, <2>6, <2>7 DEF StackInv
<1>7. OutInv'
  BY <1>2 DEF OutInv
<1>. QED BY <1>2, <1>5, <1>6, <1>7, SearchStep DEF EntersFrom, SortInv, TypeOK

LEMMA EnterNew ==
    ASSUME SortInv, phase = "search", NEW v, NEW rest, EntersFrom(v, rest), root' \in 0 .. Len(input),
           visited[v] = "not_visited",
           visited' = [visited EXCEPT ![v] = "visiting"],
           stack' = Append(rest, [vertex |-> v, todo |-> Neighbors(v)]),
           UNCHANGED <<input, edges, out, items, outer, current, phase>>
    PROVE  SortInv'
<1>. DEFINE n == Len(stack)
            frame == [vertex |-> v, todo |-> Neighbors(v)]
<1>1. VisitInv /\ StackInv /\ OutInv /\ TypeOK
  BY DEF SortInv
<1>2. /\ n \in Nat /\ DOMAIN stack = 1 .. n /\ v \in Vertices
      /\ \A k \in 1 .. n : stack[k].vertex \in Vertices
  BY StackType DEF EntersFrom, Frames
<1>3. /\ stack' \in Seq(Frames) /\ Len(stack') = n + 1 /\ DOMAIN stack' = 1 .. n + 1
      /\ \A k \in 1 .. n : stack'[k] = rest[k]
      /\ stack'[n + 1] = frame
  <2>1. rest \in Seq(Frames) /\ Len(rest) = n /\ frame \in Frames
    BY <1>2 DEF EntersFrom, Frames, Neighbors
  <2>. QED BY <1>2, <2>1, AppendProperties, LenProperties
<1>4. \A k \in 1 .. n : stack'[k].vertex = stack[k].vertex /\ stack[k].vertex # v
  <2>1. \A k \in 1 .. n : visited[stack[k].vertex] = "visiting"
    BY <1>1, <1>2 DEF VisitInv, OnStack
  <2>. QED BY <1>3, <2>1 DEF EntersFrom
<1>5. Vertices' = Vertices /\ \A x : Neighbors(x)' = Neighbors(x)
  BY DEF Vertices, Neighbors
<1>6. \A x \in Vertices : visited'[x] = IF x = v THEN "visiting" ELSE visited[x]
  BY <1>1 DEF TypeOK
<1>7. OnStack' = OnStack \union {v}
  <2>1. OnStack' = {stack'[k].vertex : k \in 1 .. n + 1}
    BY <1>3 DEF OnStack
  <2>2. 1 .. n + 1 = (1 .. n) \union {n + 1}
    BY <1>2
  <2>3. stack'[n + 1].vertex = v
    BY <1>3
  <2>4. OnStack = {stack[k].vertex : k \in 1 .. n}
    BY <1>2 DEF OnStack
  <2>. HIDE DEF n
  <2>5. OnStack' = {stack'[k].vertex : k \in 1 .. n} \union {v}
    BY <2>1, <2>2, <2>3
  <2>. QED BY <1>4, <2>4, <2>5
<1>8. VisitInv'
  BY <1>1, <1>2, <1>5, <1>6, <1>7 DEF VisitInv, EntersFrom
<1>9. StackInv'
  <2>1. \A k, l \in 1 .. n + 1 : stack'[k].vertex = stack'[l].vertex => k = l
    <3>1. \A k, l \in 1 .. n : stack'[k].vertex = stack'[l].vertex => k = l
      BY <1>1, <1>2, <1>4 DEF StackInv
    <3>2. stack'[n + 1].vertex = v
      BY <1>3
    <3>3. \A k \in 1 .. n + 1 : k \in 1 .. n \/ k = n + 1
      BY <1>2
    <3>4. \A k \in 1 .. n : stack'[k].vertex # v
      BY <1>4
    <3>. HIDE DEF n
    <3>. QED BY <3>1, <3>2, <3>3, <3>4
  <2>2. ASSUME NEW k \in 1 .. n PROVE <<stack'[k].vertex, stack'[k + 1].vertex>> \in edges
    <3>1. CASE k < n
      <4>1. k \in 1 .. n - 1 /\ k + 1 \in 1 .. n
        BY <1>2, <3>1
      <4>2. <<stack[k].vertex, stack[k + 1].vertex>> \in edges
        BY <1>1, <4>1 DEF StackInv
      <4>. QED BY <1>4, <4>1, <4>2
    <3>2. CASE k = n
      <4>1. stack # <<>> /\ stack'[n + 1].vertex = v
        BY <1>2, <1>3, <3>2
      <4>. QED BY <1>4, <3>2, <4>1 DEF EntersFrom
    <3>3. k < n \/ k = n
      <4>1. n \in Nat
        BY <1>2
      <4>. HIDE DEF n
      <4>. QED BY <4>1
    <3>. QED BY <3>1, <3>2, <3>3
  <2>3. ASSUME NEW k \in 1 .. n, NEW w \in Neighbors(stack'[k].vertex) \ stack'[k].todo
        PROVE  visited'[w] = "visited" \/ w = stack'[k + 1].vertex
    <3>1. w \in Vertices /\ w \in Neighbors(stack[k].vertex) \ rest[k].todo
      BY <1>3, <1>4 DEF Neighbors
    <3>2. CASE visited[w] = "visited"
      BY <1>6, <3>1, <3>2
    <3>3. CASE k < n /\ w = stack[k + 1].vertex
      BY <1>2, <1>4, <3>3
    <3>4. CASE k = n /\ w = v
      BY <1>3, <3>4
    <3>. QED BY <3>1, <3>2, <3>3, <3>4 DEF EntersFrom
  <2>4. \A k \in 1 .. n : stack'[k].todo \subseteq Neighbors(stack'[k].vertex)
    BY <1>3, <1>4 DEF EntersFrom
  <2>5. stack'[n + 1].todo = Neighbors(v) /\ stack'[n + 1].vertex = v
    BY <1>3
  <2>6. \A k \in 1 .. n + 1 : k = n + 1 \/ (k \in 1 .. n /\ k < n + 1)
    BY <1>2
  <2>7. n + 1 - 1 = n
    BY <1>2
  <2>. QED BY <1>3, <1>5, <2>1, <2>2, <2>3, <2>4, <2>5, <2>6, <2>7, SMTT(40) DEF StackInv
<1>10. OutInv'
  BY <1>1 DEF OutInv
<1>11. visited' \in [Vertices -> {"not_visited", "visiting", "visited"}]
  BY <1>1 DEF TypeOK
<1>. QED BY <1>1, <1>3, <1>8, <1>9, <1>10, <1>11, SearchStep DEF SortInv

\* The path from v along the stack leads back to v.
LEMMA EnterVisiting ==
    ASSUME SortInv, phase = "search", NEW v, NEW rest, EntersFrom(v, rest), root' \in 0 .. Len(input),
           visited[v] = "visiting", phase' = "cycle", stack' = rest,
           UNCHANGED <<input, edges, out, items, outer, current, visited>>
    PROVE  SortInv'
<1>. DEFINE n == Len(stack)
<1>1. VisitInv /\ StackInv /\ TypeOK /\ IsSlice(input) /\ edges = GraphOf(input)
  BY DEF SortInv, Started
<1>2. /\ n \in Nat /\ DOMAIN stack = 1 .. n /\ Vertices = 1 .. Len(input)
      /\ \A k \in 1 .. n : stack[k].vertex \in Vertices
  BY StackType DEF Frames
<1>3. PICK k \in 1 .. n : stack[k].vertex = v
  BY <1>1, <1>2 DEF VisitInv, OnStack, EntersFrom
<1>. DEFINE C == {stack[l].vertex : l \in k .. n}
<1>4. C \in SUBSET (1 .. Len(input)) /\ C # {}
  BY <1>2, <1>3
<1>5. ASSUME NEW x \in C PROVE \E y \in C : <<x, y>> \in GraphOf(input)
  <2>1. PICK l \in k .. n : x = stack[l].vertex
    OBVIOUS
  <2>2. CASE l < n
    <3>1. l \in 1 .. n - 1 /\ l + 1 \in k .. n
      BY <1>2, <2>2
    <3>2. <<stack[l].vertex, stack[l + 1].vertex>> \in edges
      BY <1>1, <3>1 DEF StackInv
    <3>. QED BY <1>1, <2>1, <3>1, <3>2
  <2>3. CASE l = n
    <3>1. stack # <<>> /\ n \in k .. n
      BY <1>2, <2>3
    <3>2. <<stack[n].vertex, v>> \in edges
      BY <3>1 DEF EntersFrom
    <3>3. v \in C
      BY <1>2, <1>3
    <3>. QED BY <1>1, <2>1, <2>3, <3>2, <3>3
  <2>4. l < n \/ l = n
    <3>1. n \in Nat /\ k \in Nat
      BY <1>2
    <3>. HIDE DEF n, C
    <3>. QED BY <3>1
  <2>. QED BY <2>2, <2>3, <2>4
<1>6. ASSUME NEW f \in [Vertices -> Vertices], \A i, j \in Vertices : f[i] = f[j] => i = j
      PROVE  ~Legal(Permuted(input, f))
  <2>1. Rearranged(input, Permuted(input, f), f)
    BY <1>1, <1>2, <1>6 DEF Rearranged, Permutation, Permuted, IsSlice
  <2>. HIDE DEF C
  <2>. QED BY <1>1, <1>4, <1>5, <2>1, CyclesAreIllegal
<1>7. Vertices' = Vertices
  BY DEF Vertices
<1>8. RefusesOnlyIllegal'
  BY <1>6, <1>7 DEF RefusesOnlyIllegal, Vertices, Permuted
<1>9. TypeOK'
  <2>1. \A j \in DOMAIN rest : rest[j] \in Frames
    BY DEF EntersFrom
  <2>. QED BY <1>1, <1>7, <2>1 DEF TypeOK, Frames, Errors
<1>10. stack' \in Seq(Frames') /\ out' \in Seq(Vertices')
  BY <1>7 DEF SortInv, EntersFrom, Frames
<1>. QED BY <1>1, <1>8, <1>9, <1>10 DEF SortInv, Started

LEMMA EnterKeeps ==
    ASSUME SortInv, phase = "search", NEW v, NEW rest, EntersFrom(v, rest), Enter(v, rest),
           root' \in 0 .. Len(input),
           UNCHANGED <<input, edges, out, items, outer, current>>
    PROVE  SortInv'
<1>1. visited[v] \in {"not_visited", "visiting", "visited"}
  BY DEF SortInv, TypeOK, EntersFrom
<1>2. CASE visited[v] = "visited"
  BY <1>2, EnterVisited DEF Enter
<1>3. CASE visited[v] = "visiting"
  BY <1>3, EnterVisiting DEF Enter
<1>4. CASE visited[v] = "not_visited"
  BY <1>4, EnterNew DEF Enter
<1>. QED BY <1>1, <1>2, <1>3, <1>4

LEMMA VisitRootKeeps ==
    ASSUME SortInv, VisitRoot
    PROVE  SortInv'
<1>1. phase = "search" /\ stack = <<>> /\ root >= 1 /\ root' = root - 1
  BY DEF VisitRoot
<1>2. root \in 0 .. Len(input) /\ Len(input) \in Nat /\ Vertices = 1 .. Len(input)
  BY StackType DEF SortInv, TypeOK
<1>3. \A x \in Vertices : x > root => visited[x] # "not_visited"
  BY <1>1 DEF SortInv, VisitInv
<1>4. EntersFrom(root, <<>>)
  <2>1. root \in Vertices /\ \A x \in Vertices : x > root' => x > root \/ x = root
    BY <1>1, <1>2
  <2>. QED BY <1>1, <1>3, <2>1 DEF EntersFrom
<1>. QED BY <1>1, <1>2, <1>4, EnterKeeps DEF VisitRoot

LEMMA VisitNeighborKeeps ==
    ASSUME SortInv, VisitNeighbor
    PROVE  SortInv'
<1>. DEFINE n == Len(stack)
<1>1. phase = "search" /\ stack # <<>> /\ root' = root /\ VisitInv /\ StackInv /\ TypeOK
  BY DEF VisitNeighbor, SortInv
<1>2. n \in Nat /\ DOMAIN stack = 1 .. n /\ stack \in Seq(Frames) /\ n \in 1 .. n
  BY <1>1, StackType DEF SortInv
<1>3. PICK w \in stack[n].todo : Enter(w, [stack EXCEPT ![n].todo = @ \ {w}])
  BY DEF VisitNeighbor, Last
<1>. DEFINE rest == [stack EXCEPT ![n].todo = @ \ {w}]
<1>4. stack[n] \in Frames /\ stack[n].todo \subseteq Neighbors(stack[n].vertex)
  BY <1>1, <1>2, StackType DEF StackInv
<1>5. w \in Vertices /\ <<stack[n].vertex, w>> \in edges
  BY <1>4 DEF Neighbors
<1>6. /\ rest \in Seq(Frames) /\ Len(rest) = n
      /\ \A k \in 1 .. n : rest[k] = IF k = n THEN [stack[n] EXCEPT !.todo = @ \ {w}] ELSE stack[k]
  <2>1. [stack[n] EXCEPT !.todo = @ \ {w}] \in Frames
    BY <1>4 DEF Frames
  <2>. QED BY <1>2, <2>1, ExceptSeq
<1>7. \A k \in 1 .. n : /\ rest[k].vertex = stack[k].vertex
                        /\ rest[k].todo = IF k = n THEN stack[n].todo \ {w} ELSE stack[k].todo
  BY <1>4, <1>6 DEF Frames
<1>8. EntersFrom(w, rest)
  <2>. HIDE DEF rest
  <2>1. ASSUME NEW k \in 1 .. n, NEW x \in Neighbors(stack[k].vertex) \ rest[k].todo
        PROVE  \/ visited[x] = "visited"
               \/ k < n /\ x = stack[k + 1].vertex
               \/ k = n /\ x = w
    <3>1. (k = n /\ x = w) \/ x \notin stack[k].todo
      BY <1>7
    <3>. QED BY <1>1, <1>2, <3>1 DEF StackInv
  <2>2. \A k \in 1 .. n : rest[k].todo \subseteq Neighbors(stack[k].vertex)
    BY <1>1, <1>2, <1>7 DEF StackInv
  <2>3. \A x \in Vertices : x > root' => visited[x] # "not_visited"
    BY <1>1 DEF VisitInv
  <2>. QED BY <1>5, <1>6, <1>7, <2>1, <2>2, <2>3 DEF EntersFrom
<1>9. root' \in 0 .. Len(input)
  BY <1>1 DEF TypeOK
<1>. QED BY <1>1, <1>3, <1>8, <1>9, EnterKeeps DEF VisitNeighbor

LEMMA LeaveKeeps ==
    ASSUME SortInv, Leave
    PROVE  SortInv'
<1>. DEFINE n == Len(stack)
            m == Len(out)
            v == stack[n].vertex
<1>1. /\ phase = "search" /\ stack # <<>> /\ stack[n].todo = {}
      /\ VisitInv /\ StackInv /\ OutInv /\ TypeOK
      /\ visited' = [visited EXCEPT ![v] = "visited"]
  BY DEF Leave, SortInv, Last
<1>2. /\ n \in Nat /\ DOMAIN stack = 1 .. n /\ stack \in Seq(Frames) /\ n \in 1 .. n
      /\ \A k \in 1 .. n : stack[k] \in Frames
      /\ m \in Nat /\ DOMAIN out = 1 .. m /\ out \in Seq(Vertices)
  BY <1>1, StackType DEF SortInv
<1>3. v \in Vertices /\ visited[v] = "visiting"
  BY <1>1, <1>2 DEF VisitInv, OnStack, Frames
<1>4. /\ out' \in Seq(Vertices) /\ Len(out') = m + 1 /\ DOMAIN out' = 1 .. m + 1
      /\ \A i \in 1 .. m : out'[i] = out[i]
      /\ out'[m + 1] = v
  <2>1. out' = Append(out, v)
    BY DEF Leave, Last
  <2>. QED BY <1>2, <1>3, <2>1, AppendProperties, LenProperties
<1>5. /\ stack' \in Seq(Frames) /\ Len(stack') = n - 1 /\ DOMAIN stack' = 1 .. n - 1
      /\ \A k \in 1 .. n - 1 : stack'[k] = stack[k]
  <2>1. stack' = SubSeq(stack, 1, n - 1)
    BY DEF Leave, Front
  <2>. QED BY <1>2, <2>1, SubSeqProperties, LenProperties
<1>. HIDE DEF n, m, v
<1>6. Vertices' = Vertices /\ edges' = edges /\ \A x : Neighbors(x)' = Neighbors(x)
  BY DEF Vertices, Neighbors, Leave
<1>7. \A x \in Vertices : visited'[x] = IF x = v THEN "visited" ELSE visited[x]
  BY <1>1 DEF TypeOK
<1>8. \A k \in 1 .. n - 1 : k \in 1 .. n /\ k # n /\ stack[k].vertex # v
  BY <1>1, <1>2 DEF StackInv, v
<1>9. OnStack' = OnStack \ {v}
  <2>1. OnStack' = {stack[k].vertex : k \in 1 .. n - 1}
    BY <1>5 DEF OnStack
  <2>2. OnStack = {stack[k].vertex : k \in 1 .. n}
    BY <1>2 DEF OnStack
  <2>3. \A k \in 1 .. n : k \in 1 .. n - 1 \/ k = n
    BY <1>2
  <2>. QED BY <1>8, <2>1, <2>2, <2>3 DEF v
<1>10. VisitInv'
  <2>1. ASSUME NEW x \in Vertices
        PROVE  visited'[x] = "visited" <=> \E i \in DOMAIN out' : out'[i] = x
    <3>1. visited[x] = "visited" <=> \E i \in 1 .. m : out[i] = x
      BY <1>1, <1>2 DEF VisitInv
    <3>2. \A i \in 1 .. m + 1 : i \in 1 .. m \/ i = m + 1
      BY <1>2
    <3>3. 1 .. m \subseteq 1 .. m + 1 /\ m + 1 \in 1 .. m + 1
      BY <1>2
    <3>. QED BY <1>4, <1>7, <3>1, <3>2, <3>3
  <2>2. \A x \in Vertices : visited'[x] = "visiting" <=> x \in OnStack'
    BY <1>1, <1>7, <1>9 DEF VisitInv
  <2>3. \A x \in Vertices : x > root' => visited'[x] # "not_visited"
    BY <1>1, <1>7 DEF VisitInv, Leave
  <2>. QED BY <1>6, <2>1, <2>2, <2>3 DEF VisitInv
<1>11. StackInv'
  <2>1. ASSUME NEW k \in 1 .. n - 1, NEW w \in Neighbors(stack[k].vertex) \ stack[k].todo
        PROVE  visited'[w] = "visited" \/ (k < n - 1 /\ w = stack[k + 1].vertex)
    <3>1. w \in Vertices
      BY DEF Neighbors
    <3>2. visited[w] = "visited" \/ w = stack[k + 1].vertex
      BY <1>1, <1>2, <1>8 DEF StackInv
    <3>3. k = n - 1 \/ k < n - 1
      BY <1>2
    <3>4. k = n - 1 => stack[k + 1].vertex = v
      BY <1>2 DEF v
    <3>. QED BY <1>7, <3>1, <3>2, <3>3, <3>4
  <2>2. ASSUME NEW k \in 1 .. n - 1 - 1
        PROVE  <<stack'[k].vertex, stack'[k + 1].vertex>> \in edges
    <3>1. k \in 1 .. n - 1 /\ k + 1 \in 1 .. n - 1
      BY <1>2
    <3>. QED BY <1>1, <1>5, <3>1 DEF StackInv, n
  <2>3. \A k, l \in 1 .. n - 1 : stack'[k].vertex = stack'[l].vertex => k = l
    BY <1>1, <1>2, <1>5, <1>8 DEF StackInv
  <2>4. \A k \in 1 .. n - 1 : stack'[k].todo \subseteq Neighbors(stack'[k].vertex)
    BY <1>1, <1>2, <1>5, <1>8 DEF StackInv
  <2>5. \A k \in 1 .. n - 1 : \A w \in Neighbors(stack'[k].vertex) \ stack'[k].todo :
           visited'[w] = "visited" \/ (k < n - 1 /\ w = stack'[k + 1].vertex)
    <3>1. \A k \in 1 .. n - 1 : k < n - 1 => k + 1 \in 1 .. n - 1
      BY <1>2
    <3>. QED BY <1>5, <2>1, <3>1
  <2>. QED BY <1>5, <1>6, <2>2, <2>3, <2>4, <2>5 DEF StackInv
<1>12. OutInv'
  <2>1. \A i \in 1 .. m : out[i] # v
    BY <1>1, <1>2, <1>3 DEF VisitInv
  <2>2. \A i \in 1 .. m + 1 : i \in 1 .. m \/ i = m + 1
    BY <1>2
  <2>3. \A i, j \in 1 .. m + 1 : out'[i] = out'[j] => i = j
    BY <1>1, <1>2, <1>4, <2>1, <2>2 DEF OutInv
  <2>4. ASSUME NEW e \in edges, NEW j \in 1 .. m + 1, out'[j] = e[1]
        PROVE  \E i \in 1 .. m + 1 : i < j /\ out'[i] = e[2]
    <3>1. 1 .. m \subseteq 1 .. m + 1 /\ \A i \in 1 .. m : i < m + 1
      BY <1>2
    <3>2. CASE j \in 1 .. m
      <4>1. PICK i \in 1 .. m : i < j /\ out[i] = e[2]
        BY <1>1, <1>2, <1>4, <2>4, <3>2 DEF OutInv
      <4>. QED BY <1>4, <3>1, <4>1
    <3>3. CASE j = m + 1
      <4>1. e \in Vertices \X Vertices /\ e[1] = v
        BY <1>1, <1>4, <2>4, <3>3 DEF TypeOK
      <4>2. e = <<v, e[2]>> /\ e[2] \in Vertices
        BY <4>1
      <4>3. e[2] \in Neighbors(v)
        BY <4>2 DEF Neighbors
      <4>4. visited[e[2]] = "visited"
        <5>1. v = stack[n].vertex /\ stack[n].todo = {}
          BY <1>1 DEF v, n
        <5>. QED BY <1>1, <1>2, <4>3, <5>1 DEF StackInv, n
      <4>5. PICK i \in 1 .. m : out[i] = e[2]
        BY <1>1, <1>2, <4>2, <4>4 DEF VisitInv
      <4>. QED BY <1>4, <3>1, <3>3, <4>5
    <3>. QED BY <2>2, <3>2, <3>3
  <2>. QED BY <1>4, <1>6, <2>3, <2>4 DEF OutInv
<1>13. visited' \in [Vertices -> {"not_visited", "visiting", "visited"}]
  BY <1>1 DEF TypeOK
<1>. QED BY <1>1, <1>4, <1>5, <1>10, <1>11, <1>12, <1>13, SearchStep DEF Leave, SortInv, TypeOK

-----------------------------------------------------------------------------
(* The permutation                                                         *)

LEMMA FoundReversed ==
    ASSUME SortInv
    PROVE  /\ DOMAIN Found = 1 .. Len(out) /\ Len(Found) = Len(out)
           /\ \A k \in 1 .. Len(out) : /\ Len(out) - k + 1 \in 1 .. Len(out)
                                       /\ Found[k] = out[Len(out) - k + 1]
                                       /\ Found[k] \in Vertices
<1>. DEFINE m == Len(out)
<1>1. m \in Nat /\ \A k \in 1 .. m : out[k] \in Vertices
  BY StackType
<1>2. \A k \in 1 .. m : m - k + 1 \in 1 .. m
  BY <1>1
<1>3. Found = [k \in 1 .. m |-> out[m - k + 1]]
  BY DEF Found, Reverse
<1>4. Found \in [1 .. m -> Vertices]
  BY <1>1, <1>2, <1>3
<1>5. Len(Found) = m
  BY <1>1, <1>4, SeqDef, LenProperties
<1>. QED BY <1>2, <1>3, <1>4, <1>5

\* All vertices were found, so the order found is a permutation.
LEMMA FoundPermutes ==
    ASSUME SortInv, FoundInv
    PROVE  Len(out) = Len(input) /\ Permutation(Len(input), Found)
<1>. DEFINE m == Len(out)
            n == Len(input)
<1>1. /\ m \in Nat /\ DOMAIN out = 1 .. m /\ \A k \in 1 .. m : out[k] \in Vertices
      /\ n \in Nat /\ Vertices = 1 .. n
      /\ out \in [1 .. m -> Vertices]
  BY StackType, LenProperties DEF SortInv
<1>2. out \in Injection(1 .. m, Vertices)
  BY <1>1 DEF FoundInv, OutInv, Injection, IsInjective
<1>3. out \in Surjection(1 .. m, Vertices)
  BY <1>1 DEF FoundInv, Surjection
<1>4. ExistsBijection(1 .. m, Vertices)
  BY <1>2, <1>3 DEF Bijection, ExistsBijection
<1>5. /\ IsFiniteSet(1 .. m) /\ Cardinality(1 .. m) = m
      /\ Cardinality(1 .. n) = n
  <2>1. \A x \in Nat : IsFiniteSet(1 .. x) /\ Cardinality(1 .. x) = x
    BY FS_Interval
  <2>. QED BY <1>1, <2>1
<1>6. m = n
  BY <1>1, <1>4, <1>5, FS_Bijection
<1>. HIDE DEF m, n
<1>7. ASSUME NEW i \in 1 .. n, NEW j \in 1 .. n, Found[i] = Found[j] PROVE i = j
  <2>1. /\ m - i + 1 \in 1 .. m /\ m - j + 1 \in 1 .. m
        /\ out[m - i + 1] = out[m - j + 1]
    BY <1>6, <1>7, FoundReversed DEF m
  <2>2. m - i + 1 = m - j + 1
    BY <1>1, <2>1 DEF FoundInv, OutInv
  <2>. QED BY <1>1, <2>2
<1>8. Found \in [1 .. n -> 1 .. n]
  <2>1. Found = [k \in 1 .. m |-> out[m - k + 1]]
    BY DEF Found, Reverse, m
  <2>. QED BY <1>1, <1>6, <2>1, FoundReversed DEF m
<1>. QED BY <1>6, <1>7, <1>8 DEF Permutation, m, n

\* What has to be shown of a step after the search.
LEMMA PermuteStep ==
    ASSUME SortInv, phase \in {"search", "permute"}, phase' \in {"permute", "done"},
           UNCHANGED <<input, edges, root, visited, stack, out>>,
           items' \in [Vertices -> Vertices],
           outer' \in 1 .. Len(input) + 1, current' \in 1 .. Len(input) + 1,
           FoundInv, phase' = "permute" => PermuteInv', phase' = "done" => items' = Found
    PROVE  SortInv'
<1>1. Vertices' = Vertices /\ Frames' = Frames /\ Found' = Found
  BY DEF Vertices, Frames, Found
<1>2. FoundInv'
  BY <1>1 DEF FoundInv, OutInv
<1>3. TypeOK'
  BY <1>1 DEF SortInv, TypeOK
<1>4. RefusesOnlyIllegal'
  BY DEF RefusesOnlyIllegal, Errors
<1>. QED BY <1>1, <1>2, <1>3, <1>4 DEF SortInv, Started

LEMMA SearchDoneKeeps ==
    ASSUME SortInv, SearchDone
    PROVE  SortInv'
<1>. DEFINE n == Len(input)
<1>1. /\ phase = "search" /\ stack = <<>> /\ root = 0 /\ order' = Found
      /\ VisitInv /\ OutInv /\ TypeOK
      /\ items = [v \in Vertices |-> v] /\ outer = 1 /\ current = 1
  BY DEF SearchDone, SortInv, Found
<1>2. n \in Nat /\ Vertices = 1 .. n
  BY StackType
<1>3. FoundInv
  <2>1. \A v \in Vertices : visited[v] = "visited"
    BY <1>1, <1>2 DEF VisitInv, OnStack, TypeOK
  <2>. QED BY <1>1, <2>1 DEF VisitInv, FoundInv
<1>4. Len(out) = n /\ Permutation(n, Found) /\ Len(Found) = n /\ DOMAIN Found = 1 .. n
  BY <1>3, FoundPermutes, FoundReversed
<1>5. Vertices' = Vertices /\ Found' = Found /\ input' = input
  BY DEF SearchDone, Vertices, Found
<1>6. CASE n = 0
  <2>1. n = 0 /\ phase' = "done"
    BY <1>6 DEF SearchDone
  <2>2. items = Found
    BY <1>1, <1>2, <1>4, <2>1 DEF Permutation
  <2>. QED BY <1>1, <1>3, <2>1, <2>2, PermuteStep DEF SearchDone, TypeOK
<1>7. CASE n # 0
  <2>1. phase' = "permute"
    BY <1>7 DEF SearchDone
  <2>2. n >= 1
    BY <1>2, <1>7
  <2>3. UNCHANGED <<items, outer, current>>
    BY DEF SearchDone
  <2>4. ASSUME NEW k \in 1 .. n, ~Placed(k)'
        PROVE  order'[k] \in 1 .. n /\ ~Placed(order[k])'
    BY <1>1, <1>4, <2>4 DEF Permutation, Placed
  <2>5. PermuteInv'
    <3>1. order' \in Seq(Vertices')
      BY <1>1, <1>2, <1>4, <1>5, SeqDef DEF Permutation
    <3>2. \A k \in Vertices : items'[k] = k /\ order'[k] = Found[k]
      BY <1>1, <2>3
    <3>3. outer' = 1 /\ current' = 1 /\ 1 \in Vertices /\ ~\E k \in Vertices : k < 1
      BY <1>1, <1>2, <2>2, <2>3
    <3>4. Len(order') = Len(input)
      BY <1>1, <1>2, <1>4
    <3>. QED BY <1>2, <1>5, <2>4, <3>1, <3>2, <3>3, <3>4 DEF PermuteInv, Placed
  <2>. QED BY <1>1, <1>3, <2>1, <2>3, <2>5, PermuteStep DEF SearchDone, TypeOK
<1>. QED BY <1>6, <1>7

LEMMA OrderType ==
    ASSUME SortInv, PermuteInv
    PROVE  order \in [Vertices -> Vertices]
BY StackType, LenProperties DEF PermuteInv

LEMMA FollowKeeps ==
    ASSUME SortInv, Follow
    PROVE  SortInv'
<1>. DEFINE next == order[current]
<1>1. /\ phase = "permute" /\ phase' = "permute" /\ next # outer
      /\ items' = [items EXCEPT ![current] = items[next], ![next] = items[current]]
      /\ order' = [order EXCEPT ![current] = current]
      /\ current' = next /\ outer' = outer
      /\ UNCHANGED <<input, edges, root, visited, stack, out>>
  BY DEF Follow
<1>2. PermuteInv /\ FoundInv /\ TypeOK /\ order \in [Vertices -> Vertices]
  BY <1>1, OrderType DEF SortInv
<1>3. Vertices' = Vertices /\ Found' = Found /\ Vertices = 1 .. Len(input) /\ Len(input) \in Nat
  BY <1>1, StackType DEF Vertices, Found
<1>4. /\ current \in Vertices /\ next \in Vertices /\ outer \in Vertices
      /\ ~Placed(current) /\ next # current /\ ~Placed(next) /\ next = Found[current]
  BY <1>1, <1>2 DEF PermuteInv, Placed
<1>5. \A k \in Vertices : order'[k] = IF k = current THEN current ELSE order[k]
  BY <1>1, <1>2 DEF PermuteInv
<1>6. /\ items[current] = outer /\ items[next] = next
      /\ \A k \in Vertices : items'[k] = IF k = current THEN next ELSE IF k = next THEN outer ELSE items[k]
  BY <1>1, <1>2, <1>4 DEF PermuteInv, TypeOK
<1>. HIDE DEF next
<1>7. \A k \in Vertices : Placed(k)' <=> Placed(k) \/ k = current
  BY <1>5 DEF Placed
<1>8. Permutation(Len(input), Found)
  BY <1>2, FoundPermutes
<1>9. PermuteInv'
  <2>1. order' \in Seq(Vertices') /\ Len(order') = Len(input)
    <3>1. order \in Seq(Vertices) /\ Len(order) = Len(input) /\ current \in 1 .. Len(order)
      BY <1>2, <1>3, <1>4 DEF PermuteInv
    <3>. QED BY <1>1, <1>3, <1>4, <3>1, ExceptSeq
  <2>3. \A k \in Vertices : k < outer => Placed(k)'
    BY <1>2, <1>7 DEF PermuteInv
  <2>4. /\ order'[outer] = outer /\ order'[next] # next
        /\ current' = next /\ outer' = outer
    <3>1. current = outer \/ Placed(outer)
      BY <1>2 DEF PermuteInv
    <3>. QED BY <1>1, <1>4, <1>5, <3>1 DEF Placed, next
  <2>5. ASSUME NEW k \in Vertices, Placed(k)' PROVE items'[k] = Found[k]
    BY <1>2, <1>4, <1>6, <1>7, <2>5 DEF PermuteInv
  <2>6. ASSUME NEW k \in Vertices, ~Placed(k)'
        PROVE  /\ order'[k] = Found[k]
               /\ items'[k] = IF k = next THEN outer ELSE k
               /\ \/ order'[k] # next /\ ~Placed(order[k])'
                  \/ order'[k] = outer
    <3>1. ~Placed(k) /\ k # current /\ order'[k] = order[k]
      BY <1>5, <1>7, <2>6
    <3>2. /\ order[k] = Found[k] /\ items[k] = k /\ order[k] \in Vertices
          /\ order[k] = outer \/ (order[k] # current /\ ~Placed(order[k]))
      BY <1>2, <3>1 DEF PermuteInv
    <3>3. order[k] # next
      BY <1>3, <1>4, <1>8, <3>1, <3>2 DEF Permutation
    <3>4. order'[k] = outer \/ ~Placed(order[k])'
      BY <1>7, <3>1, <3>2
    <3>. QED BY <1>6, <3>1, <3>2, <3>3, <3>4
  <2>8. \A k \in Vertices' : ~Placed(k)' =>
           /\ order'[k] = Found'[k]
           /\ items'[k] = IF k = current' THEN outer' ELSE k
           /\ \/ order'[k] # current' /\ ~Placed(order[k])'
              \/ order'[k] = outer' /\ (current' = outer' => ~Placed(outer)')
    <3>1. SUFFICES ASSUME NEW k \in Vertices, ~Placed(k)'
                   PROVE  /\ order'[k] = Found[k]
                          /\ items'[k] = IF k = next THEN outer ELSE k
                          /\ \/ order'[k] # next /\ ~Placed(order[k])'
                             \/ order'[k] = outer /\ (next = outer => ~Placed(outer)')
      BY <1>3, <2>4
    <3>2. next = outer => ~Placed(outer)'
      BY <2>4 DEF Placed
    <3>. QED BY <2>6, <3>1, <3>2
  <2>9. /\ outer' \in Vertices' /\ current' \in Vertices'
        /\ current' # outer' => Placed(outer)' /\ ~Placed(current)'
    BY <1>3, <1>4, <2>4 DEF Placed
  <2>10. \A k \in Vertices' : (k < outer' => Placed(k)') /\ (Placed(k)' => items'[k] = Found'[k])
    BY <1>3, <2>3, <2>4, <2>5
  <2>. QED BY <1>1, <2>1, <2>8, <2>9, <2>10 DEF PermuteInv
<1>10. items' \in [Vertices -> Vertices]
  BY <1>1, <1>2, <1>4, <1>6 DEF TypeOK
<1>11. current' \in 1 .. Len(input) + 1 /\ outer' \in 1 .. Len(input) + 1
  BY <1>1, <1>3, <1>4
<1>. QED BY <1>1, <1>2, <1>9, <1>10, <1>11, PermuteStep

LEMMA CloseKeeps ==
    ASSUME SortInv, Close
    PROVE  SortInv'
<1>. DEFINE n == Len(input)
<1>1. /\ phase = "permute" /\ order[current] = outer
      /\ phase' = (IF outer = n THEN "done" ELSE phase)
      /\ order' = [order EXCEPT ![current] = current]
      /\ current' = outer + 1 /\ outer' = outer + 1
      /\ UNCHANGED <<input, edges, root, visited, stack, out, items>>
  BY DEF Close
<1>2. PermuteInv /\ FoundInv /\ TypeOK /\ order \in [Vertices -> Vertices]
  BY <1>1, OrderType DEF SortInv
<1>3. Vertices' = Vertices /\ Found' = Found /\ Vertices = 1 .. n /\ n \in Nat
  BY <1>1, StackType DEF Vertices, Found
<1>4. current \in Vertices /\ outer \in Vertices
  BY <1>2 DEF PermuteInv
<1>5. \A k \in Vertices : order'[k] = IF k = current THEN current ELSE order[k]
  BY <1>1, <1>2 DEF PermuteInv
<1>6. \A k \in Vertices : Placed(k)' <=> Placed(k) \/ k = current
  BY <1>5 DEF Placed
<1>7. current # outer => ~Placed(current) /\ Placed(outer) /\ Found[current] = outer /\ items[current] = outer
  BY <1>1, <1>2 DEF PermuteInv
<1>8. current = outer => Placed(outer)
  BY <1>1 DEF Placed
<1>9. Permutation(n, Found)
  BY <1>2, FoundPermutes
<1>10. \A k \in Vertices : Placed(k)' => items'[k] = Found[k]
  BY <1>1, <1>2, <1>6, <1>7, <1>8 DEF PermuteInv
<1>11. \A k \in Vertices : k < outer + 1 => Placed(k)'
  <2>1. \A k \in Vertices : k < outer + 1 => k < outer \/ k = outer
    BY <1>3, <1>4
  <2>. QED BY <1>2, <1>6, <1>7, <1>8, <2>1 DEF PermuteInv
<1>12. CASE outer = n
  <2>1. \A k \in Vertices : items'[k] = Found[k]
    BY <1>3, <1>10, <1>11, <1>12
  <2>2. items' = Found
    <3>1. items' \in [1 .. n -> 1 .. n] /\ Found \in [1 .. n -> 1 .. n]
      BY <1>1, <1>2, <1>3, <1>9 DEF TypeOK, Permutation
    <3>. HIDE DEF n
    <3>. QED BY <1>3, <2>1, <3>1
  <2>. QED BY <1>1, <1>2, <1>3, <1>12, <2>2, PermuteStep DEF TypeOK
<1>13. CASE outer # n
  <2>1. phase' = "permute" /\ outer + 1 \in Vertices
    BY <1>1, <1>3, <1>4, <1>13
  <2>2. order' \in Seq(Vertices') /\ Len(order') = n
    <3>1. order \in Seq(Vertices) /\ Len(order) = n /\ current \in 1 .. Len(order)
      BY <1>2, <1>3, <1>4 DEF PermuteInv
    <3>. QED BY <1>1, <1>3, <1>4, <3>1, ExceptSeq
  <2>4. ASSUME NEW k \in Vertices, ~Placed(k)'
        PROVE  /\ order'[k] = Found[k] /\ items'[k] = k
               /\ ~Placed(order[k])' /\ order'[k] = order[k]
    <3>1. ~Placed(k) /\ k # current /\ order'[k] = order[k]
      BY <1>5, <1>6, <2>4
    <3>2. /\ order[k] = Found[k] /\ items[k] = k /\ order[k] \in Vertices
          /\ \/ order[k] # current /\ ~Placed(order[k])
             \/ order[k] = outer /\ (current = outer => ~Placed(outer))
      BY <1>2, <3>1 DEF PermuteInv
    <3>3. order[k] # outer \/ current = outer
      BY <1>3, <1>4, <1>7, <1>9, <3>1, <3>2 DEF Permutation
    <3>4. order[k] # current /\ ~Placed(order[k])
      BY <1>8, <3>2, <3>3
    <3>. QED BY <1>1, <1>6, <3>1, <3>2, <3>4
  <2>5. PermuteInv'
    BY <1>1, <1>3, <1>10, <1>11, <2>1, <2>2, <2>4 DEF PermuteInv, Placed
  <2>. QED BY <1>1, <1>2, <1>3, <1>4, <2>1, <2>5, PermuteStep DEF TypeOK
<1>. QED BY <1>12, <1>13

LEMMA SortStep == SortInv /\ [Next]_vars => SortInv'
<1>. SUFFICES ASSUME SortInv, [Next]_vars PROVE SortInv'
  OBVIOUS
<1>1. CASE UNCHANGED vars
  <2>1. UNCHANGED <<input, phase, edges, root, visited, stack, out, order, items, outer, current>>
    BY <1>1 DEF vars
  <2>2. /\ Vertices' = Vertices /\ Frames' = Frames /\ Found' = Found /\ OnStack' = OnStack
        /\ Started' = Started /\ \A v : Neighbors(v)' = Neighbors(v)
    BY <2>1 DEF Vertices, Frames, Found, OnStack, Started, Neighbors
  <2>3. TypeOK' /\ RefusesOnlyIllegal'
    BY <2>1, <2>2, SMTT(30) DEF SortInv, TypeOK, RefusesOnlyIllegal, Permuted
  <2>4. /\ VisitInv => VisitInv'
        /\ StackInv => StackInv'
        /\ OutInv => OutInv'
        /\ FoundInv => FoundInv'
    BY <2>1, <2>2 DEF VisitInv, StackInv, OutInv, FoundInv
  <2>5. PermuteInv => PermuteInv'
    BY <2>1, <2>2 DEF PermuteInv, Placed
  <2>. QED BY <2>1, <2>2, <2>3, <2>4, <2>5 DEF SortInv
<1>. QED BY <1>1, PrepareSorts, VisitRootKeeps, VisitNeighborKeeps, LeaveKeeps, SearchDoneKeeps,
            FollowKeeps, CloseKeeps DEF Next

-----------------------------------------------------------------------------
(* What the invariant says of the result                                   *)

\* An order of all vertices in which dependents went first, reversed, is legal.
LEMMA FoundIsLegal ==
    ASSUME SortInv, phase = "done"
    PROVE  Legal(Result) /\ {items[k] : k \in DOMAIN items} = Vertices
<1>. DEFINE n == Len(input)
<1>1. /\ IsSlice(input) /\ FoundInv /\ items = Found /\ edges = GraphOf(input)
      /\ ~HasDuplicates(input) /\ ~HasInvalid(input)
  BY DEF SortInv, Started
<1>2. /\ Len(out) = n /\ Permutation(n, Found) /\ DOMAIN Found = 1 .. n
      /\ n \in Nat /\ Vertices = 1 .. n /\ DOMAIN out = 1 .. n /\ DOMAIN input = 1 .. n
  BY <1>1, FoundPermutes, FoundReversed, StackType DEF IsSlice
<1>3. Rearranged(input, Result, Found)
  BY <1>1, <1>2 DEF Rearranged, Result
<1>4. ~HasDuplicates(Result) /\ DOMAIN Result = 1 .. n /\ \A k \in 1 .. n : Result[k] = input[Found[k]]
  BY <1>1, <1>2, <1>3, RearrangedKeepsFaults DEF Rearranged
<1>5. ASSUME NEW j \in 1 .. n, NEW d \in Result[j].deps
      PROVE  \E i \in 1 .. n : i < j /\ d \in Provides(Result[i])
  <2>1. Found[j] \in 1 .. n /\ d \in input[Found[j]].deps
    BY <1>2, <1>4 DEF Permutation
  <2>2. PICK u \in 1 .. n : d \in Provides(input[u])
    BY <1>1, <1>2, <2>1 DEF HasInvalid
  <2>3. <<u, Found[j]>> \in edges
    BY <1>1, <1>2, <2>1, <2>2 DEF GraphOf
  <2>4. PICK l \in 1 .. n : out[l] = u
    BY <1>1, <1>2 DEF FoundInv
  <2>5. PICK i \in 1 .. n : i < l /\ out[i] = Found[j]
    <3>. DEFINE e == <<u, Found[j]>>
    <3>1. e \in edges /\ out[l] = e[1] /\ e[2] = Found[j]
      BY <2>3, <2>4
    <3>. HIDE DEF e
    <3>2. \E i \in DOMAIN out : i < l /\ out[i] = e[2]
      BY <1>1, <1>2, <2>4, <3>1 DEF FoundInv, OutInv
    <3>. QED BY <1>2, <3>1, <3>2
  <2>6. Found[j] = out[n - j + 1] /\ n - j + 1 \in 1 .. n
    BY <1>2, FoundReversed
  <2>7. i = n - j + 1
    <3>1. \A a, b \in 1 .. n : out[a] = out[b] => a = b
      BY <1>1, <1>2 DEF FoundInv, OutInv
    <3>. HIDE DEF n
    <3>. QED BY <2>5, <2>6, <3>1
  <2>8. n - l + 1 \in 1 .. n /\ n - (n - l + 1) + 1 = l
    BY <1>2, <2>4
  <2>9. Found[n - l + 1] = u
    BY <1>2, <2>4, <2>8, FoundReversed
  <2>10. n - l + 1 < j
    BY <1>2, <2>5, <2>7
  <2>. QED BY <1>4, <2>2, <2>8, <2>9, <2>10
<1>6. {items[k] : k \in DOMAIN items} = Vertices
  <2>1. \A v \in 1 .. n : \E k \in 1 .. n : Found[k] = v
    <3>. HIDE DEF n
    <3>. QED BY <1>2, PermutationsReachAll, SMTT(30)
  <2>2. \A k \in 1 .. n : Found[k] \in 1 .. n
    BY <1>2 DEF Permutation
  <2>. QED BY <1>1, <1>2, <2>1, <2>2
<1>. QED BY <1>4, <1>5, <1>6 DEF Legal

LEMMA SortInvImplies == SortInv => SortsOrRefuses
<1>. SUFFICES ASSUME SortInv PROVE SortsOrRefuses
  OBVIOUS
<1>1. SearchInv
  BY DEF SortInv, SearchInv, VisitInv, StackInv, OutInv
<1>2. SortedIsLegal
  BY FoundIsLegal DEF SortedIsLegal
<1>3. RefusesOnlyIllegal
  BY DEF SortInv
<1>. QED BY <1>1, <1>2, <1>3 DEF SortsOrRefuses

-----------------------------------------------------------------------------
(* The plan of a rollback                                                  *)

\* What has left the queue has its dependents in the plan, and nothing gets
\* into the plan that a closed set could do without.
WorklistInv ==
    /\ Worklist!TypeOK
    /\ seed \subseteq indices
    /\ \A e \in planEdges : e[1] \in indices /\ e[1] \notin queue => e[2] \in indices
    /\ indices \subseteq Worklist!LeastClosed(seed)

LEMMA WorklistInit == Worklist!Init => WorklistInv
BY DEF Worklist!Init, WorklistInv, Worklist!TypeOK, Worklist!LeastClosed

LEMMA PopKeeps ==
    ASSUME WorklistInv, NEW m \in Worklist!Migrations, Worklist!Pop(m)
    PROVE  WorklistInv'
<1>1. planEdges' = planEdges /\ seed' = seed
  BY DEF Worklist!Pop
<1>2. Worklist!TypeOK' /\ (seed \subseteq indices)'
  BY DEF Worklist!Pop, WorklistInv, Worklist!TypeOK, Worklist!Dependents
<1>3. ASSUME NEW e \in planEdges, e[1] \in indices', e[1] \notin queue'
      PROVE  e[2] \in indices'
  <2>1. e \in Worklist!Migrations \X Worklist!Migrations
    BY DEF WorklistInv, Worklist!TypeOK, Worklist!Graphs
  <2>2. CASE e[1] = m
    BY <2>1, <2>2 DEF Worklist!Pop, Worklist!Dependents
  <2>3. CASE e[1] # m
    BY <1>3, <2>3 DEF Worklist!Pop, WorklistInv
  <2>. QED BY <2>2, <2>3
<1>4. ASSUME NEW x \in indices' PROVE x \in Worklist!LeastClosed(seed)
  <2>1. CASE x \in indices
    BY <2>1 DEF WorklistInv
  <2>2. CASE x \in Worklist!Dependents(m)
    <3>1. m \in Worklist!LeastClosed(seed) /\ <<m, x>> \in planEdges /\ x \in Worklist!Migrations
      BY <2>2 DEF Worklist!Pop, WorklistInv, Worklist!TypeOK, Worklist!Dependents
    <3>. QED BY <3>1 DEF Worklist!LeastClosed, Worklist!Closed
  <2>. QED BY <1>4, <2>1, <2>2 DEF Worklist!Pop
<1>5. Worklist!LeastClosed(seed)' = Worklist!LeastClosed(seed)
  BY <1>1 DEF Worklist!LeastClosed, Worklist!Closed
<1>. QED BY <1>1, <1>2, <1>3, <1>4, <1>5 DEF WorklistInv

LEMMA WorklistUnchanged ==
    ASSUME WorklistInv, UNCHANGED <<planEdges, seed, indices, queue>>
    PROVE  WorklistInv'
BY DEF WorklistInv, Worklist!TypeOK, Worklist!LeastClosed, Worklist!Closed

LEMMA WorklistStep == WorklistInv /\ [Worklist!Next]_(Worklist!vars) => WorklistInv'
BY PopKeeps, WorklistUnchanged DEF Worklist!Next, Worklist!vars

LEMMA WorklistInvImplies == WorklistInv => Worklist!FindsPlan
<1>. SUFFICES ASSUME WorklistInv, queue = {} PROVE indices = Worklist!LeastClosed(seed)
  BY DEF Worklist!FindsPlan
<1>1. Worklist!Closed(indices) /\ indices \in SUBSET Worklist!Migrations /\ seed \subseteq indices
  BY DEF WorklistInv, Worklist!TypeOK, Worklist!Closed
<1>2. Worklist!LeastClosed(seed) \subseteq indices
  BY <1>1 DEF Worklist!LeastClosed
<1>. QED BY <1>2 DEF WorklistInv

(***************************************************************************)
(* rollback_plan's loop finds the plan, the least set that contains its    *)
(* seed and is closed under dependents: for any number of migrations, any  *)
(* dependencies and any order in which the queue is worked off.            *)
(***************************************************************************)
THEOREM WorklistFindsPlan == Worklist!Spec => []Worklist!FindsPlan
BY WorklistInit, WorklistStep, WorklistInvImplies, PTL DEF Worklist!Spec

-----------------------------------------------------------------------------
(* The engine sorts, then plans                                            *)

\* The plan is made of the sorted slice.
GraphInv ==
    /\ SortInv
    /\ Len(input) <= MaxLength
    /\ planning => phase = "done" /\ WorklistInv

\* In a legal order an edge leads from an earlier position to a later one.
LEMMA LegalGraph ==
    ASSUME NEW s, NEW n \in 0 .. MaxLength, DOMAIN s = 1 .. n, Legal(s)
    PROVE  GraphOf(s) \in Worklist!Graphs
<1>1. MaxLength \in Nat
  BY LengthAssumption
<1>2. ASSUME NEW e \in GraphOf(s) PROVE e \in (1 .. n) \X (1 .. n) /\ e[1] < e[2]
  <2>1. PICK d \in s[e[2]].deps : d \in Provides(s[e[1]])
    BY DEF GraphOf
  <2>2. e[1] \in 1 .. n /\ e[2] \in 1 .. n /\ e \in (1 .. n) \X (1 .. n)
    BY DEF GraphOf
  <2>3. PICK c \in 1 .. n : c < e[2] /\ d \in Provides(s[c])
    BY <2>1, <2>2 DEF Legal
  <2>4. c = e[1]
    BY <2>1, <2>2, <2>3 DEF Legal, HasDuplicates
  <2>. QED BY <2>2, <2>3, <2>4
<1>3. 1 .. n \subseteq 1 .. MaxLength
  BY <1>1
<1>. QED BY <1>2, <1>3 DEF Worklist!Graphs, Worklist!Migrations

LEMMA GraphInvInit == GraphInit => GraphInv
<1>. SUFFICES ASSUME GraphInit PROVE GraphInv
  OBVIOUS
<1>1. SortInv
  BY SortInit DEF GraphInit
<1>2. Len(input) <= MaxLength
  BY LengthAssumption DEF GraphInit, Init
<1>. QED BY <1>1, <1>2 DEF GraphInit, GraphInv

LEMMA LengthStays ==
    ASSUME SortInv, [Next]_vars
    PROVE  Len(input') = Len(input)
<1>1. CASE Prepare
  <2>1. \E p : Rearranged(input, input', p)
    BY <1>1, SortingRearranges DEF Prepare, SortInv
  <2>. QED BY <2>1, RearrangedIsSlice DEF SortInv
<1>2. CASE ~Prepare
  BY <1>2 DEF Next, vars, VisitRoot, VisitNeighbor, Leave, SearchDone, Follow, Close
<1>. QED BY <1>1, <1>2

LEMMA GraphStep == GraphInv /\ [GraphNext]_<<vars, planVars>> => GraphInv'
<1>. SUFFICES ASSUME GraphInv, [GraphNext]_<<vars, planVars>> PROVE GraphInv'
  OBVIOUS
<1>1. [Next]_vars
  BY DEF GraphNext, Sort, BeginPlan, WorkOff
<1>2. SortInv' /\ Len(input') <= MaxLength
  BY <1>1, SortStep, LengthStays DEF GraphInv
<1>3. CASE Sort \/ UNCHANGED <<vars, planVars>>
  <2>1. UNCHANGED <<planEdges, seed, indices, queue, planning>>
    BY <1>3 DEF Sort, planVars
  <2>2. phase = "done" => phase' = "done"
    BY <1>1 DEF Next, vars, Prepare, VisitRoot, VisitNeighbor, Leave, SearchDone, Follow, Close
  <2>. QED BY <1>2, <2>1, <2>2, WorklistUnchanged DEF GraphInv
<1>4. CASE BeginPlan
  <2>1. phase = "done" /\ phase' = "done" /\ planEdges' = GraphOf(Result) /\ UNCHANGED vars
    BY <1>4 DEF BeginPlan, vars
  <2>2. /\ Legal(Result) /\ Len(input) \in 0 .. MaxLength
        /\ DOMAIN Result = 1 .. Len(input) /\ Vertices = 1 .. Len(input)
    <3>1. SortInv /\ Len(input) <= MaxLength
      BY DEF GraphInv
    <3>2. Legal(Result) /\ Len(input) \in Nat /\ Vertices = 1 .. Len(input)
      BY <2>1, <3>1, FoundIsLegal, StackType
    <3>3. DOMAIN Result = Vertices
      BY <3>1 DEF SortInv, TypeOK, Result
    <3>. QED BY <3>1, <3>2, <3>3, LengthAssumption
  <2>3. planEdges' \in Worklist!Graphs
    BY <2>1, <2>2, LegalGraph
  <2>4. PICK S \in SUBSET Vertices : seed' = S /\ indices' = S /\ queue' = S
    BY <1>4 DEF BeginPlan
  <2>5. S \in SUBSET Worklist!Migrations
    BY <2>2, LengthAssumption DEF Worklist!Migrations
  <2>6. WorklistInv'
    BY <2>3, <2>4, <2>5 DEF WorklistInv, Worklist!TypeOK, Worklist!LeastClosed
  <2>. QED BY <1>2, <2>1, <2>6 DEF GraphInv
<1>5. CASE WorkOff
  <2>1. planning /\ planning' /\ phase' = phase /\ Worklist!Next
    BY <1>5 DEF WorkOff, vars
  <2>. QED BY <1>2, <2>1, WorklistStep DEF GraphInv
<1>. QED BY <1>3, <1>4, <1>5 DEF GraphNext

(***************************************************************************)
(* MigrationSorter::sort puts all migrations into an order in which each   *)
(* follows what it depends on, or there is no such order and it returns an *)
(* error: for any number of migrations, and whatever the depth-first       *)
(* search meets and the cycles of the permutation are.                     *)
(***************************************************************************)
THEOREM SorterSorts == GraphSpec => []SortsOrRefuses
<1>1. GraphInv => SortsOrRefuses
  BY SortInvImplies DEF GraphInv
<1>. QED BY <1>1, GraphInvInit, GraphStep, PTL DEF GraphSpec

(***************************************************************************)
(* The graph of the sorted slice leads from earlier to later positions,    *)
(* and the worklist finds in it exactly what depends on the migrations it  *)
(* starts from.                                                            *)
(***************************************************************************)
THEOREM PlansAreFound == GraphSpec => []FindsPlan
<1>1. GraphInv => FindsPlan
  BY WorklistInvImplies DEF GraphInv, FindsPlan, WorklistInv
<1>. QED BY <1>1, GraphInvInit, GraphStep, PTL DEF GraphSpec

==============================================================================
