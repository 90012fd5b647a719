---------------------------- MODULE FilteringProofs ----------------------------
(***************************************************************************)
(* Why a graph that occurs in another has no more groups of any identifier *)
(* than it, for all graphs: an occurrence carries groups and paths to      *)
(* groups and paths, different ones to different ones, and keeps their     *)
(* identifiers, if it is induced (motifs) or in any case (undirected       *)
(* paths). One that is not induced may carry a group to one with more      *)
(* edges; the expansion of the counts (MotifInclusion) makes up for that,  *)
(* unless it wraps.                                                        *)
(***************************************************************************)
EXTENDS EnumerationFlow, FiniteLemmas

-----------------------------------------------------------------------------
(* Occurrences: what an embedding does to the groups of a graph.           *)

\* What is connected stays so when edges are only added.
LEMMA ConnectedCarried ==
    ASSUME NEW g, NEW h, IsConnected(g), NEW b \in Bijection(Vertices(g), Vertices(h)),
           \A u, w \in Vertices(g) : is_edge(g, u, w) => is_edge(h, b[u], b[w])
    PROVE  IsConnected(h)
<1> SUFFICES ASSUME NEW T \in (SUBSET Vertices(h)) \ {{}, Vertices(h)}
             PROVE  \E u \in T, w \in Vertices(h) \ T : is_edge(h, u, w) \/ is_edge(h, w, u)
    BY DEF IsConnected
<1> DEFINE S == {u \in Vertices(g) : b[u] \in T}
<1>1. /\ \A u \in Vertices(g) : b[u] \in Vertices(h)
      /\ \A t \in Vertices(h) : \E u \in Vertices(g) : b[u] = t
    BY DEF Bijection, Injection, Surjection
<1>2. S # {} /\ S # Vertices(g) /\ S \subseteq Vertices(g)
    <2>1. PICK t \in T : t \in Vertices(h)
        OBVIOUS
    <2>2. PICK o \in Vertices(h) : o \notin T
        OBVIOUS
    <2>3. QED BY <1>1, <2>1, <2>2
<1>3. PICK u \in S, w \in Vertices(g) \ S : is_edge(g, u, w) \/ is_edge(g, w, u)
    BY <1>2 DEF IsConnected
<1>4. b[u] \in T /\ b[w] \in Vertices(h) \ T
    BY <1>1, <1>3
<1>5. QED BY <1>1, <1>3, <1>4

\* When every member of one family is carried to one of the same identifier, no two to one,
\* there are no fewer in the other.
LEMMA CountsCarried ==
    ASSUME NEW f, NEW h, IsFiniteSet(DOMAIN h), NEW c, NEW id \in DOMAIN CountsOf(f),
           \A x \in DOMAIN f : f[x] = id => c[x] \in DOMAIN h /\ h[c[x]] = id,
           \A x, y \in DOMAIN f : f[x] = id /\ f[y] = id /\ c[x] = c[y] => x = y
    PROVE  CountsOf(f)[id] <= at(CountsOf(h), id)
<1> DEFINE S == {x \in DOMAIN f : f[x] = id}
           T == {x \in DOMAIN h : h[x] = id}
           r == [x \in S |-> c[x]]
<1>1. \A k : id \in DOMAIN CountsOf(k) <=> \E x \in DOMAIN k : k[x] = id
    BY DEF CountsOf, Range
<1>2. PICK x0 \in DOMAIN f : f[x0] = id
    BY <1>1
<1>3. r \in Injection(S, T)
    BY DEF Injection, IsInjective
<1>4. IsFiniteSet(T)
    BY FS_Subset
<1>5. Cardinality(S) <= Cardinality(T)
    <2> HIDE DEF S, T, r
    <2>1. QED BY <1>3, <1>4, FS_Injection
<1>6. CountsOf(f)[id] = Cardinality(S)
    BY DEF CountsOf
<1>7. id \in DOMAIN CountsOf(h)
    <2>1. c[x0] \in DOMAIN h /\ h[c[x0]] = id
        BY <1>2
    <2>2. QED BY <1>1, <2>1
<1>8. at(CountsOf(h), id) = Cardinality(T)
    BY <1>7 DEF CountsOf, at
<1>9. QED BY <1>5, <1>6, <1>8

-----------------------------------------------------------------------------
(* Structures and their relabellings.                                      *)

\* The structure of the vertices that f lists.
Laid(g, f) == {e \in Positions \X Positions : is_edge(g, f[e[1]], f[e[2]])}

After(q, p) == [i \in Positions |-> q[p[i]]]

\* A permutation is a bijection of the positions.
LEMMA PermutationIs ==
    ASSUME NEW p \in Permutations4
    PROVE  /\ \A i \in Positions : p[i] \in Positions
           /\ \A i, j \in Positions : p[i] = p[j] => i = j
           /\ \A j \in Positions : \E i \in Positions : p[i] = j
           /\ p = [i \in Positions |-> p[i]]
BY DEF Permutations4, Bijection, Injection, Surjection, IsInjective

\* A one-to-one list of positions is a permutation.
LEMMA IsPermutation ==
    ASSUME NEW p, DOMAIN p = Positions, p = [i \in Positions |-> p[i]], \A i \in Positions : p[i] \in Positions,
           \A i, j \in Positions : p[i] = p[j] => i = j,
           \A j \in Positions : \E i \in Positions : p[i] = j
    PROVE  p \in Permutations4
BY DEF Permutations4, Bijection, Injection, Surjection, IsInjective

\* Which edges a relabelled structure has.
LEMMA RelabelledIs ==
    ASSUME NEW s, NEW p \in Permutations4, s \subseteq Positions \X Positions
    PROVE  /\ Relabelled(s, p) \subseteq Positions \X Positions
           /\ \A i, j \in Positions : <<p[i], p[j]>> \in Relabelled(s, p) <=> <<i, j>> \in s
<1>1. ASSUME NEW i \in Positions, NEW j \in Positions, <<p[i], p[j]>> \in Relabelled(s, p) PROVE <<i, j>> \in s
    <2>1. PICK e \in s : <<p[i], p[j]>> = <<p[e[1]], p[e[2]]>>
        BY <1>1 DEF Relabelled
    <2>2. e[1] \in Positions /\ e[2] \in Positions /\ e = <<e[1], e[2]>>
        OBVIOUS
    <2>3. p[i] = p[e[1]] /\ p[j] = p[e[2]]
        BY <2>1
    <2>4. i = e[1] /\ j = e[2]
        BY <2>2, <2>3, PermutationIs
    <2>5. QED BY <2>2, <2>4
<1>2. ASSUME NEW i \in Positions, NEW j \in Positions, <<i, j>> \in s PROVE <<p[i], p[j]>> \in Relabelled(s, p)
    <2>1. <<p[<<i, j>>[1]], p[<<i, j>>[2]]>> \in Relabelled(s, p)
        BY <1>2 DEF Relabelled
    <2>2. QED BY <2>1
<1>3. ASSUME NEW x \in Relabelled(s, p) PROVE x \in Positions \X Positions
    <2>1. PICK e \in s : x = <<p[e[1]], p[e[2]]>>
        BY <1>3 DEF Relabelled
    <2>2. e[1] \in Positions /\ e[2] \in Positions
        OBVIOUS
    <2>3. QED BY <2>1, <2>2, PermutationIs
<1>4. QED BY <1>1, <1>2, <1>3

\* A relabelling is known by what it does to each pair.
LEMMA RelabelledBy ==
    ASSUME NEW s, NEW t, NEW p \in Permutations4, s \subseteq Positions \X Positions, t \subseteq Positions \X Positions,
           \A i, j \in Positions : <<p[i], p[j]>> \in t <=> <<i, j>> \in s
    PROVE  t = Relabelled(s, p)
<1>1. ASSUME NEW x \in Positions \X Positions PROVE x \in t <=> x \in Relabelled(s, p)
    <2>1. PICK i \in Positions, j \in Positions : x = <<p[i], p[j]>>
        BY PermutationIs
    <2>2. QED BY <2>1, RelabelledIs
<1>2. QED BY <1>1, RelabelledIs

\* Permutations are undone.
LEMMA Undone ==
    ASSUME NEW p \in Permutations4
    PROVE  \E q \in Permutations4 : \A i \in Positions : q[p[i]] = i /\ p[q[i]] = i
<1> DEFINE q == [j \in Positions |-> CHOOSE i \in Positions : p[i] = j]
<1>1. \A j \in Positions : q[j] \in Positions /\ p[q[j]] = j
    BY PermutationIs
<1>2. \A i \in Positions : q[p[i]] = i
    BY <1>1, PermutationIs
<1>3. DOMAIN q = Positions /\ q = [i \in Positions |-> q[i]]
    OBVIOUS
<1> HIDE DEF q
<1>4. q \in Permutations4
    BY <1>1, <1>2, <1>3, IsPermutation, PermutationIs
<1>5. QED BY <1>1, <1>2, <1>4

\* Two permutations, one after the other.
LEMMA AfterIs ==
    ASSUME NEW p \in Permutations4, NEW q \in Permutations4
    PROVE  /\ After(q, p) \in Permutations4
           /\ \A i \in Positions : After(q, p)[i] = q[p[i]]
<1> DEFINE a == After(q, p)
<1>1. \A i \in Positions : a[i] = q[p[i]]
    BY DEF After
<1>2. DOMAIN a = Positions /\ a = [i \in Positions |-> a[i]]
    BY DEF After
<1> HIDE DEF a
<1>3. \A i \in Positions : a[i] \in Positions
    BY <1>1, PermutationIs
<1>5. \A i, j \in Positions : a[i] = a[j] => i = j
    BY <1>1, PermutationIs
<1>6. ASSUME NEW j \in Positions PROVE \E i \in Positions : a[i] = j
    <2>1. PICK k \in Positions : q[k] = j
        BY PermutationIs
    <2>2. PICK i \in Positions : p[i] = k
        BY PermutationIs
    <2>3. QED BY <1>1, <2>1, <2>2
<1>7. a \in Permutations4
    BY <1>2, <1>3, <1>5, <1>6, IsPermutation
<1>8. QED BY <1>1, <1>7 DEF a

\* All relabellings of a structure have the same relabellings, so the same canonical one.
LEMMA SameCanonical ==
    ASSUME NEW s, NEW p \in Permutations4, s \subseteq Positions \X Positions
    PROVE  canonical_structure(Relabelled(s, p)) = canonical_structure(s)
<1> DEFINE t == Relabelled(s, p)
<1>1. PICK q \in Permutations4 : \A i \in Positions : q[p[i]] = i /\ p[q[i]] = i
    BY Undone
<1>2. t \subseteq Positions \X Positions /\ \A i, j \in Positions : <<p[i], p[j]>> \in t <=> <<i, j>> \in s
    BY RelabelledIs
<1> HIDE DEF t
<1>3. ASSUME NEW r \in Permutations4 PROVE Relabelled(t, r) = Relabelled(s, After(r, p))
    <2>1. \A i, j \in Positions : <<r[p[i]], r[p[j]]>> \in Relabelled(t, r) <=> <<i, j>> \in s
        BY <1>2, RelabelledIs, PermutationIs
    <2>2. Relabelled(t, r) \subseteq Positions \X Positions
        BY <1>2, RelabelledIs
    <2>3. After(r, p) \in Permutations4 /\ \A i \in Positions : After(r, p)[i] = r[p[i]]
        BY AfterIs
    <2>4. QED BY <2>1, <2>2, <2>3, RelabelledBy
<1>4. ASSUME NEW r \in Permutations4 PROVE Relabelled(s, r) = Relabelled(t, After(r, q))
    <2>1. After(r, q) \in Permutations4 /\ \A i \in Positions : After(r, q)[i] = r[q[i]]
        BY AfterIs
    <2>2. Relabelled(s, r) \subseteq Positions \X Positions
        BY RelabelledIs
    <2>3. ASSUME NEW i \in Positions, NEW j \in Positions
          PROVE  <<r[q[i]], r[q[j]]>> \in Relabelled(s, r) <=> <<i, j>> \in t
        <3>1. q[i] \in Positions /\ q[j] \in Positions /\ p[q[i]] = i /\ p[q[j]] = j
            BY <1>1, PermutationIs
        <3>2. <<r[q[i]], r[q[j]]>> \in Relabelled(s, r) <=> <<q[i], q[j]>> \in s
            BY <3>1, RelabelledIs
        <3>3. <<p[q[i]], p[q[j]]>> \in t <=> <<q[i], q[j]>> \in s
            BY <1>2, <3>1
        <3>4. QED BY <3>1, <3>2, <3>3
    <2>4. \A i, j \in Positions : <<After(r, q)[i], After(r, q)[j]>> \in Relabelled(s, r) <=> <<i, j>> \in t
        BY <2>1, <2>3
    <2> DEFINE a == After(r, q)
               u == Relabelled(s, r)
    <2>5. a \in Permutations4 /\ u \subseteq Positions \X Positions /\ t \subseteq Positions \X Positions
          /\ \A i, j \in Positions : <<a[i], a[j]>> \in u <=> <<i, j>> \in t
        BY <1>2, <2>1, <2>2, <2>4
    <2> HIDE DEF a, u
    <2>6. u = Relabelled(t, a)
        BY <2>5, RelabelledBy
    <2>7. QED BY <2>6 DEF a, u
<1>5. {Relabelled(t, r) : r \in Permutations4} = {Relabelled(s, r) : r \in Permutations4}
    BY <1>3, <1>4, AfterIs
<1>6. QED BY <1>5 DEF canonical_structure, t

\* The canonical structure is one of the relabellings.
LEMMA CanonicalIs ==
    ASSUME NEW s
    PROVE  \E p \in Permutations4 : canonical_structure(s) = Relabelled(s, p)
<1> DEFINE p == [i \in Positions |-> i]
<1>1. p \in Permutations4
    BY DEF Permutations4, Bijection, Injection, Surjection, IsInjective
<1>2. Relabelled(s, p) \in {Relabelled(s, r) : r \in Permutations4}
    BY <1>1
<1>3. QED BY <1>2 DEF canonical_structure

-----------------------------------------------------------------------------
(* Groups of four, listed, and their identifiers.                          *)

Lists(A) == Bijection(Positions, A)

\* A list of a group names each of its vertices once.
LEMMA ListIs ==
    ASSUME NEW A, NEW f \in Lists(A)
    PROVE  /\ f \in [Positions -> A]
           /\ \A i \in Positions : f[i] \in A
           /\ \A i, j \in Positions : f[i] = f[j] => i = j
           /\ \A v \in A : \E i \in Positions : f[i] = v
BY DEF Lists, Bijection, Injection, Surjection, IsInjective

\* A group of four has a list.
LEMMA GroupHasList ==
    ASSUME NEW V, IsFiniteSet(V), NEW A \in kSubset(4, V)
    PROVE  Lists(A) # {} /\ A \subseteq V
<1>1. A \subseteq V /\ Cardinality(A) = 4
    BY DEF kSubset
<1>2. IsFiniteSet(A)
    BY <1>1, FS_Subset
<1>3. ExistsBijection(1 .. 4, A)
    BY <1>1, <1>2, FS_CardinalityType
<1>4. QED BY <1>1, <1>3 DEF ExistsBijection, Lists, Positions

\* Two lists of two groups differ by a permutation, however the groups are matched.
LEMMA ListsDiffer ==
    ASSUME NEW A, NEW B, NEW b \in Bijection(A, B), NEW f \in Lists(A), NEW h \in Lists(B)
    PROVE  \E p \in Permutations4 : \A i \in Positions : h[p[i]] = b[f[i]]
<1> DEFINE p == [i \in Positions |-> CHOOSE j \in Positions : h[j] = b[f[i]]]
<1>1. /\ \A u \in A : b[u] \in B
      /\ \A u, w \in A : b[u] = b[w] => u = w
      /\ \A t \in B : \E u \in A : b[u] = t
    BY DEF Bijection, Injection, Surjection, IsInjective
<1>2. \A i \in Positions : p[i] \in Positions /\ h[p[i]] = b[f[i]]
    BY <1>1, ListIs
<1>3. DOMAIN p = Positions /\ p = [i \in Positions |-> p[i]]
    OBVIOUS
<1> HIDE DEF p
<1>4. \A i, j \in Positions : p[i] = p[j] => i = j
    BY <1>1, <1>2, ListIs
<1>5. ASSUME NEW j \in Positions PROVE \E i \in Positions : p[i] = j
    <2>1. PICK u \in A : b[u] = h[j]
        BY <1>1, ListIs
    <2>2. PICK i \in Positions : f[i] = u
        BY ListIs
    <2>3. h[p[i]] = h[j]
        BY <1>2, <2>1, <2>2
    <2>4. QED BY <1>2, <2>3, ListIs
<1>6. p \in Permutations4
    BY <1>2, <1>3, <1>4, <1>5, IsPermutation
<1>7. QED BY <1>2, <1>6

\* The structures of two lists that have the same edges, a permutation apart.
LEMMA LaidApart ==
    ASSUME NEW g, NEW k, NEW f, NEW h, NEW p \in Permutations4,
           \A i, j \in Positions : is_edge(k, h[p[i]], h[p[j]]) <=> is_edge(g, f[i], f[j])
    PROVE  Laid(k, h) = Relabelled(Laid(g, f), p)
<1> DEFINE s == Laid(g, f)
           t == Laid(k, h)
<1>1. s \subseteq Positions \X Positions /\ t \subseteq Positions \X Positions
    BY DEF Laid
<1>2. \A i, j \in Positions : <<i, j>> \in s <=> is_edge(g, f[i], f[j])
    BY DEF Laid
<1>3. \A i, j \in Positions : <<p[i], p[j]>> \in t <=> is_edge(k, h[p[i]], h[p[j]])
    BY PermutationIs DEF Laid
<1> HIDE DEF s, t
<1>4. t = Relabelled(s, p)
    BY <1>1, <1>2, <1>3, RelabelledBy
<1>5. QED BY <1>4 DEF s, t

Colorings(g, A) == {[i \in Positions |-> get_vertex_color(g, f[i])] : f \in CanonicalOrders(g, A)}

\* The lists with the canonical structure, of which there is one, whichever the list is
\* that the structure is taken from.
LEMMA OrdersAre ==
    ASSUME NEW g, NEW A, NEW f \in Lists(A)
    PROVE  /\ CanonicalOrders(g, A) = {h \in Lists(A) : Laid(g, h) = canonical_structure(Laid(g, f))}
           /\ CanonicalOrders(g, A) # {}
<1> DEFINE f0 == CHOOSE h \in Lists(A) : TRUE
           b == [v \in A |-> v]
<1>1. f0 \in Lists(A)
    OBVIOUS
<1>2. CanonicalOrders(g, A) = {h \in Lists(A) : Laid(g, h) = canonical_structure(Laid(g, f0))}
    BY DEF CanonicalOrders, Laid, Lists
<1> HIDE DEF f0
<1>3. b \in Bijection(A, A) /\ \A v \in A : b[v] = v
    BY DEF Bijection, Injection, Surjection, IsInjective
<1> HIDE DEF b
<1>4. PICK p \in Permutations4 : \A i \in Positions : f0[p[i]] = b[f[i]]
    BY <1>1, <1>3, ListsDiffer
<1>5. \A i \in Positions : f0[p[i]] = f[i]
    BY <1>3, <1>4, ListIs
<1>6. Laid(g, f0) = Relabelled(Laid(g, f), p)
    BY <1>5, LaidApart
<1>7. Laid(g, f) \subseteq Positions \X Positions
    BY DEF Laid
<1>8. canonical_structure(Laid(g, f0)) = canonical_structure(Laid(g, f))
    BY <1>6, <1>7, SameCanonical
<1>9. CanonicalOrders(g, A) # {}
    <2>1. PICK r \in Permutations4 : canonical_structure(Laid(g, f)) = Relabelled(Laid(g, f), r)
        BY CanonicalIs
    <2>2. PICK q \in Permutations4 : \A i \in Positions : q[r[i]] = i /\ r[q[i]] = i
        BY Undone
    <2> DEFINE h == [i \in Positions |-> f[q[i]]]
    <2>3. \A i \in Positions : h[i] \in A /\ h[r[i]] = f[i]
        BY <2>2, ListIs, PermutationIs
    <2>4. h \in Lists(A)
        <3>1. h \in [Positions -> A]
            BY <2>3
        <3>2. \A i, j \in Positions : h[i] = h[j] => i = j
            BY ListIs, PermutationIs
        <3>3. \A v \in A : \E i \in Positions : h[i] = v
            BY <2>3, ListIs, PermutationIs
        <3> HIDE DEF h
        <3>4. QED BY <3>1, <3>2, <3>3 DEF Lists, Bijection, Injection, Surjection, IsInjective
    <2> HIDE DEF h
    <2>5. Laid(g, h) = Relabelled(Laid(g, f), r)
        BY <2>3, LaidApart
    <2>6. QED BY <1>2, <1>8, <2>1, <2>4, <2>5
<1>10. QED BY <1>2, <1>8, <1>9

\* The identifier of a group, by any of its lists.
LEMMA IdentifierIs ==
    ASSUME NEW g, NEW A, NEW f \in Lists(A)
    PROVE  motif_identifier(g, A) =
             [edges  |-> canonical_structure(Laid(g, f)),
              colors |-> CHOOSE c \in Colorings(g, A) : \A d \in Colorings(g, A) : colors_leq(c, d)]
<1> DEFINE order == CHOOSE h \in CanonicalOrders(g, A) : TRUE
<1>1. motif_identifier(g, A) =
        [edges  |-> Laid(g, order),
         colors |-> CHOOSE c \in Colorings(g, A) : \A d \in Colorings(g, A) : colors_leq(c, d)]
    BY DEF motif_identifier, Laid, Colorings
<1>2. order \in CanonicalOrders(g, A)
    BY OrdersAre
<1> HIDE DEF order
<1>3. Laid(g, order) = canonical_structure(Laid(g, f))
    BY <1>2, OrdersAre
<1>4. QED BY <1>1, <1>3

\* Groups that are matched with their edges and colours have one identifier.
LEMMA SameIdentifier ==
    ASSUME NEW g, NEW k, NEW A, NEW B, NEW b \in Bijection(A, B), Lists(A) # {},
           \A u, w \in A : is_edge(k, b[u], b[w]) <=> is_edge(g, u, w),
           \A u \in A : get_vertex_color(k, b[u]) = get_vertex_color(g, u)
    PROVE  motif_identifier(g, A) = motif_identifier(k, B)
<1>1. /\ \A u \in A : b[u] \in B
      /\ \A u, w \in A : b[u] = b[w] => u = w
      /\ \A t \in B : \E u \in A : b[u] = t
    BY DEF Bijection, Injection, Surjection, IsInjective
<1>2. PICK f0 \in Lists(A) : TRUE
    OBVIOUS
<1> DEFINE Moved(f) == [i \in Positions |-> b[f[i]]]
<1>3. ASSUME NEW f \in Lists(A)
      PROVE  /\ Moved(f) \in Lists(B) /\ Laid(k, Moved(f)) = Laid(g, f)
             /\ [i \in Positions |-> get_vertex_color(k, Moved(f)[i])] = [i \in Positions |-> get_vertex_color(g, f[i])]
    <2>1. Moved(f) \in [Positions -> B]
        BY <1>1, ListIs
    <2>2. ASSUME NEW i \in Positions, NEW j \in Positions, Moved(f)[i] = Moved(f)[j] PROVE i = j
        <3>1. b[f[i]] = b[f[j]]
            BY <2>2
        <3>2. f[i] \in A /\ f[j] \in A
            BY ListIs
        <3>3. f[i] = f[j]
            BY <1>1, <3>1, <3>2
        <3>4. QED BY <3>3, ListIs
    <2>3. ASSUME NEW v \in B PROVE \E i \in Positions : Moved(f)[i] = v
        <3>1. PICK u \in A : b[u] = v
            BY <1>1
        <3>2. PICK i \in Positions : f[i] = u
            BY ListIs
        <3>3. QED BY <3>1, <3>2
    <2>4. \A i \in Positions : f[i] \in A
        BY ListIs
    <2>5. Laid(k, Moved(f)) = Laid(g, f)
        BY <2>4 DEF Laid
    <2>6. [i \in Positions |-> get_vertex_color(k, Moved(f)[i])] = [i \in Positions |-> get_vertex_color(g, f[i])]
        BY <2>4
    <2>7. Moved(f) \in Lists(B)
        <3> DEFINE h == Moved(f)
        <3> HIDE DEF Moved
        <3>1. QED BY <2>1, <2>2, <2>3 DEF Lists, Bijection, Injection, Surjection, IsInjective
    <2>8. QED BY <2>5, <2>6, <2>7
<1>4. ASSUME NEW h \in Lists(B) PROVE \E f \in Lists(A) : Moved(f) = h
    <2> DEFINE f == [i \in Positions |-> CHOOSE u \in A : b[u] = h[i]]
    <2>1. \A i \in Positions : f[i] \in A /\ b[f[i]] = h[i]
        BY <1>1, ListIs
    <2>2. f \in [Positions -> A]
        BY <2>1
    <2> HIDE DEF f
    <2>3. \A i, j \in Positions : f[i] = f[j] => i = j
        BY <2>1, ListIs
    <2>4. ASSUME NEW v \in A PROVE \E i \in Positions : f[i] = v
        <3>1. PICK i \in Positions : h[i] = b[v]
            BY <1>1, ListIs
        <3>2. QED BY <1>1, <2>1, <3>1
    <2>5. f \in Lists(A)
        BY <2>2, <2>3, <2>4 DEF Lists, Bijection, Injection, Surjection, IsInjective
    <2>6. h = [i \in Positions |-> h[i]]
        BY ListIs
    <2>7. Moved(f) = h
        BY <2>1, <2>6
    <2>8. QED BY <2>5, <2>7
<1> HIDE DEF Moved
<1>5. canonical_structure(Laid(k, Moved(f0))) = canonical_structure(Laid(g, f0))
    BY <1>3
<1>6. CanonicalOrders(k, B) = {Moved(f) : f \in CanonicalOrders(g, A)}
    <2> DEFINE s == canonical_structure(Laid(g, f0))
    <2>1. CanonicalOrders(g, A) = {f \in Lists(A) : Laid(g, f) = s}
        BY OrdersAre
    <2>2. CanonicalOrders(k, B) = {h \in Lists(B) : Laid(k, h) = s}
        BY <1>3, <1>5, OrdersAre
    <2> HIDE DEF s
    <2>3. QED BY <1>3, <1>4, <2>1, <2>2
<1>7. CanonicalOrders(g, A) \subseteq Lists(A)
    BY OrdersAre
<1>8. Colorings(k, B) = Colorings(g, A)
    BY <1>3, <1>6, <1>7 DEF Colorings
<1>9. Moved(f0) \in Lists(B)
    BY <1>3
<1> DEFINE Least(C) == CHOOSE c \in C : \A d \in C : colors_leq(c, d)
<1>10. motif_identifier(g, A) = [edges |-> canonical_structure(Laid(g, f0)), colors |-> Least(Colorings(g, A))]
    BY IdentifierIs
<1>11. motif_identifier(k, B) = [edges |-> canonical_structure(Laid(k, Moved(f0))), colors |-> Least(Colorings(k, B))]
    BY <1>9, IdentifierIs
<1> HIDE DEF Least
<1>12. QED BY <1>5, <1>8, <1>10, <1>11

-----------------------------------------------------------------------------
(* Occurrences.                                                            *)

\* p occurs in g at these places of its vertices.
OccursAt(o, p, g, induced) ==
    /\ o \in [Vertices(p) -> Vertices(g)]
    /\ \A u, w \in Vertices(p) : o[u] = o[w] => u = w
    /\ \A u \in Vertices(p) : get_vertex_color(g, o[u]) = get_vertex_color(p, u)
    /\ \A u, w \in Vertices(p) : is_edge(p, u, w) => is_edge(g, o[u], o[w])
    /\ induced => \A u, w \in Vertices(p) : is_edge(g, o[u], o[w]) => is_edge(p, u, w)

\* What an embedding says, from the vertices of the pattern to those of the graph.
LEMMA OccurrenceIs ==
    ASSUME NEW p, NEW g, NEW induced, Embeddings(p, g, induced) # {}
    PROVE  \E o : OccursAt(o, p, g, induced)
<1>1. PICK m : IsEmbedding(m, p, g, induced)
    BY DEF Embeddings
<1> DEFINE o == [u \in Vertices(p) |-> CHOOSE v \in DOMAIN m : m[v] = u]
<1>2. \A u \in Vertices(p) : o[u] \in DOMAIN m /\ m[o[u]] = u
    BY <1>1 DEF IsEmbedding
<1>3. DOMAIN m \subseteq Vertices(g)
    BY <1>1 DEF IsEmbedding
<1>4. o \in [Vertices(p) -> Vertices(g)]
    BY <1>2, <1>3
<1> HIDE DEF o
<1>5. QED BY <1>1, <1>2, <1>4 DEF IsEmbedding, OccursAt

Places(o, A) == {o[v] : v \in A}

\* A group of the one graph is a group of the other, at other vertices.
LEMMA GroupCarried ==
    ASSUME NEW l, NEW g, IsFiniteSet(Vertices(l)), IsFiniteSet(Vertices(g)), NEW induced, NEW o, OccursAt(o, l, g, induced),
           NEW A \in MotifGroups(l)
    PROVE  /\ Places(o, A) \in MotifGroups(g)
           /\ Lists(A) # {} /\ A \subseteq Vertices(l)
           /\ [v \in A |-> o[v]] \in Bijection(A, Places(o, A))
<1> DEFINE B == Places(o, A)
           b == [v \in A |-> o[v]]
<1>1. A \in kSubset(4, Vertices(l)) /\ IsConnected(Inside(l, A))
    BY DEF MotifGroups
<1>2. Lists(A) # {} /\ A \subseteq Vertices(l) /\ Cardinality(A) = 4
    BY <1>1, GroupHasList DEF kSubset
<1>3. B \subseteq Vertices(g)
    BY <1>2 DEF Places, OccursAt
<1>4. b \in Bijection(A, B)
    BY <1>2 DEF Places, OccursAt, Bijection, Injection, Surjection, IsInjective
<1>5. IsFiniteSet(A) /\ Cardinality(B) = 4
    BY <1>2, <1>4, FS_Subset, FS_Bijection DEF ExistsBijection
<1>6. B \in kSubset(4, Vertices(g))
    BY <1>3, <1>5 DEF kSubset
<1>7. Vertices(Inside(l, A)) = A /\ Vertices(Inside(g, B)) = B
    BY DEF Vertices, Inside
<1>8. ASSUME NEW u \in A, NEW w \in A, is_edge(Inside(l, A), u, w) PROVE is_edge(Inside(g, B), b[u], b[w])
    <2>1. is_edge(l, u, w)
        BY <1>8 DEF is_edge, Inside
    <2>2. is_edge(g, o[u], o[w]) /\ o[u] \in B /\ o[w] \in B
        BY <1>2, <2>1 DEF OccursAt, Places
    <2>3. QED BY <2>2 DEF is_edge, Inside
<1>9. IsConnected(Inside(g, B))
    <2> DEFINE c == Inside(l, A)
               d == Inside(g, B)
    <2>1. /\ IsConnected(c) /\ b \in Bijection(Vertices(c), Vertices(d))
          /\ \A u, w \in Vertices(c) : is_edge(c, u, w) => is_edge(d, b[u], b[w])
        BY <1>1, <1>4, <1>7, <1>8
    <2> HIDE DEF b, B, c, d
    <2>2. IsConnected(d)
        BY <2>1, ConnectedCarried
    <2>3. QED BY <2>2 DEF d
<1>10. QED BY <1>2, <1>4, <1>6, <1>9 DEF MotifGroups

\* Different groups are carried to different groups.
LEMMA PlacesDiffer ==
    ASSUME NEW l, NEW g, NEW induced, NEW o, OccursAt(o, l, g, induced),
           NEW A, A \subseteq Vertices(l), NEW B, B \subseteq Vertices(l), Places(o, A) = Places(o, B)
    PROVE  A = B
BY DEF Places, OccursAt

MotifCounts(g) == CountsOf([S \in MotifGroups(g) |-> motif_identifier(g, S)])

\* There are no more of anything than there are features.
HasEnough(features, counts) ==
    \A id \in DOMAIN counts : counts[id] \in Nat /\ at(features, id) \in Nat /\ counts[id] <= at(features, id)

\* There are finitely many groups.
LEMMA GroupsAreFinite == ASSUME NEW g, IsFiniteSet(Vertices(g)) PROVE IsFiniteSet(MotifGroups(g))
<1>1. IsFiniteSet(SUBSET Vertices(g))
    BY FS_SUBSET
<1>2. MotifGroups(g) \in SUBSET (SUBSET Vertices(g))
    BY DEF MotifGroups, kSubset
<1>3. QED BY <1>1, <1>2, FS_Subset

\* A graph that occurs as an induced subgraph has no more groups of any identifier.
THEOREM InducedHasNoMore ==
    ASSUME NEW l, NEW g, IsFiniteSet(Vertices(l)), IsFiniteSet(Vertices(g)), NEW o, OccursAt(o, l, g, TRUE)
    PROVE  HasEnough(MotifCounts(g), MotifCounts(l))
<1> DEFINE f == [S \in MotifGroups(l) |-> motif_identifier(l, S)]
           h == [S \in MotifGroups(g) |-> motif_identifier(g, S)]
           c == [S \in MotifGroups(l) |-> Places(o, S)]
<1>1. ASSUME NEW A \in MotifGroups(l)
      PROVE  c[A] \in DOMAIN h /\ h[c[A]] = f[A] /\ A \subseteq Vertices(l)
    <2> DEFINE b == [v \in A |-> o[v]]
               B == Places(o, A)
    <2>1. B \in MotifGroups(g) /\ Lists(A) # {} /\ A \subseteq Vertices(l) /\ b \in Bijection(A, B)
        BY GroupCarried
    <2>2. \A u, w \in A : is_edge(g, b[u], b[w]) <=> is_edge(l, u, w)
        BY <2>1 DEF OccursAt
    <2>3. \A u \in A : get_vertex_color(g, b[u]) = get_vertex_color(l, u)
        BY <2>1 DEF OccursAt
    <2>4. c[A] = B
        OBVIOUS
    <2> HIDE DEF b, B
    <2>5. motif_identifier(l, A) = motif_identifier(g, B)
        BY <2>1, <2>2, <2>3, SameIdentifier
    <2> HIDE DEF c
    <2>6. QED BY <2>1, <2>4, <2>5
<1>2. ASSUME NEW A \in MotifGroups(l), NEW B \in MotifGroups(l), c[A] = c[B] PROVE A = B
    <2>1. Places(o, A) = Places(o, B)
        BY <1>2
    <2>2. A \subseteq Vertices(l) /\ B \subseteq Vertices(l)
        BY <1>1
    <2>3. QED BY <2>1, <2>2, PlacesDiffer
<1>3. DOMAIN f = MotifGroups(l) /\ IsFiniteSet(DOMAIN h)
    BY GroupsAreFinite
<1> HIDE DEF f, h, c
<1>4. ASSUME NEW id \in DOMAIN CountsOf(f) PROVE CountsOf(f)[id] <= at(CountsOf(h), id)
    BY <1>1, <1>2, <1>3, CountsCarried
<1>5. ASSUME NEW id \in DOMAIN CountsOf(f) PROVE CountsOf(f)[id] \in Nat
    <2>1. IsFiniteSet(DOMAIN f)
        BY <1>3, GroupsAreFinite
    <2>2. IsFiniteSet({x \in DOMAIN f : f[x] = id})
        BY <2>1, FS_Subset
    <2>3. QED BY <2>2, FS_CardinalityType DEF CountsOf
<1>6. ASSUME NEW id PROVE at(CountsOf(h), id) \in Nat
    <2>1. IsFiniteSet({x \in DOMAIN h : h[x] = id})
        BY <1>3, FS_Subset
    <2>2. QED BY <2>1, FS_CardinalityType DEF CountsOf, at
<1>7. HasEnough(CountsOf(h), CountsOf(f))
    BY <1>4, <1>5, <1>6 DEF HasEnough
<1>8. QED BY <1>7 DEF MotifCounts, f, h

-----------------------------------------------------------------------------
(* Occurrences and paths.                                                  *)

RowOf(g, v) == get_neighbours(g, v, FALSE)

Half(v, w) == <<v, w, FALSE>>

\* A path of an undirected graph as it is recorded: a middle, and two halves.
Halves(root, a, x, b, y) == <<root, <<"out-out", <<Half(a, x), Half(b, y)>>>>>>

IsRecorded(g, root, a, x, b, y) ==
    /\ is_edge(g, root, a) /\ is_edge(g, a, x) /\ is_edge(g, root, b) /\ is_edge(g, b, y)
    /\ x # root /\ y # root /\ a # y /\ x # b /\ x # y

\* A path is told by its vertices.
LEMMA HalvesDiffer ==
    ASSUME NEW root, NEW a, NEW x, NEW b, NEW y, NEW root2, NEW a2, NEW x2, NEW b2, NEW y2,
           Halves(root, a, x, b, y) = Halves(root2, a2, x2, b2, y2)
    PROVE  root = root2 /\ a = a2 /\ x = x2 /\ b = b2 /\ y = y2
BY DEF Halves, Half

\* The half-paths of an undirected graph.
LEMMA HalfPathsAre ==
    ASSUME NEW g, ~g.directed, NEW root, NEW v
    PROVE  half_paths(g, root, v) = {Half(v, w) : w \in RowOf(g, v) \ {root}}
BY DEF half_paths, directions, RowOf, Half

\* The pairs of neighbours that a root of an undirected graph starts from.
LEMMA PairsAre ==
    ASSUME NEW g, ~g.directed, NEW root
    PROVE  /\ \A p \in neighbour_pairs(g, root) :
                \E a, b \in RowOf(g, root) : a < b /\ p = <<"out-out", <<a, b>>>>
           /\ \A a, b \in RowOf(g, root) : a < b => <<"out-out", <<a, b>>>> \in neighbour_pairs(g, root)
<1> DEFINE N == RowOf(g, root)
           E == {e \in N \X N : e[1] < e[2]}
<1>1. neighbour_pairs(g, root) = {"out-out"} \X E
    BY DEF neighbour_pairs, RowOf
<1>2. ASSUME NEW p \in {"out-out"} \X E PROVE \E a, b \in N : a < b /\ p = <<"out-out", <<a, b>>>>
    <2>0. \A e \in E : e \in N \X N /\ e[1] < e[2]
        OBVIOUS
    <2> HIDE DEF E
    <2>1. p[2] \in E /\ p[1] = "out-out" /\ p = <<p[1], p[2]>>
        BY <1>2
    <2>2. p[2] \in N \X N /\ p[2][1] < p[2][2]
        BY <2>0, <2>1
    <2>3. p[2] = <<p[2][1], p[2][2]>> /\ p[2][1] \in N /\ p[2][2] \in N
        BY <2>2
    <2> HIDE DEF N, E
    <2>4. p = <<"out-out", <<p[2][1], p[2][2]>>>>
        BY <2>1, <2>3
    <2>5. QED BY <2>2, <2>3, <2>4
<1>3. ASSUME NEW a \in N, NEW b \in N, a < b PROVE <<"out-out", <<a, b>>>> \in {"out-out"} \X E
    <2>1. <<a, b>> \in N \X N /\ <<a, b>>[1] < <<a, b>>[2]
        BY <1>3
    <2>2. <<a, b>> \in E
        BY <2>1
    <2>3. QED BY <2>2
<1>4. QED BY <1>1, <1>2, <1>3

\* The paths that are recorded of an undirected graph.
LEMMA RecordedAre ==
    ASSUME NEW g, ~g.directed, NEW r
    PROVE  r \in RecordedPaths(g) <=>
             \E root, a, x, b, y \in Vertices(g) :
                /\ r = Halves(root, a, x, b, y)
                /\ IsRecorded(g, root, a, x, b, y)
                /\ a < b
<1>1. \A v, w : w \in RowOf(g, v) <=> w \in Vertices(g) /\ is_edge(g, v, w)
    BY DEF get_neighbours, RowOf
<1>4. \A a, x, b, y : check_path_intersection(Half(a, x), Half(b, y)) <=> a = y \/ x = b \/ x = y
    BY DEF check_path_intersection, Half
<1>5. ASSUME NEW root, NEW q
      PROVE  q \in stream_paths(g, root) <=>
                \E a, b \in RowOf(g, root) :
                    \E x \in RowOf(g, a) \ {root}, y \in RowOf(g, b) \ {root} :
                        /\ a < b /\ ~(a = y \/ x = b \/ x = y)
                        /\ q = <<"out-out", <<Half(a, x), Half(b, y)>>>>
    <2>1. q \in stream_paths(g, root) <=>
            \E pair \in neighbour_pairs(g, root) :
                \E h \in half_paths(g, root, pair[2][1]), k \in half_paths(g, root, pair[2][2]) :
                    ~check_path_intersection(h, k) /\ q = <<pair[1], <<h, k>>>>
        BY DEF stream_paths
    <2>2. ASSUME q \in stream_paths(g, root)
          PROVE  \E a, b \in RowOf(g, root) :
                    \E x \in RowOf(g, a) \ {root}, y \in RowOf(g, b) \ {root} :
                        /\ a < b /\ ~(a = y \/ x = b \/ x = y)
                        /\ q = <<"out-out", <<Half(a, x), Half(b, y)>>>>
        <3>1. PICK pair \in neighbour_pairs(g, root) :
                \E h \in half_paths(g, root, pair[2][1]), k \in half_paths(g, root, pair[2][2]) :
                    ~check_path_intersection(h, k) /\ q = <<pair[1], <<h, k>>>>
            BY <2>1, <2>2
        <3>2. PICK a \in RowOf(g, root), b \in RowOf(g, root) :
                    a < b /\ pair = <<"out-out", <<a, b>>>>
            BY <3>1, PairsAre
        <3>3. pair[1] = "out-out" /\ pair[2][1] = a /\ pair[2][2] = b
            BY <3>2
        <3>4. PICK h \in half_paths(g, root, a), k \in half_paths(g, root, b) :
                    ~check_path_intersection(h, k) /\ q = <<"out-out", <<h, k>>>>
            BY <3>1, <3>3
        <3>5. PICK x \in RowOf(g, a) \ {root} : h = Half(a, x)
            BY <3>4, HalfPathsAre
        <3>6. PICK y \in RowOf(g, b) \ {root} : k = Half(b, y)
            BY <3>4, HalfPathsAre
        <3>7. ~(a = y \/ x = b \/ x = y)
            BY <1>4, <3>4, <3>5, <3>6
        <3>8. QED BY <3>2, <3>4, <3>5, <3>6, <3>7
    <2>3. ASSUME NEW a \in RowOf(g, root), NEW b \in RowOf(g, root), a < b,
                 NEW x \in RowOf(g, a) \ {root}, NEW y \in RowOf(g, b) \ {root},
                 ~(a = y \/ x = b \/ x = y), q = <<"out-out", <<Half(a, x), Half(b, y)>>>>
          PROVE  q \in stream_paths(g, root)
        <3> DEFINE pair == <<"out-out", <<a, b>>>>
                   h == Half(a, x)
                   k == Half(b, y)
        <3>1. pair \in neighbour_pairs(g, root)
            BY <2>3, PairsAre
        <3>2. pair[1] = "out-out" /\ pair[2][1] = a /\ pair[2][2] = b
            OBVIOUS
        <3>3. h \in half_paths(g, root, a) /\ k \in half_paths(g, root, b)
            BY HalfPathsAre
        <3>4. ~check_path_intersection(h, k)
            BY <1>4, <2>3
        <3>5. q = <<pair[1], <<h, k>>>>
            BY <2>3
        <3> HIDE DEF pair, h, k
        <3>6. QED BY <2>1, <3>1, <3>2, <3>3, <3>4, <3>5
    <2>4. QED BY <2>2, <2>3
<1>6. r \in RecordedPaths(g) <=> \E root \in Vertices(g) : \E q \in stream_paths(g, root) : r = <<root, q>>
    BY DEF RecordedPaths
<1>7. ASSUME r \in RecordedPaths(g)
      PROVE  \E root, a, x, b, y \in Vertices(g) : r = Halves(root, a, x, b, y) /\ IsRecorded(g, root, a, x, b, y) /\ a < b
    <2>7. PICK root \in Vertices(g) : \E q \in stream_paths(g, root) : r = <<root, q>>
        BY <1>6, <1>7
    <2>1. PICK q \in stream_paths(g, root) : r = <<root, q>>
        BY <2>7
    <2>2. PICK a \in RowOf(g, root), b \in RowOf(g, root) :
             \E x \in RowOf(g, a) \ {root}, y \in RowOf(g, b) \ {root} :
                        /\ a < b /\ ~(a = y \/ x = b \/ x = y)
                        /\ q = <<"out-out", <<Half(a, x), Half(b, y)>>>>
        BY <1>5, <2>1
    <2>3. PICK x \in RowOf(g, a) \ {root}, y \in RowOf(g, b) \ {root} :
                        /\ a < b /\ ~(a = y \/ x = b \/ x = y)
                        /\ q = <<"out-out", <<Half(a, x), Half(b, y)>>>>
        BY <2>2
    <2>4. IsRecorded(g, root, a, x, b, y) /\ a \in Vertices(g) /\ x \in Vertices(g) /\ b \in Vertices(g) /\ y \in Vertices(g)
        BY <1>1, <2>3 DEF IsRecorded
    <2>5. r = Halves(root, a, x, b, y)
        BY <2>1, <2>3 DEF Halves
    <2>6. QED BY <2>3, <2>4, <2>5
<1>8. ASSUME NEW root \in Vertices(g), NEW a \in Vertices(g), NEW x \in Vertices(g), NEW b \in Vertices(g),
             NEW y \in Vertices(g), r = Halves(root, a, x, b, y), IsRecorded(g, root, a, x, b, y), a < b
      PROVE  r \in RecordedPaths(g)
    <2> DEFINE q == <<"out-out", <<Half(a, x), Half(b, y)>>>>
    <2>1. a \in RowOf(g, root) /\ b \in RowOf(g, root)
          /\ x \in RowOf(g, a) \ {root} /\ y \in RowOf(g, b) \ {root}
          /\ ~(a = y \/ x = b \/ x = y)
        BY <1>1, <1>8 DEF IsRecorded
    <2>2. q \in stream_paths(g, root)
        BY <1>5, <1>8, <2>1
    <2>3. r = <<root, q>>
        BY <1>8 DEF Halves
    <2> HIDE DEF q
    <2>4. QED BY <1>6, <2>2, <2>3
<1>9. QED BY <1>7, <1>8

-----------------------------------------------------------------------------
(* The numbers of paths.                                                   *)

\* Colour sequences are compared from the left.
LEMMA SequenceLeqIs ==
    ASSUME NEW s \in [1 .. 5 -> Nat], NEW t \in [1 .. 5 -> Nat]
    PROVE  sequence_leq(s, t) <=>
             \/ s[1] < t[1]
             \/ s[1] = t[1] /\ s[2] < t[2]
             \/ s[1] = t[1] /\ s[2] = t[2] /\ s[3] < t[3]
             \/ s[1] = t[1] /\ s[2] = t[2] /\ s[3] = t[3] /\ s[4] < t[4]
             \/ s[1] = t[1] /\ s[2] = t[2] /\ s[3] = t[3] /\ s[4] = t[4] /\ s[5] <= t[5]
<1>1. s = t <=> s[1] = t[1] /\ s[2] = t[2] /\ s[3] = t[3] /\ s[4] = t[4] /\ s[5] = t[5]
    OBVIOUS
<1>2. \A i \in 1 .. 5 : s[i] \in Nat /\ t[i] \in Nat
    OBVIOUS
<1> DEFINE First(i) == s[i] < t[i] /\ \A j \in 1 .. i - 1 : s[j] = t[j]
<1>3. (\E i \in 1 .. 5 : First(i)) <=> First(1) \/ First(2) \/ First(3) \/ First(4) \/ First(5)
    <2>1. \A i : i \in 1 .. 5 <=> i = 1 \/ i = 2 \/ i = 3 \/ i = 4 \/ i = 5
        OBVIOUS
    <2> HIDE DEF First
    <2>2. QED BY <2>1
<1>4. /\ First(1) <=> s[1] < t[1]
      /\ First(2) <=> s[1] = t[1] /\ s[2] < t[2]
      /\ First(3) <=> s[1] = t[1] /\ s[2] = t[2] /\ s[3] < t[3]
      /\ First(4) <=> s[1] = t[1] /\ s[2] = t[2] /\ s[3] = t[3] /\ s[4] < t[4]
      /\ First(5) <=> s[1] = t[1] /\ s[2] = t[2] /\ s[3] = t[3] /\ s[4] = t[4] /\ s[5] < t[5]
    OBVIOUS
<1>5. sequence_leq(s, t) <=> s = t \/ \E i \in 1 .. 5 : First(i)
    BY DEF sequence_leq
<1> HIDE DEF First
<1>6. QED BY <1>1, <1>2, <1>3, <1>4, <1>5

\* Five numbers in a row.
LEMMA NumbersAreSeq ==
    ASSUME NEW n \in Nat, NEW s \in [1 .. n -> Nat]
    PROVE  s \in Seq(Nat) /\ Len(s) = n
OBVIOUS

\* Of two sequences of numbers one is no larger than the other.
LEMMA SequencesCompare ==
    ASSUME NEW s \in [1 .. 5 -> Nat], NEW t \in [1 .. 5 -> Nat]
    PROVE  /\ sequence_leq(s, t) \/ sequence_leq(t, s)
           /\ sequence_leq(s, t) /\ sequence_leq(t, s) => s = t
<1>1. s = t <=> s[1] = t[1] /\ s[2] = t[2] /\ s[3] = t[3] /\ s[4] = t[4] /\ s[5] = t[5]
    OBVIOUS
<1>2. \A i \in 1 .. 5 : s[i] \in Nat /\ t[i] \in Nat
    OBVIOUS
<1>3. QED BY <1>1, <1>2, SequenceLeqIs

Along(g, root, a, x, b, y) == [i \in 1 .. 5 |-> get_vertex_color(g, <<x, a, root, b, y>>[i])]

HalfPair(a, x, b, y) == <<Half(a, x), Half(b, y)>>

Undescribed == <<FALSE, FALSE, FALSE, FALSE>>

Smaller(s, t) == [colors |-> IF sequence_leq(s, t) THEN s ELSE t, edges |-> Undescribed]

\* The number of a path of an undirected graph: the smaller of its two readings.
LEMMA NumberIs ==
    ASSUME NEW g, ~g.directed, \A v \in Vertices(g) : get_vertex_color(g, v) \in Nat,
           NEW root \in Vertices(g), NEW a \in Vertices(g), NEW x \in Vertices(g), NEW b \in Vertices(g), NEW y \in Vertices(g)
    PROVE  /\ PathNumber(g, root, HalfPair(a, x, b, y)) =
                Smaller(Along(g, root, a, x, b, y), Along(g, root, b, y, a, x))
           /\ Along(g, root, a, x, b, y) \in [1 .. 5 -> Nat]
<1> DEFINE path == HalfPair(a, x, b, y)
           forward == [i \in 1 .. 5 |-> get_vertex_color(g, concatenate_path(root, path)[i])]
           A == Along(g, root, a, x, b, y)
           B == Along(g, root, b, y, a, x)
<1>1. concatenate_path(root, path) = <<x, a, root, b, y>>
    BY DEF concatenate_path, HalfPair, Half
<1>2. forward = A
    BY <1>1 DEF Along
<1>3. \A i \in 1 .. 5 : <<x, a, root, b, y>>[i] \in Vertices(g)
    OBVIOUS
<1>4. A \in [1 .. 5 -> Nat]
    BY <1>3 DEF Along
<1>5. Reverse(A) = B
    <2>1. A \in Seq(Nat) /\ Len(A) = 5
        BY <1>4, NumbersAreSeq
    <2>2. Reverse(A) = [i \in 1 .. 5 |-> A[(5 - i) + 1]]
        BY <2>1 DEF Reverse
    <2>3. \A i \in 1 .. 5 : <<x, a, root, b, y>>[(5 - i) + 1] = <<y, b, root, a, x>>[i] /\ (5 - i) + 1 \in 1 .. 5
        OBVIOUS
    <2>4. \A i \in 1 .. 5 : A[(5 - i) + 1] = B[i]
        BY <2>3 DEF Along
    <2>5. B = [i \in 1 .. 5 |-> B[i]]
        BY DEF Along
    <2> HIDE DEF A, B
    <2>6. QED BY <2>2, <2>4, <2>5
<1>6. compute_motif_descriptor(g, path) = Undescribed
    BY DEF compute_motif_descriptor, Undescribed
<1>7. PathNumber(g, root, path) =
        IF sequence_leq(forward, Reverse(forward))
        THEN [colors |-> forward, edges |-> compute_motif_descriptor(g, path)]
        ELSE [colors |-> Reverse(forward), edges |-> compute_motif_descriptor(g, path)]
    BY DEF PathNumber
<1> HIDE DEF forward, A, B, path
<1>8. PathNumber(g, root, path) = [colors |-> IF sequence_leq(A, B) THEN A ELSE B, edges |-> Undescribed]
    BY <1>2, <1>5, <1>6, <1>7
<1>9. QED BY <1>4, <1>8 DEF A, B, path, Smaller

\* The number of a path does not depend on which half comes first.
LEMMA HalvesSwap ==
    ASSUME NEW g, ~g.directed, \A v \in Vertices(g) : get_vertex_color(g, v) \in Nat,
           NEW root \in Vertices(g), NEW a \in Vertices(g), NEW x \in Vertices(g), NEW b \in Vertices(g), NEW y \in Vertices(g)
    PROVE  PathNumber(g, root, HalfPair(a, x, b, y)) = PathNumber(g, root, HalfPair(b, y, a, x))
<1> DEFINE A == Along(g, root, a, x, b, y)
           B == Along(g, root, b, y, a, x)
<1>1. A \in [1 .. 5 -> Nat] /\ B \in [1 .. 5 -> Nat]
    BY NumberIs
<1>2. PathNumber(g, root, HalfPair(a, x, b, y)) = Smaller(A, B)
    BY NumberIs
<1>3. PathNumber(g, root, HalfPair(b, y, a, x)) = Smaller(B, A)
    BY NumberIs
<1> HIDE DEF A, B
<1>4. (IF sequence_leq(A, B) THEN A ELSE B) = (IF sequence_leq(B, A) THEN B ELSE A)
    BY <1>1, SequencesCompare
<1>5. QED BY <1>2, <1>3, <1>4 DEF Smaller

\* A recorded path of the graph that occurs, at the other's vertices: the half with the
\* smaller neighbour comes first there, too.
Carried(o, r) ==
    LET root == o[r[1]]
        h    == Half(o[r[2][2][1][1]], o[r[2][2][1][2]])
        k    == Half(o[r[2][2][2][1]], o[r[2][2][2][2]]) IN
    IF h[1] < k[1] THEN <<root, <<"out-out", <<h, k>>>>>> ELSE <<root, <<"out-out", <<k, h>>>>>>

\* Where a path is carried, either way round.
LEMMA CarriedIs ==
    ASSUME NEW o, NEW root, NEW a, NEW x, NEW b, NEW y
    PROVE  Carried(o, Halves(root, a, x, b, y)) =
             IF o[a] < o[b] THEN Halves(o[root], o[a], o[x], o[b], o[y])
                            ELSE Halves(o[root], o[b], o[y], o[a], o[x])
<1> DEFINE r == Halves(root, a, x, b, y)
<1>1. /\ r[1] = root /\ r[2][2][1][1] = a /\ r[2][2][1][2] = x
      /\ r[2][2][2][1] = b /\ r[2][2][2][2] = y
    BY DEF Halves, Half
<1> HIDE DEF r
<1>2. \A u, v : Half(u, v)[1] = u
    BY DEF Half
<1> DEFINE h == Half(o[a], o[x])
           k == Half(o[b], o[y])
<1>3. Carried(o, r) = IF h[1] < k[1] THEN <<o[root], <<"out-out", <<h, k>>>>>> ELSE <<o[root], <<"out-out", <<k, h>>>>>>
    BY <1>1 DEF Carried
<1>4. h[1] = o[a] /\ k[1] = o[b]
    BY <1>2
<1>5. /\ Halves(o[root], o[a], o[x], o[b], o[y]) = <<o[root], <<"out-out", <<h, k>>>>>>
      /\ Halves(o[root], o[b], o[y], o[a], o[x]) = <<o[root], <<"out-out", <<k, h>>>>>>
    BY DEF Halves
<1> HIDE DEF h, k
<1>6. QED BY <1>3, <1>4, <1>5 DEF r

PathNumberOf(g, r) == PathNumber(g, r[1], r[2][2])

\* The number of a path that is given by its vertices.
LEMMA NumberOfHalves ==
    ASSUME NEW g, NEW root, NEW a, NEW x, NEW b, NEW y
    PROVE  PathNumberOf(g, Halves(root, a, x, b, y)) = PathNumber(g, root, HalfPair(a, x, b, y))
<1>1. Halves(root, a, x, b, y)[1] = root /\ Halves(root, a, x, b, y)[2][2] = HalfPair(a, x, b, y)
    BY DEF Halves, HalfPair
<1>2. QED BY <1>1 DEF PathNumberOf

\* An undirected graph of numbered vertices and colours.
IsNumbered(g) ==
    /\ ~g.directed
    /\ IsFiniteSet(Vertices(g)) /\ Vertices(g) \subseteq Int
    /\ \A v \in Vertices(g) : get_vertex_color(g, v) \in Nat

\* A path is carried to one that is recorded, under the same number.
LEMMA PathCarried ==
    ASSUME NEW l, NEW g, IsNumbered(l), IsNumbered(g), NEW induced, NEW o, OccursAt(o, l, g, induced),
           NEW r \in RecordedPaths(l)
    PROVE  Carried(o, r) \in RecordedPaths(g) /\ PathNumberOf(g, Carried(o, r)) = PathNumberOf(l, r)
<1>1. PICK root \in Vertices(l), a \in Vertices(l), x \in Vertices(l), b \in Vertices(l), y \in Vertices(l) :
        r = Halves(root, a, x, b, y) /\ IsRecorded(l, root, a, x, b, y) /\ a < b
    BY RecordedAre DEF IsNumbered
<1>2. \A u \in Vertices(l) : o[u] \in Vertices(g) /\ o[u] \in Int
    BY DEF OccursAt, IsNumbered
<1>3. \A u, w \in Vertices(l) : (is_edge(l, u, w) => is_edge(g, o[u], o[w])) /\ (o[u] = o[w] => u = w)
    BY DEF OccursAt
<1>4. IsRecorded(g, o[root], o[a], o[x], o[b], o[y]) /\ IsRecorded(g, o[root], o[b], o[y], o[a], o[x])
    BY <1>1, <1>3 DEF IsRecorded
<1>5. a # b
    BY <1>1 DEF IsNumbered
<1>6. o[a] < o[b] \/ o[b] < o[a]
    BY <1>2, <1>3, <1>5
<1>0. /\ ~g.directed /\ \A v \in Vertices(g) : get_vertex_color(g, v) \in Nat
      /\ ~l.directed /\ \A v \in Vertices(l) : get_vertex_color(l, v) \in Nat
    BY DEF IsNumbered
<1> DEFINE p == Halves(o[root], o[a], o[x], o[b], o[y])
           q == Halves(o[root], o[b], o[y], o[a], o[x])
<1>7. Carried(o, r) = IF o[a] < o[b] THEN p ELSE q
    BY <1>1, CarriedIs
<1>8. (o[a] < o[b] => p \in RecordedPaths(g)) /\ (o[b] < o[a] => q \in RecordedPaths(g))
    BY <1>2, <1>4, RecordedAre DEF IsNumbered
<1>9. PathNumberOf(g, p) = PathNumberOf(g, q)
    <2>1. PathNumber(g, o[root], HalfPair(o[a], o[x], o[b], o[y])) = PathNumber(g, o[root], HalfPair(o[b], o[y], o[a], o[x]))
        BY <1>2, HalvesSwap DEF IsNumbered
    <2>2. QED BY <2>1, NumberOfHalves
<1>10. PathNumberOf(g, p) = PathNumberOf(l, r)
    <2>1. \A u \in Vertices(l) : get_vertex_color(g, o[u]) = get_vertex_color(l, u)
        BY DEF OccursAt
    <2>2. ASSUME NEW s \in Vertices(l), NEW c \in Vertices(l), NEW d \in Vertices(l), NEW e \in Vertices(l), NEW f \in Vertices(l)
          PROVE  Along(g, o[s], o[c], o[d], o[e], o[f]) = Along(l, s, c, d, e, f)
        <3>1. ASSUME NEW i \in 1 .. 5
              PROVE  get_vertex_color(g, <<o[d], o[c], o[s], o[e], o[f]>>[i]) = get_vertex_color(l, <<d, c, s, e, f>>[i])
            <4>1. <<o[d], o[c], o[s], o[e], o[f]>>[i] = o[<<d, c, s, e, f>>[i]] /\ <<d, c, s, e, f>>[i] \in Vertices(l)
                OBVIOUS
            <4>2. QED BY <2>1, <4>1
        <3>2. QED BY <3>1 DEF Along
    <2>3. PathNumber(g, o[root], HalfPair(o[a], o[x], o[b], o[y]))
            = Smaller(Along(g, o[root], o[a], o[x], o[b], o[y]), Along(g, o[root], o[b], o[y], o[a], o[x]))
        <3>1. o[root] \in Vertices(g) /\ o[a] \in Vertices(g) /\ o[x] \in Vertices(g) /\ o[b] \in Vertices(g) /\ o[y] \in Vertices(g)
            BY <1>2
        <3>2. \A s, c, d, e, f \in Vertices(g) :
                PathNumber(g, s, HalfPair(c, d, e, f)) = Smaller(Along(g, s, c, d, e, f), Along(g, s, e, f, c, d))
            BY <1>0, NumberIs
        <3>3. QED BY <3>1, <3>2
    <2>4. PathNumber(l, root, HalfPair(a, x, b, y)) = Smaller(Along(l, root, a, x, b, y), Along(l, root, b, y, a, x))
        BY <1>0, NumberIs
    <2>5. /\ Along(g, o[root], o[a], o[x], o[b], o[y]) = Along(l, root, a, x, b, y)
          /\ Along(g, o[root], o[b], o[y], o[a], o[x]) = Along(l, root, b, y, a, x)
        BY <2>2
    <2>6. PathNumber(g, o[root], HalfPair(o[a], o[x], o[b], o[y])) = PathNumber(l, root, HalfPair(a, x, b, y))
        BY <2>3, <2>4, <2>5
    <2>7. QED BY <1>1, <2>6, NumberOfHalves
<1> HIDE DEF p, q
<1>11. QED BY <1>6, <1>7, <1>8, <1>9, <1>10

\* Different paths are carried to different paths.
LEMMA PathsCarriedDiffer ==
    ASSUME NEW l, NEW g, IsNumbered(l), IsNumbered(g), NEW induced, NEW o, OccursAt(o, l, g, induced),
           NEW r \in RecordedPaths(l), NEW s \in RecordedPaths(l), Carried(o, r) = Carried(o, s)
    PROVE  r = s
<1>1. PICK root \in Vertices(l), a \in Vertices(l), x \in Vertices(l), b \in Vertices(l), y \in Vertices(l) :
        r = Halves(root, a, x, b, y) /\ IsRecorded(l, root, a, x, b, y) /\ a < b
    BY RecordedAre DEF IsNumbered
<1>2. PICK top \in Vertices(l), c \in Vertices(l), z \in Vertices(l), d \in Vertices(l), w \in Vertices(l) :
        s = Halves(top, c, z, d, w) /\ IsRecorded(l, top, c, z, d, w) /\ c < d
    BY RecordedAre DEF IsNumbered
<1>3. \A u, v \in Vertices(l) : o[u] = o[v] => u = v
    BY DEF OccursAt
<1>4. a \in Int /\ b \in Int /\ c \in Int /\ d \in Int
    BY DEF IsNumbered
<1>5. /\ Carried(o, r) = IF o[a] < o[b] THEN Halves(o[root], o[a], o[x], o[b], o[y])
                                        ELSE Halves(o[root], o[b], o[y], o[a], o[x])
      /\ Carried(o, s) = IF o[c] < o[d] THEN Halves(o[top], o[c], o[z], o[d], o[w])
                                        ELSE Halves(o[top], o[d], o[w], o[c], o[z])
    BY <1>1, <1>2, CarriedIs
<1>6. \/ Halves(o[root], o[a], o[x], o[b], o[y]) = Halves(o[top], o[c], o[z], o[d], o[w])
      \/ Halves(o[root], o[a], o[x], o[b], o[y]) = Halves(o[top], o[d], o[w], o[c], o[z])
      \/ Halves(o[root], o[b], o[y], o[a], o[x]) = Halves(o[top], o[c], o[z], o[d], o[w])
      \/ Halves(o[root], o[b], o[y], o[a], o[x]) = Halves(o[top], o[d], o[w], o[c], o[z])
    BY <1>5
<1>7. \/ o[root] = o[top] /\ o[a] = o[c] /\ o[x] = o[z] /\ o[b] = o[d] /\ o[y] = o[w]
      \/ o[root] = o[top] /\ o[a] = o[d] /\ o[x] = o[w] /\ o[b] = o[c] /\ o[y] = o[z]
    BY <1>6, HalvesDiffer
<1>8. \/ root = top /\ a = c /\ x = z /\ b = d /\ y = w
      \/ a = d /\ b = c
    BY <1>3, <1>7
<1>9. QED BY <1>1, <1>2, <1>4, <1>8

\* There are finitely many paths.
LEMMA PathsAreFinite == ASSUME NEW g, IsNumbered(g) PROVE IsFiniteSet(RecordedPaths(g))
<1> DEFINE V == Vertices(g)
           T == ((V \X V) \X (V \X V)) \X V
           f == [t \in T |-> Halves(t[2], t[1][1][1], t[1][1][2], t[1][2][1], t[1][2][2])]
           R == {f[t] : t \in T}
<1>1. IsFiniteSet(V \X V)
    BY FS_Product DEF IsNumbered
<1>2. IsFiniteSet((V \X V) \X (V \X V))
    BY <1>1, FS_Product
<1>3. IsFiniteSet(T)
    BY <1>2, FS_Product DEF IsNumbered
<1>4. ASSUME NEW r \in RecordedPaths(g) PROVE r \in R
    <2>1. PICK root \in V, a \in V, x \in V, b \in V, y \in V : r = Halves(root, a, x, b, y)
        BY RecordedAre DEF IsNumbered
    <2> DEFINE t == <<<<<<a, x>>, <<b, y>>>>, root>>
    <2>2. t \in T /\ t[2] = root /\ t[1][1][1] = a /\ t[1][1][2] = x /\ t[1][2][1] = b /\ t[1][2][2] = y
        OBVIOUS
    <2> HIDE DEF t, T
    <2>3. f[t] = r
        BY <2>1, <2>2
    <2> HIDE DEF f
    <2>4. QED BY <2>2, <2>3
<1> HIDE DEF T, f
<1>5. IsFiniteSet(R)
    BY <1>3, FiniteImage
<1>6. RecordedPaths(g) \in SUBSET R
    BY <1>4
<1> HIDE DEF R
<1>7. QED BY <1>5, <1>6, FS_Subset

\* Counts are numbers.
LEMMA CountsAreNumbers ==
    ASSUME NEW f, IsFiniteSet(DOMAIN f)
    PROVE  /\ \A id \in DOMAIN CountsOf(f) : CountsOf(f)[id] \in Nat \ {0}
           /\ \A id : at(CountsOf(f), id) \in Nat
<1>1. ASSUME NEW id \in DOMAIN CountsOf(f) PROVE CountsOf(f)[id] \in Nat \ {0}
    <2> DEFINE X == {x \in DOMAIN f : f[x] = id}
    <2>1. IsFiniteSet(X)
        BY FS_Subset
    <2>2. X # {}
        BY DEF CountsOf, Range
    <2>3. CountsOf(f)[id] = Cardinality(X)
        BY DEF CountsOf
    <2> HIDE DEF X
    <2>4. QED BY <2>1, <2>2, <2>3, FS_CardinalityType, FS_EmptySet
<1>2. QED BY <1>1 DEF at

PathCounts(g) == CountsOf([r \in RecordedPaths(g) |-> PathNumberOf(g, r)])

\* An undirected graph that occurs has no more paths of any number, induced or not.
THEOREM OccurrenceHasNoMorePaths ==
    ASSUME NEW l, NEW g, IsNumbered(l), IsNumbered(g), NEW induced, NEW o, OccursAt(o, l, g, induced)
    PROVE  HasEnough(PathCounts(g), PathCounts(l))
<1> DEFINE f == [r \in RecordedPaths(l) |-> PathNumberOf(l, r)]
           h == [r \in RecordedPaths(g) |-> PathNumberOf(g, r)]
           c == [r \in RecordedPaths(l) |-> Carried(o, r)]
<1>1. \A r \in RecordedPaths(l) : c[r] \in DOMAIN h /\ h[c[r]] = f[r]
    BY PathCarried
<1>2. ASSUME NEW r \in RecordedPaths(l), NEW s \in RecordedPaths(l), c[r] = c[s] PROVE r = s
    <2>1. Carried(o, r) = Carried(o, s)
        BY <1>2
    <2>2. QED BY <2>1, PathsCarriedDiffer
<1>3. DOMAIN f = RecordedPaths(l) /\ IsFiniteSet(DOMAIN f) /\ IsFiniteSet(DOMAIN h)
    BY PathsAreFinite
<1> HIDE DEF f, h, c
<1>4. ASSUME NEW id \in DOMAIN CountsOf(f) PROVE CountsOf(f)[id] <= at(CountsOf(h), id)
    BY <1>1, <1>2, <1>3, CountsCarried
<1>5. \A id \in DOMAIN CountsOf(f) : CountsOf(f)[id] \in Nat /\ at(CountsOf(h), id) \in Nat
    BY <1>3, CountsAreNumbers
<1>6. HasEnough(CountsOf(h), CountsOf(f))
    BY <1>4, <1>5 DEF HasEnough
<1>7. QED BY <1>6 DEF PathCounts, f, h

-----------------------------------------------------------------------------
(* The least colouring.                                                    *)

\* Some number of a set is its least.
LEMMA LeastNumber ==
    ASSUME NEW S, S \subseteq Nat, S # {}
    PROVE  \E x \in S : \A y \in S : x <= y
<1>1. PICK z \in S : TRUE
    OBVIOUS
<1> DEFINE T == {y \in S : y <= z}
<1>0. z \in Nat /\ z \in T
    BY <1>1
<1>2. T \subseteq 0 .. z /\ z \in Nat /\ T # {}
    <2>1. ASSUME NEW y \in T PROVE y \in 0 .. z
        <3>1. y \in Nat /\ y <= z
            BY <2>1
        <3>2. QED BY <1>0, <3>1
    <2>2. QED BY <1>0, <2>1
<1>3. IsFiniteSet(0 .. z)
    BY <1>2, FS_Interval
<1>4. IsFiniteSet(T) /\ T \subseteq Int
    BY <1>2, <1>3, FS_Subset
<1>5. Min(T) \in T /\ \A y \in T : Min(T) <= y
    <2> HIDE DEF T
    <2>1. QED BY <1>2, <1>4, SmallestOfSet
<1>6. \A y \in S : Min(T) <= y
    BY <1>2, <1>5
<1>7. QED BY <1>5, <1>6

\* The order of colourings.
LEMMA ColorsLeqIs ==
    ASSUME NEW s \in [Positions -> Nat], NEW t \in [Positions -> Nat]
    PROVE  colors_leq(s, t) <=>
             \/ s[1] < t[1]
             \/ s[1] = t[1] /\ s[2] < t[2]
             \/ s[1] = t[1] /\ s[2] = t[2] /\ s[3] < t[3]
             \/ s[1] = t[1] /\ s[2] = t[2] /\ s[3] = t[3] /\ s[4] <= t[4]
<1> USE DEF Positions
<1>1. s = t <=> s[1] = t[1] /\ s[2] = t[2] /\ s[3] = t[3] /\ s[4] = t[4]
    OBVIOUS
<1>2. \A i \in 1 .. 4 : s[i] \in Nat /\ t[i] \in Nat
    OBVIOUS
<1> DEFINE First(i) == s[i] < t[i] /\ \A j \in 1 .. i - 1 : s[j] = t[j]
<1>3. (\E i \in 1 .. 4 : First(i)) <=> First(1) \/ First(2) \/ First(3) \/ First(4)
    <2>1. \A i : i \in 1 .. 4 <=> i = 1 \/ i = 2 \/ i = 3 \/ i = 4
        OBVIOUS
    <2> HIDE DEF First
    <2>2. QED BY <2>1
<1>4. /\ First(1) <=> s[1] < t[1]
      /\ First(2) <=> s[1] = t[1] /\ s[2] < t[2]
      /\ First(3) <=> s[1] = t[1] /\ s[2] = t[2] /\ s[3] < t[3]
      /\ First(4) <=> s[1] = t[1] /\ s[2] = t[2] /\ s[3] = t[3] /\ s[4] < t[4]
    OBVIOUS
<1>5. colors_leq(s, t) <=> s = t \/ \E i \in 1 .. 4 : First(i)
    BY DEF colors_leq
<1> HIDE DEF First
<1>6. QED BY <1>1, <1>2, <1>3, <1>4, <1>5

\* Some colouring of a set is its least: least at the first position, of those at the
\* second, and so on.
LEMMA LeastColoring ==
    ASSUME NEW C, C \subseteq [Positions -> Nat], C # {}
    PROVE  \E c \in C : \A d \in C : colors_leq(c, d)
<1> DEFINE Of(D, i) == {d[i] : d \in D}
<1>1. \A d \in C : d[1] \in Nat /\ d[2] \in Nat /\ d[3] \in Nat /\ d[4] \in Nat
    BY DEF Positions
<1>2. ASSUME NEW D, D \subseteq C, D # {}, NEW i \in Positions
      PROVE  \E c \in D : \A d \in D : c[i] <= d[i]
    <2>1. Of(D, i) \subseteq Nat /\ Of(D, i) # {}
        BY <1>1, <1>2 DEF Positions
    <2>2. PICK x \in Of(D, i) : \A y \in Of(D, i) : x <= y
        BY <2>1, LeastNumber
    <2>3. PICK c \in D : c[i] = x
        BY <2>2
    <2>4. QED BY <2>2, <2>3
<1>3. PICK c1 \in C : \A d \in C : c1[1] <= d[1]
    <2>1. C \subseteq C /\ C # {} /\ 1 \in Positions
        BY DEF Positions
    <2>2. QED BY <1>2, <2>1
<1> DEFINE C1 == {d \in C : d[1] = c1[1]}
<1>4. PICK c2 \in C1 : \A d \in C1 : c2[2] <= d[2]
    <2>1. C1 \subseteq C /\ C1 # {} /\ 2 \in Positions
        BY <1>3 DEF Positions
    <2> HIDE DEF C1
    <2>2. QED BY <1>2, <2>1
<1> DEFINE C2 == {d \in C1 : d[2] = c2[2]}
<1>5. PICK c3 \in C2 : \A d \in C2 : c3[3] <= d[3]
    <2>1. C2 \subseteq C /\ C2 # {} /\ 3 \in Positions
        BY <1>4 DEF Positions
    <2> HIDE DEF C1, C2
    <2>2. QED BY <1>2, <2>1
<1> DEFINE C3 == {d \in C2 : d[3] = c3[3]}
<1>6. PICK c4 \in C3 : \A d \in C3 : c4[4] <= d[4]
    <2>1. C3 \subseteq C /\ C3 # {} /\ 4 \in Positions
        BY <1>5 DEF Positions
    <2> HIDE DEF C1, C2, C3
    <2>2. QED BY <1>2, <2>1
<1>7. c4 \in C /\ c4[1] = c1[1] /\ c4[2] = c2[2] /\ c4[3] = c3[3]
    BY <1>6
<1>8. ASSUME NEW d \in C PROVE colors_leq(c4, d)
    <2>1. c4[1] <= d[1]
        BY <1>3, <1>7
    <2>2. c4[1] = d[1] => c4[2] <= d[2]
        BY <1>4, <1>7
    <2>3. c4[1] = d[1] /\ c4[2] = d[2] => c4[3] <= d[3]
        BY <1>5, <1>7
    <2>4. c4[1] = d[1] /\ c4[2] = d[2] /\ c4[3] = d[3] => c4[4] <= d[4]
        BY <1>6, <1>7
    <2>5. c4 \in [Positions -> Nat] /\ d \in [Positions -> Nat]
        BY <1>7
    <2>6. /\ c4[1] \in Nat /\ c4[2] \in Nat /\ c4[3] \in Nat /\ c4[4] \in Nat
          /\ d[1] \in Nat /\ d[2] \in Nat /\ d[3] \in Nat /\ d[4] \in Nat
        BY <1>1, <1>7
    <2>7. QED BY <2>1, <2>2, <2>3, <2>4, <2>5, <2>6, ColorsLeqIs
<1>9. QED BY <1>7, <1>8

\* The identifier of a group is what one of its lists shows.
LEMMA IdentifierShows ==
    ASSUME NEW g, NEW A, Lists(A) # {}, \A v \in A : get_vertex_color(g, v) \in Nat
    PROVE  \E f \in Lists(A) :
             /\ motif_identifier(g, A) = [edges  |-> Laid(g, f),
                                          colors |-> [i \in Positions |-> get_vertex_color(g, f[i])]]
             /\ canonical_structure(Laid(g, f)) = Laid(g, f)
<1>1. PICK f0 \in Lists(A) : TRUE
    OBVIOUS
<1> DEFINE s == canonical_structure(Laid(g, f0))
           C == Colorings(g, A)
           least == CHOOSE c \in C : \A d \in C : colors_leq(c, d)
<1>2. motif_identifier(g, A) = [edges |-> s, colors |-> least]
    BY IdentifierIs
<1>3. CanonicalOrders(g, A) = {h \in Lists(A) : Laid(g, h) = s} /\ CanonicalOrders(g, A) # {}
    BY OrdersAre
<1>4. C \subseteq [Positions -> Nat] /\ C # {}
    <2>1. ASSUME NEW f \in CanonicalOrders(g, A)
          PROVE  [i \in Positions |-> get_vertex_color(g, f[i])] \in [Positions -> Nat]
        <3>1. \A i \in Positions : f[i] \in A
            BY <1>3, <2>1, ListIs
        <3>2. QED BY <3>1
    <2>2. QED BY <1>3, <2>1 DEF Colorings
<1>5. least \in C
    <2> HIDE DEF C
    <2>1. \E c \in C : \A d \in C : colors_leq(c, d)
        BY <1>4, LeastColoring
    <2>2. QED BY <2>1
<1> HIDE DEF least
<1>6. PICK f \in CanonicalOrders(g, A) : least = [i \in Positions |-> get_vertex_color(g, f[i])]
    BY <1>5 DEF Colorings
<1>7. f \in Lists(A) /\ Laid(g, f) = s
    BY <1>3, <1>6
<1>8. canonical_structure(Laid(g, f)) = s
    <2>1. CanonicalOrders(g, A) = {h \in Lists(A) : Laid(g, h) = canonical_structure(Laid(g, f))}
        BY <1>7, OrdersAre
    <2>2. QED BY <1>6, <1>7, <2>1
<1>9. QED BY <1>2, <1>6, <1>7, <1>8

-----------------------------------------------------------------------------
(* Occurrences that need not be induced.                                   *)

\* A table is the function it is made of.
LEMMA TableIs == ASSUME NEW f PROVE Table(f) = f
BY DEF Table

\* What the table holds of a canonical undirected structure.
LEMMA UndirectedDagIs ==
    ASSUME NEW t \in UndirectedStructures
    PROVE  UNDIRECTED_MOTIF_DAG[canonical_structure(t)] = InclusionDag(canonical_structure(t), FALSE)
<1> DEFINE f == [s \in {canonical_structure(u) : u \in UndirectedStructures} |-> InclusionDag(s, FALSE)]
<1>1. f[canonical_structure(t)] = InclusionDag(canonical_structure(t), FALSE)
    OBVIOUS
<1>2. UNDIRECTED_MOTIF_DAG = f
    <2> DEFINE h == f
    <2>1. UNDIRECTED_MOTIF_DAG = Table(h)
        BY DEF UNDIRECTED_MOTIF_DAG
    <2> HIDE DEF h
    <2>2. UNDIRECTED_MOTIF_DAG = h
        BY <2>1, TableIs
    <2>3. QED BY <2>2 DEF h
<1>3. QED BY <1>1, <1>2

\* Graphs whose edges the DAG of this direction knows.
Known(g, directed) ==
    directed \in BOOLEAN /\ (~directed => \A u, w \in Vertices(g) : is_edge(g, u, w) => is_edge(g, w, u))

NoLoops(g) == \A u \in Vertices(g) : ~is_edge(g, u, u)

\* A list of a connected group shows a connected structure.
LEMMA LaidIsConnected ==
    ASSUME NEW g, NEW A, NEW f \in Lists(A), IsConnected(Inside(g, A))
    PROVE  IsConnected(AsGraph(Laid(g, f)))
<1> DEFINE b == [v \in A |-> CHOOSE i \in Positions : f[i] = v]
           c == Inside(g, A)
           d == AsGraph(Laid(g, f))
<1>1. \A v \in A : b[v] \in Positions /\ f[b[v]] = v
    BY ListIs
<1>2. b \in Bijection(A, Positions)
    <2>1. b \in [A -> Positions]
        BY <1>1
    <2> HIDE DEF b
    <2>2. \A u, w \in A : b[u] = b[w] => u = w
        BY <1>1
    <2>3. \A i \in Positions : \E v \in A : b[v] = i
        BY <1>1, ListIs
    <2>4. QED BY <2>1, <2>2, <2>3 DEF Bijection, Injection, Surjection, IsInjective
<1>3. Vertices(c) = A /\ Vertices(d) = Positions
    BY DEF Vertices, Inside, AsGraph
<1>4. ASSUME NEW u \in A, NEW w \in A, is_edge(c, u, w) PROVE is_edge(d, b[u], b[w])
    <2>1. is_edge(g, f[b[u]], f[b[w]])
        BY <1>1, <1>4 DEF is_edge, Inside
    <2> HIDE DEF b
    <2>2. <<b[u], b[w]>> \in Laid(g, f)
        BY <1>1, <2>1 DEF Laid
    <2>3. QED BY <2>2 DEF is_edge, AsGraph
<1> HIDE DEF b, d
<1>5. IsConnected(d)
    <2> HIDE DEF c
    <2>1. IsConnected(c)
        BY DEF c
    <2>2. QED BY <1>2, <1>3, <1>4, <2>1, ConnectedCarried
<1>6. QED BY <1>5 DEF d

\* A structure that loses edges, but stays connected and of its direction, has an
\* edge in the DAG to each of the permutations that make the rest canonical.
LEMMA DagHas ==
    ASSUME NEW t, NEW s, s \subseteq t, s # t, NEW directed, directed \/ IsSymmetric(s), IsConnected(AsGraph(s)),
           NEW q \in Permutations4, Relabelled(s, q) = canonical_structure(s)
    PROVE  <<canonical_structure(s), q>> \in InclusionDag(t, directed)
<1>1. s \in {r \in (SUBSET t) \ {t} : (directed \/ IsSymmetric(r)) /\ IsConnected(AsGraph(r))}
    OBVIOUS
<1>2. <<canonical_structure(s), q>> \in
         {canonical_structure(s)} \X {p \in Permutations4 : Relabelled(s, p) = canonical_structure(s)}
    OBVIOUS
<1>3. QED BY <1>1, <1>2 DEF InclusionDag

\* The DAG holds what a group contains.
LEMMA DagIs ==
    ASSUME NEW g, NEW directed, Known(g, directed), NoLoops(g), NEW B, B \subseteq Vertices(g),
           IsConnected(Inside(g, B)), NEW h \in Lists(B), canonical_structure(Laid(g, h)) = Laid(g, h)
    PROVE  MotifDag(Laid(g, h), directed) = InclusionDag(Laid(g, h), directed)
<1> DEFINE T == Laid(g, h)
<1>1. \A i \in Positions : h[i] \in B
    BY ListIs
<1>2. /\ T \subseteq Positions \X Positions
      /\ \A i, j \in Positions : <<i, j>> \in T <=> is_edge(g, h[i], h[j])
    BY DEF Laid
<1> HIDE DEF T
<1>3. CASE directed
    BY <1>3 DEF MotifDag, Known
<1>4. CASE ~directed
    <2>1. \A e \in T : e[1] \in Positions /\ e[2] \in Positions /\ e = <<e[1], e[2]>>
        BY <1>2
    <2>2. ASSUME NEW e \in T PROVE e[1] # e[2]
        <3>1. is_edge(g, h[e[1]], h[e[2]])
            BY <1>2, <2>1
        <3>2. h[e[1]] \in Vertices(g)
            BY <1>1, <2>1
        <3>3. QED BY <3>1, <3>2 DEF NoLoops
    <2>3. IsSymmetric(T)
        <3> SUFFICES ASSUME NEW e \in T PROVE <<e[2], e[1]>> \in T
            BY DEF IsSymmetric
        <3>1. is_edge(g, h[e[1]], h[e[2]])
            BY <1>2, <2>1
        <3>2. is_edge(g, h[e[2]], h[e[1]])
            BY <1>1, <1>4, <2>1, <3>1 DEF Known
        <3>3. QED BY <1>2, <2>1, <3>2
    <2>4. IsConnected(AsGraph(T))
        BY LaidIsConnected DEF T
    <2>5. T \in UndirectedStructures
        BY <2>1, <2>2, <2>3, <2>4 DEF UndirectedStructures
    <2>6. canonical_structure(T) = T
        BY DEF T
    <2>7. UNDIRECTED_MOTIF_DAG[T] = InclusionDag(T, FALSE)
        BY <2>5, <2>6, UndirectedDagIs
    <2>8. directed = FALSE
        BY <1>4 DEF Known
    <2>9. MotifDag(T, directed) = InclusionDag(T, directed)
        BY <2>7, <2>8 DEF MotifDag
    <2>10. QED BY <2>9 DEF T
<1>5. QED BY <1>3, <1>4

\* A group that is found with more edges than it has adds to its own identifier.
LEMMA MoreEdgesAdd ==
    ASSUME NEW l, NEW g, NEW directed, Known(l, directed), Known(g, directed), NoLoops(g),
           NEW A, A \subseteq Vertices(l), NEW B, B \subseteq Vertices(g), Lists(A) # {}, Lists(B) # {},
           NEW b \in Bijection(A, B),
           \A u, w \in A : is_edge(l, u, w) => is_edge(g, b[u], b[w]),
           \A u \in A : get_vertex_color(g, b[u]) = get_vertex_color(l, u),
           \A u \in A : get_vertex_color(l, u) \in Nat,
           IsConnected(Inside(l, A)), IsConnected(Inside(g, B))
    PROVE  \/ motif_identifier(l, A) = motif_identifier(g, B)
           \/ \E a \in process_motif(motif_identifier(g, B), directed) :
                 a.key = motif_identifier(l, A) /\ a.of = motif_identifier(g, B)
<1>1. /\ \A u \in A : b[u] \in B
      /\ \A u, w \in A : b[u] = b[w] => u = w
      /\ \A v \in B : \E u \in A : b[u] = v
    BY DEF Bijection, Injection, Surjection, IsInjective
<1>2. \A v \in B : get_vertex_color(g, v) \in Nat
    BY <1>1
<1>3. PICK f \in Lists(A) :
        /\ motif_identifier(l, A) = [edges |-> Laid(l, f), colors |-> [i \in Positions |-> get_vertex_color(l, f[i])]]
        /\ canonical_structure(Laid(l, f)) = Laid(l, f)
    BY IdentifierShows
<1>4. PICK h \in Lists(B) :
        /\ motif_identifier(g, B) = [edges |-> Laid(g, h), colors |-> [i \in Positions |-> get_vertex_color(g, h[i])]]
        /\ canonical_structure(Laid(g, h)) = Laid(g, h)
    BY <1>2, IdentifierShows
<1>5. PICK p \in Permutations4 : \A i \in Positions : h[p[i]] = b[f[i]]
    BY ListsDiffer
<1>6. PICK q \in Permutations4 : \A i \in Positions : q[p[i]] = i /\ p[q[i]] = i
    BY Undone
<1> DEFINE S == Laid(l, f)
           T == Laid(g, h)
           s == Relabelled(S, p)
<1>7. \A i \in Positions : f[i] \in A /\ h[i] \in B /\ p[i] \in Positions /\ q[i] \in Positions
    BY ListIs, PermutationIs
<1>8. /\ S \subseteq Positions \X Positions /\ T \subseteq Positions \X Positions
      /\ \A i, j \in Positions : <<i, j>> \in S <=> is_edge(l, f[i], f[j])
      /\ \A i, j \in Positions : <<i, j>> \in T <=> is_edge(g, h[i], h[j])
    BY DEF Laid
<1>9. s \subseteq Positions \X Positions /\ \A i, j \in Positions : <<p[i], p[j]>> \in s <=> <<i, j>> \in S
    <2> HIDE DEF S
    <2>1. QED BY <1>8, RelabelledIs
<1> HIDE DEF S, T, s
<1>10. \A i, j \in Positions : <<i, j>> \in s <=> is_edge(l, f[q[i]], f[q[j]])
    BY <1>6, <1>7, <1>8, <1>9
<1>11. \A i \in Positions : h[i] = b[f[q[i]]]
    BY <1>5, <1>6, <1>7
<1>12. s \subseteq T
    <2>1. ASSUME NEW i \in Positions, NEW j \in Positions, <<i, j>> \in s PROVE <<i, j>> \in T
        BY <1>7, <1>8, <1>10, <1>11, <2>1
    <2>2. QED BY <1>9, <2>1
<1>13. Relabelled(s, q) = S
    <2>1. \A i, j \in Positions : <<q[i], q[j]>> \in S <=> <<i, j>> \in s
        BY <1>7, <1>8, <1>10
    <2>2. QED BY <1>8, <1>9, <2>1, RelabelledBy
<1>14. canonical_structure(s) = S
    <2>1. canonical_structure(S) = S
        BY <1>3 DEF S
    <2>2. canonical_structure(s) = canonical_structure(S)
        BY <1>8, SameCanonical DEF s
    <2>3. QED BY <2>1, <2>2
<1>15. CASE s = T
    <2>1. ASSUME NEW u \in A, NEW w \in A, is_edge(g, b[u], b[w]) PROVE is_edge(l, u, w)
        <3>1. PICK i \in Positions : f[i] = u
            BY ListIs
        <3>2. PICK j \in Positions : f[j] = w
            BY ListIs
        <3>3. is_edge(g, h[p[i]], h[p[j]])
            BY <1>5, <2>1, <3>1, <3>2
        <3>4. <<p[i], p[j]>> \in T
            BY <1>7, <1>8, <3>3
        <3>5. <<i, j>> \in S
            BY <1>9, <1>15, <3>4
        <3>6. QED BY <1>8, <3>1, <3>2, <3>5
    <2>2. \A u, w \in A : is_edge(g, b[u], b[w]) <=> is_edge(l, u, w)
        BY <2>1
    <2>3. motif_identifier(l, A) = motif_identifier(g, B)
        BY <2>2, SameIdentifier
    <2>4. QED BY <2>3
<1>16. CASE s # T
    <2>1. directed \/ IsSymmetric(s)
        <3> SUFFICES ASSUME ~directed, NEW e \in s PROVE <<e[2], e[1]>> \in s
            BY DEF IsSymmetric
        <3>1. e[1] \in Positions /\ e[2] \in Positions /\ e = <<e[1], e[2]>>
            BY <1>9
        <3>2. is_edge(l, f[q[e[1]]], f[q[e[2]]])
            BY <1>10, <3>1
        <3>3. is_edge(l, f[q[e[2]]], f[q[e[1]]])
            BY <1>7, <3>1, <3>2 DEF Known
        <3>4. QED BY <1>10, <3>1, <3>3
    <2>2. IsConnected(AsGraph(s))
        <3> DEFINE r == [i \in Positions |-> f[q[i]]]
        <3>1. \A i \in Positions : r[i] = f[q[i]]
            OBVIOUS
        <3>2. r \in Lists(A)
            <4>1. r \in [Positions -> A]
                BY <1>7
            <4>2. \A i, j \in Positions : r[i] = r[j] => i = j
                BY <1>7, ListIs, PermutationIs
            <4>3. ASSUME NEW v \in A PROVE \E i \in Positions : r[i] = v
                <5>1. PICK k \in Positions : f[k] = v
                    BY ListIs
                <5>2. QED BY <1>6, <1>7, <5>1
            <4> HIDE DEF r
            <4>4. QED BY <4>1, <4>2, <4>3 DEF Lists, Bijection, Injection, Surjection, IsInjective
        <3> HIDE DEF r
        <3>3. \A e \in Positions \X Positions : e \in s <=> e \in Laid(l, r)
            BY <1>10, <3>1 DEF Laid
        <3>4. s = Laid(l, r)
            BY <1>9, <3>3 DEF Laid
        <3>5. QED BY <3>2, <3>4, LaidIsConnected
    <2>3. <<S, q>> \in InclusionDag(T, directed)
        BY <1>12, <1>13, <1>14, <1>16, <2>1, <2>2, DagHas
    <2>4. <<S, q>> \in MotifDag(T, directed)
        <3>1. MotifDag(T, directed) = InclusionDag(T, directed)
            BY <1>4, DagIs DEF T
        <3>2. QED BY <2>3, <3>1
    <2> DEFINE id == motif_identifier(g, B)
               d == <<S, q>>
               a == [key |-> [edges |-> d[1], colors |-> apply_permutation(id.colors, d[2])], of |-> id, by |-> d]
    <2>5. id.edges = T /\ id.colors = [i \in Positions |-> get_vertex_color(g, h[i])]
        BY <1>4 DEF T
    <2>6. a \in process_motif(id, directed)
        <3> HIDE DEF d, id
        <3>1. d \in MotifDag(id.edges, directed)
            BY <2>4, <2>5 DEF d
        <3>2. QED BY <3>1 DEF process_motif
    <2>7. apply_permutation(id.colors, q) = [i \in Positions |-> get_vertex_color(l, f[i])]
        <3>1. ASSUME NEW i \in Positions
              PROVE  id.colors[CHOOSE j \in Positions : q[j] = i] = get_vertex_color(l, f[i])
            <4>1. (CHOOSE j \in Positions : q[j] = i) = p[i]
                BY <1>6, <1>7, PermutationIs
            <4> HIDE DEF id
            <4>2. id.colors[p[i]] = get_vertex_color(g, h[p[i]])
                BY <1>7, <2>5
            <4>3. get_vertex_color(g, h[p[i]]) = get_vertex_color(l, f[i])
                BY <1>5, <1>7
            <4>4. QED BY <4>1, <4>2, <4>3
        <3> HIDE DEF id
        <3>2. QED BY <3>1 DEF apply_permutation
    <2>8. a.key = motif_identifier(l, A) /\ a.of = id
        <3>1. d[1] = S /\ d[2] = q
            OBVIOUS
        <3> HIDE DEF d, id
        <3>2. a.key = [edges |-> S, colors |-> apply_permutation(id.colors, q)] /\ a.of = id
            BY <3>1
        <3>3. QED BY <1>3, <2>7, <3>2 DEF S
    <2> HIDE DEF a, d
    <2>9. QED BY <2>6, <2>8 DEF id
<1>17. QED BY <1>15, <1>16

-----------------------------------------------------------------------------
(* What the expansion adds up to.                                          *)

\* There are four positions,
LEMMA PositionsAreFinite == IsFiniteSet(Positions)
<1>1. \A n \in Nat : IsFiniteSet(1 .. n)
    BY FS_Interval
<1>2. QED BY <1>1 DEF Positions

\* finitely many permutations of them,
LEMMA PermutationsAreFinite == IsFiniteSet(Permutations4)
<1> DEFINE G(p) == {<<i, p[i]>> : i \in Positions}
           b == [p \in Permutations4 |-> G(p)]
           T == SUBSET (Positions \X Positions)
<1>1. IsFiniteSet(T)
    <2>1. IsFiniteSet(Positions)
        BY PositionsAreFinite
    <2>2. IsFiniteSet(Positions \X Positions)
        BY <2>1, FS_Product
    <2>3. QED BY <2>2, FS_SUBSET
<1>2. ASSUME NEW p \in Permutations4 PROVE G(p) \in T
    BY PermutationIs
<1>3. ASSUME NEW p \in Permutations4, NEW q \in Permutations4, G(p) = G(q) PROVE p = q
    <2>1. ASSUME NEW i \in Positions PROVE p[i] = q[i]
        <3>1. <<i, p[i]>> \in G(q)
            BY <1>3
        <3>2. QED BY <3>1
    <2>2. p = [i \in Positions |-> p[i]] /\ q = [i \in Positions |-> q[i]]
        BY PermutationIs
    <2>3. QED BY <2>1, <2>2
<1>4. b \in Injection(Permutations4, T)
    <2>1. \A p \in Permutations4 : b[p] = G(p)
        OBVIOUS
    <2>2. b \in [Permutations4 -> T]
        BY <1>2
    <2> HIDE DEF b, G, T
    <2>3. \A p, q \in Permutations4 : b[p] = b[q] => p = q
        BY <1>3, <2>1
    <2>4. QED BY <2>2, <2>3 DEF Injection, IsInjective
<1> HIDE DEF b, T
<1>5. QED BY <1>1, <1>4, FS_Injection

\* and finitely many structures in a structure.
LEMMA DagIsFinite ==
    ASSUME NEW t, t \subseteq Positions \X Positions, NEW directed
    PROVE  IsFiniteSet(InclusionDag(t, directed))
<1> DEFINE P == Positions \X Positions
           D == (SUBSET P) \X Permutations4
<1>1. IsFiniteSet(D)
    <2>1. IsFiniteSet(Positions)
        BY PositionsAreFinite
    <2>2. IsFiniteSet(P)
        BY <2>1, FS_Product
    <2>3. IsFiniteSet(SUBSET P)
        BY <2>2, FS_SUBSET
    <2>4. QED BY <2>3, PermutationsAreFinite, FS_Product
<1>2. ASSUME NEW s, s \subseteq t PROVE canonical_structure(s) \in SUBSET P
    <2>1. PICK p \in Permutations4 : canonical_structure(s) = Relabelled(s, p)
        BY CanonicalIs
    <2>2. QED BY <1>2, <2>1, RelabelledIs
<1>3. InclusionDag(t, directed) \subseteq D
    BY <1>2 DEF InclusionDag
<1>4. QED BY <1>1, <1>3, FS_Subset

\* Finitely many additions, each from an identifier of the snapshot.
LEMMA AdditionsAre ==
    ASSUME NEW counts, IsFiniteSet(DOMAIN counts), NEW directed,
           \A id \in DOMAIN counts : IsFiniteSet(MotifDag(id.edges, directed))
    PROVE  /\ IsFiniteSet(additions_of(counts, directed))
           /\ \A a \in additions_of(counts, directed) : a.of \in DOMAIN counts
<1> DEFINE pm == [id \in DOMAIN counts |-> process_motif(id, directed)]
<1>1. ASSUME NEW id \in DOMAIN counts PROVE IsFiniteSet(process_motif(id, directed))
    <2> DEFINE D == MotifDag(id.edges, directed)
               m == [d \in D |-> [key |-> [edges |-> d[1], colors |-> apply_permutation(id.colors, d[2])],
                                  of |-> id, by |-> d]]
    <2>1. IsFiniteSet({m[d] : d \in D})
        <3>1. IsFiniteSet(D)
            OBVIOUS
        <3> HIDE DEF D, m
        <3>2. QED BY <3>1, FiniteImage
    <2>2. process_motif(id, directed) = {m[d] : d \in D}
        BY DEF process_motif
    <2>3. QED BY <2>1, <2>2
<1>2. additions_of(counts, directed) = UNION {pm[id] : id \in DOMAIN counts}
    BY DEF additions_of
<1>3. IsFiniteSet({pm[id] : id \in DOMAIN counts})
    BY FiniteImage
<1>4. \A S \in {pm[id] : id \in DOMAIN counts} : IsFiniteSet(S)
    BY <1>1
<1>5. IsFiniteSet(additions_of(counts, directed))
    BY <1>2, <1>3, <1>4, FS_UNION
<1>6. \A a \in additions_of(counts, directed) : a.of \in DOMAIN counts
    BY DEF additions_of, process_motif
<1>7. QED BY <1>5, <1>6

\* The elements of sets, each with the name of its set.
Tagged(S, sets) == UNION {{a} \X sets[a] : a \in S}

\* Sizes of sets, added up, count pairs.
LEMMA SumOfTagged ==
    ASSUME NEW S, IsFiniteSet(S), NEW sets, NEW n, \A a \in S : IsFiniteSet(sets[a]) /\ n[a] = Cardinality(sets[a])
    PROVE  IsFiniteSet(Tagged(S, sets)) /\ Cardinality(Tagged(S, sets)) = SumFunctionOnSet(n, S)
<1> DEFINE part == [a \in S |-> {a} \X sets[a]]
<1>1. ASSUME NEW a \in S PROVE IsFiniteSet(part[a]) /\ n[a] = Cardinality(part[a])
    <2>1. part[a] = {a} \X sets[a]
        OBVIOUS
    <2> HIDE DEF part
    <2>2. IsFiniteSet({a}) /\ Cardinality({a}) = 1
        BY FS_Singleton
    <2>3. IsFiniteSet(part[a]) /\ Cardinality(part[a]) = Cardinality({a}) * Cardinality(sets[a])
        BY <2>1, <2>2, FS_Product
    <2>4. Cardinality(sets[a]) \in Nat
        BY FS_CardinalityType
    <2>5. QED BY <2>2, <2>3, <2>4
<1>2. \A a, e \in S : a # e => part[a] \cap part[e] = {}
    OBVIOUS
<1>3. Tagged(S, sets) = UNION {part[a] : a \in S}
    BY DEF Tagged
<1> HIDE DEF part
<1>4. Cardinality(UNION {part[a] : a \in S}) = SumFunctionOnSet(n, S)
    BY <1>1, <1>2, SumOfParts
<1>5. IsFiniteSet(UNION {part[a] : a \in S})
    BY <1>1, <1>2, SumOfParts
<1>6. QED BY <1>3, <1>4, <1>5

\* When every member of one family is carried to one of the same identifier, or to one
\* that adds to it, no two to one, the expanded count is no smaller.
LEMMA ExpansionCarried ==
    ASSUME NEW f, IsFiniteSet(DOMAIN f), NEW h, IsFiniteSet(DOMAIN h),
           NEW additions, IsFiniteSet(additions), \A a \in additions : a.of \in DOMAIN CountsOf(h),
           NEW c, NEW id \in DOMAIN CountsOf(f),
           \A x \in DOMAIN f : f[x] = id =>
               c[x] \in DOMAIN h /\ (h[c[x]] = id \/ \E a \in additions : a.key = id /\ a.of = h[c[x]]),
           \A x, y \in DOMAIN f : f[x] = id /\ f[y] = id /\ c[x] = c[y] => x = y
    PROVE  /\ CountsOf(f)[id] \in Nat
           /\ expanded_count(CountsOf(h), additions, id) \in Nat
           /\ CountsOf(f)[id] <= expanded_count(CountsOf(h), additions, id)
           /\ id \in DOMAIN CountsOf(h) \/ \E a \in additions : a.key = id
<1> DEFINE G(k) == {y \in DOMAIN h : h[y] = k}
           given == {a \in additions : a.key = id}
           counts == [a \in given |-> CountsOf(h)[a.of]]
           sets == [a \in given |-> G(a.of)]
           U == Tagged(given, sets)
           S == {x \in DOMAIN f : f[x] = id}
           S1 == {x \in S : h[c[x]] = id}
           S2 == S \ S1
           w == [x \in S2 |-> CHOOSE a \in given : a.of = h[c[x]]]
           r1 == [x \in S1 |-> c[x]]
           r2 == [x \in S2 |-> <<w[x], c[x]>>]
<1>1. ASSUME NEW k PROVE IsFiniteSet(G(k)) /\ Cardinality(G(k)) \in Nat
    BY FS_Subset, FS_CardinalityType
<1>2. /\ \A k \in DOMAIN CountsOf(h) : CountsOf(h)[k] = Cardinality(G(k))
      /\ \A k : k \in DOMAIN CountsOf(h) <=> \E y \in DOMAIN h : h[y] = k
    BY DEF CountsOf, Range
<1>3. at(CountsOf(h), id) = Cardinality(G(id))
    <2>1. CASE id \in DOMAIN CountsOf(h)
        BY <1>2, <2>1 DEF at
    <2>2. CASE id \notin DOMAIN CountsOf(h)
        <3>1. G(id) = {}
            BY <1>2, <2>2
        <3>2. QED BY <2>2, <3>1, FS_EmptySet DEF at
    <2>3. QED BY <2>1, <2>2
<1>4. IsFiniteSet(given)
    BY FS_Subset
<1>5. \A a \in given : IsFiniteSet(sets[a]) /\ counts[a] = Cardinality(sets[a])
    BY <1>1, <1>2
<1>6. \A a \in given : \A y \in G(a.of) : <<a, y>> \in U
    BY DEF Tagged
<1>7. IsFiniteSet(U) /\ Cardinality(U) = SumFunctionOnSet(counts, given)
    <2> HIDE DEF given, counts, sets
    <2>1. QED BY <1>4, <1>5, SumOfTagged
<1>8. expanded_count(CountsOf(h), additions, id) = Cardinality(G(id)) + Cardinality(U)
    BY <1>3, <1>7 DEF expanded_count
<1>9. r1 \in Injection(S1, G(id))
    BY DEF Injection, IsInjective
<1>10. r2 \in Injection(S2, U)
    <2>1. ASSUME NEW x \in S2 PROVE w[x] \in given /\ w[x].of = h[c[x]]
        <3>1. \E a \in given : a.of = h[c[x]]
            OBVIOUS
        <3> HIDE DEF given
        <3>2. QED BY <3>1
    <2>2. ASSUME NEW x \in S2 PROVE r2[x] \in U /\ r2[x] = <<w[x], c[x]>>
        <3>1. c[x] \in G(w[x].of)
            BY <2>1
        <3>2. w[x] \in given
            BY <2>1
        <3>3. r2[x] = <<w[x], c[x]>>
            OBVIOUS
        <3> HIDE DEF w, given, G, S2, r2, U
        <3>4. QED BY <1>6, <3>1, <3>2, <3>3
    <2>3. DOMAIN r2 = S2 /\ r2 = [x \in S2 |-> r2[x]]
        OBVIOUS
    <2>4. \A x, y \in S2 : c[x] = c[y] => x = y
        OBVIOUS
    <2> HIDE DEF r2, S2, U, w
    <2>5. r2 \in [S2 -> U]
        BY <2>2, <2>3
    <2>6. \A x, y \in S2 : r2[x] = r2[y] => x = y
        BY <2>2, <2>4
    <2>7. QED BY <2>5, <2>6 DEF Injection, IsInjective
<1>11. IsFiniteSet(S) /\ Cardinality(S) = Cardinality(S1) + Cardinality(S2) /\ CountsOf(f)[id] = Cardinality(S)
    <2>1. IsFiniteSet(S) /\ CountsOf(f)[id] = Cardinality(S)
        BY FS_Subset DEF CountsOf
    <2>2. S1 \in SUBSET S
        OBVIOUS
    <2>3. S \cap S1 = S1
        OBVIOUS
    <2> HIDE DEF S, S1
    <2>4. IsFiniteSet(S1) /\ Cardinality(S2) = Cardinality(S) - Cardinality(S1)
        <3>1. IsFiniteSet(S1)
            BY <2>1, <2>2, FS_Subset
        <3>2. Cardinality(S \ S1) = Cardinality(S) - Cardinality(S \cap S1)
            BY <2>1, FS_Difference
        <3>3. QED BY <2>3, <3>1, <3>2
    <2>5. Cardinality(S) \in Nat /\ Cardinality(S1) \in Nat
        BY <2>1, <2>4, FS_CardinalityType
    <2> HIDE DEF S2
    <2>6. Cardinality(S2) \in Int
        BY <2>4, <2>5
    <2>7. QED BY <2>1, <2>4, <2>5, <2>6
<1>12. id \in DOMAIN CountsOf(h) \/ \E a \in additions : a.key = id
    <2>1. PICK x \in DOMAIN f : f[x] = id
        BY DEF CountsOf, Range
    <2>2. QED BY <1>2, <2>1
<1> HIDE DEF S, S1, S2, U, r1, r2, G
<1>13. Cardinality(S1) <= Cardinality(G(id)) /\ Cardinality(S2) <= Cardinality(U) /\ IsFiniteSet(S1) /\ IsFiniteSet(S2)
    BY <1>1, <1>7, <1>9, <1>10, FS_Injection
<1>14. Cardinality(S1) \in Nat /\ Cardinality(S2) \in Nat /\ Cardinality(U) \in Nat /\ Cardinality(G(id)) \in Nat
    BY <1>1, <1>7, <1>13, FS_CardinalityType
<1>15. QED BY <1>8, <1>11, <1>12, <1>13, <1>14

\* The DAG of each identifier of a graph is finite.
LEMMA DagsAreFinite ==
    ASSUME NEW g, NEW directed, Known(g, directed), NoLoops(g), IsFiniteSet(Vertices(g)),
           \A v \in Vertices(g) : get_vertex_color(g, v) \in Nat,
           NEW B \in MotifGroups(g)
    PROVE  IsFiniteSet(MotifDag(motif_identifier(g, B).edges, directed))
<1>1. B \in kSubset(4, Vertices(g)) /\ IsConnected(Inside(g, B)) /\ B \subseteq Vertices(g)
    BY DEF MotifGroups, kSubset
<1>2. Lists(B) # {}
    BY <1>1, GroupHasList
<1>3. PICK h \in Lists(B) :
        /\ motif_identifier(g, B) = [edges |-> Laid(g, h), colors |-> [i \in Positions |-> get_vertex_color(g, h[i])]]
        /\ canonical_structure(Laid(g, h)) = Laid(g, h)
    BY <1>1, <1>2, IdentifierShows
<1>4. motif_identifier(g, B).edges = Laid(g, h)
    BY <1>3
<1>5. MotifDag(Laid(g, h), directed) = InclusionDag(Laid(g, h), directed)
    BY <1>1, <1>3, DagIs
<1>6. Laid(g, h) \subseteq Positions \X Positions
    BY DEF Laid
<1>7. QED BY <1>4, <1>5, <1>6, DagIsFinite

\* A graph that occurs at all has no more groups of any identifier than the expansion
\* gives the graph it occurs in.
THEOREM OccurringHasNoMore ==
    ASSUME NEW l, NEW g, IsFiniteSet(Vertices(l)), IsFiniteSet(Vertices(g)),
           NEW directed, Known(l, directed), Known(g, directed), NoLoops(g),
           \A v \in Vertices(l) : get_vertex_color(l, v) \in Nat,
           \A v \in Vertices(g) : get_vertex_color(g, v) \in Nat,
           ExpansionFits(MotifCounts(g), directed),
           NEW o, OccursAt(o, l, g, FALSE)
    PROVE  HasEnough(expand(MotifCounts(g), directed), MotifCounts(l))
<1> DEFINE f == [S \in MotifGroups(l) |-> motif_identifier(l, S)]
           h == [S \in MotifGroups(g) |-> motif_identifier(g, S)]
           c == [S \in MotifGroups(l) |-> Places(o, S)]
           counts == CountsOf(h)
           additions == additions_of(counts, directed)
           expanded == expand(counts, directed)
<1>1. DOMAIN f = MotifGroups(l) /\ DOMAIN h = MotifGroups(g) /\ IsFiniteSet(DOMAIN f) /\ IsFiniteSet(DOMAIN h)
    BY GroupsAreFinite
<1>2. ASSUME NEW id PROVE id \in DOMAIN counts <=> \E B \in MotifGroups(g) : motif_identifier(g, B) = id
    BY DEF CountsOf, Range
<1>3. IsFiniteSet(DOMAIN counts)
    <2>1. DOMAIN counts = {h[B] : B \in MotifGroups(g)}
        BY <1>2
    <2> HIDE DEF h, counts
    <2>2. QED BY <1>1, <2>1, FiniteImage
<1>4. IsFiniteSet(additions) /\ \A a \in additions : a.of \in DOMAIN counts
    <2>1. \A id \in DOMAIN counts : IsFiniteSet(MotifDag(id.edges, directed))
        BY <1>2, DagsAreFinite
    <2> HIDE DEF counts
    <2>2. QED BY <1>3, <2>1, AdditionsAre
<1>5. ASSUME NEW A \in MotifGroups(l)
      PROVE  /\ c[A] \in MotifGroups(g) /\ A \subseteq Vertices(l) /\ c[A] = Places(o, A)
             /\ \/ h[c[A]] = f[A]
                \/ \E a \in additions : a.key = f[A] /\ a.of = h[c[A]]
    <2> DEFINE b == [v \in A |-> o[v]]
               B == Places(o, A)
    <2>1. B \in MotifGroups(g) /\ Lists(A) # {} /\ A \subseteq Vertices(l) /\ b \in Bijection(A, B)
        BY GroupCarried
    <2>2. \A u, w \in A : is_edge(l, u, w) => is_edge(g, b[u], b[w])
        BY <2>1 DEF OccursAt
    <2>3. \A u \in A : get_vertex_color(g, b[u]) = get_vertex_color(l, u) /\ get_vertex_color(l, u) \in Nat
        BY <2>1 DEF OccursAt
    <2>4. c[A] = B /\ f[A] = motif_identifier(l, A) /\ h[B] = motif_identifier(g, B)
        BY <2>1
    <2>5. IsConnected(Inside(l, A)) /\ IsConnected(Inside(g, B)) /\ B \subseteq Vertices(g) /\ Lists(B) # {}
        <3>1. B \in kSubset(4, Vertices(g)) /\ IsConnected(Inside(g, B)) /\ IsConnected(Inside(l, A))
            BY <2>1 DEF MotifGroups
        <3> HIDE DEF B
        <3>2. QED BY <3>1, GroupHasList DEF kSubset
    <2>6. process_motif(motif_identifier(g, B), directed) \subseteq additions
        <3>1. motif_identifier(g, B) \in DOMAIN counts
            BY <1>2, <2>1
        <3> HIDE DEF counts, B
        <3>2. QED BY <3>1 DEF additions_of
    <2> HIDE DEF b, B, c, f, h, additions
    <2>7. \/ motif_identifier(l, A) = motif_identifier(g, B)
          \/ \E a \in process_motif(motif_identifier(g, B), directed) :
                a.key = motif_identifier(l, A) /\ a.of = motif_identifier(g, B)
        BY <2>1, <2>2, <2>3, <2>5, MoreEdgesAdd
    <2>8. QED BY <2>1, <2>4, <2>6, <2>7 DEF B
<1>6. ASSUME NEW A \in MotifGroups(l), NEW B \in MotifGroups(l), c[A] = c[B] PROVE A = B
    <2>1. Places(o, A) = Places(o, B) /\ A \subseteq Vertices(l) /\ B \subseteq Vertices(l)
        BY <1>5, <1>6
    <2>2. QED BY <2>1, PlacesDiffer
<1>7. \A key \in DOMAIN counts \cup {a.key : a \in additions} : expanded_count(counts, additions, key) < COUNT_LIMIT
    BY DEF ExpansionFits, MotifCounts
<1>8. /\ DOMAIN expanded = DOMAIN counts \cup {a.key : a \in additions}
      /\ \A key \in DOMAIN expanded : expanded[key] = expanded_count(counts, additions, key) % COUNT_LIMIT
    BY DEF expand
<1> HIDE DEF f, h, c, additions, expanded
<1>9. ASSUME NEW id \in DOMAIN CountsOf(f)
      PROVE  at(expanded, id) \in Nat /\ CountsOf(f)[id] \in Nat /\ CountsOf(f)[id] <= at(expanded, id)
    <2> DEFINE n == expanded_count(counts, additions, id)
    <2>1. \A A \in DOMAIN f : f[A] = id =>
             c[A] \in DOMAIN h /\ (h[c[A]] = id \/ \E a \in additions : a.key = id /\ a.of = h[c[A]])
        BY <1>1, <1>5
    <2>2. \A A, B \in DOMAIN f : f[A] = id /\ f[B] = id /\ c[A] = c[B] => A = B
        BY <1>1, <1>6
    <2>3. /\ CountsOf(f)[id] \in Nat /\ n \in Nat /\ CountsOf(f)[id] <= n
          /\ id \in DOMAIN counts \/ \E a \in additions : a.key = id
        BY <1>1, <1>4, <2>1, <2>2, ExpansionCarried
    <2>4. id \in DOMAIN expanded
        BY <1>8, <2>3
    <2>5. n < COUNT_LIMIT /\ expanded[id] = n % COUNT_LIMIT
        BY <1>7, <1>8, <2>4
    <2> HIDE DEF n
    <2>6. expanded[id] = n
        BY <2>3, <2>5, LimitAssumption
    <2>7. QED BY <2>3, <2>4, <2>6 DEF at
<1>10. HasEnough(expanded, CountsOf(f))
    BY <1>9 DEF HasEnough
<1>11. QED BY <1>10 DEF MotifCounts, f, h, expanded

=============================================================================
