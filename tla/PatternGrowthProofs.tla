------------------------- MODULE PatternGrowthProofs -------------------------
(***************************************************************************)
(* Theorems about PatternGrowth, for every list of graphs, every threshold *)
(* and every choice of vertices and edges: the leaves of a graph are the   *)
(* matches of the pattern, and the finder keeps PatternSearch.             *)
(***************************************************************************)
EXTENDS PatternGrowth, FiniteLemmas

-----------------------------------------------------------------------------
(* Nodes.                                                                  *)

\* A child is its parent and one vertex more.
LEMMA NodeFacts ==
    /\ \A p \in Seq(Nat), v \in Nat :
         /\ Append(p, v) \in Seq(Nat) /\ Append(p, v) # <<>> /\ Append(p, v) # p
         /\ Front(Append(p, v)) = p /\ Last(Append(p, v)) = v
         /\ Len(Append(p, v)) = Len(p) + 1
    /\ \A n \in Seq(Nat) : n # <<>> =>
         /\ Front(n) \in Seq(Nat) /\ Last(n) \in Nat /\ n = Append(Front(n), Last(n))
         /\ Front(n) # n /\ Len(Front(n)) = Len(n) - 1 /\ Len(n) \in Nat \ {0}
<1>1. ASSUME NEW p \in Seq(Nat), NEW v \in Nat
      PROVE  /\ Append(p, v) \in Seq(Nat) /\ Append(p, v) # <<>> /\ Append(p, v) # p
             /\ Front(Append(p, v)) = p /\ Last(Append(p, v)) = v
             /\ Len(Append(p, v)) = Len(p) + 1
    BY DEF Front, Last
<1>2. ASSUME NEW n \in Seq(Nat), n # <<>>
      PROVE  /\ Front(n) \in Seq(Nat) /\ Last(n) \in Nat /\ n = Append(Front(n), Last(n))
             /\ Front(n) # n /\ Len(Front(n)) = Len(n) - 1 /\ Len(n) \in Nat \ {0}
    <2>1. Len(n) \in Nat \ {0} /\ Front(n) \in Seq(Nat) /\ Last(n) \in Nat /\ Len(Front(n)) = Len(n) - 1
          /\ \A i \in 1 .. Len(n) - 1 : Front(n)[i] = n[i]
        <3>1. Len(n) \in Nat \ {0}
            BY <1>2, EmptySeq
        <3>2. \A i \in 1 .. Len(n) - 1 : n[i] \in Nat
            BY <3>1
        <3>3. Front(n) \in Seq(Nat) /\ Len(Front(n)) = Len(n) - 1
              /\ \A i \in 1 .. Len(n) - 1 : Front(n)[i] = n[i]
            <4> DEFINE m == Len(n) - 1
            <4>1. m \in Nat /\ \A i \in 1 .. m : n[i] \in Nat
                BY <3>1, <3>2
            <4>2. /\ SubSeq(n, 1, m) \in Seq(Nat) /\ Len(SubSeq(n, 1, m)) = IF 1 <= m THEN m - 1 + 1 ELSE 0
                  /\ \A i \in 1 .. m - 1 + 1 : SubSeq(n, 1, m)[i] = n[1 + i - 1]
                <5> HIDE DEF m
                <5>1. 1 \in Int /\ m \in Int /\ \A i \in 1 .. m : n[i] \in Nat
                    BY <4>1
                <5>2. QED BY <5>1, SubSeqProperties
            <4>3. \A i \in 1 .. m : i \in 1 .. m - 1 + 1 /\ n[1 + i - 1] = n[i]
                BY <4>1
            <4>4. Front(n) = SubSeq(n, 1, m) /\ m = Len(n) - 1
                BY DEF Front
            <4> HIDE DEF m
            <4>5. Len(SubSeq(n, 1, m)) = m /\ \A i \in 1 .. m : SubSeq(n, 1, m)[i] = n[i]
                BY <4>1, <4>2, <4>3
            <4>6. QED BY <4>2, <4>4, <4>5
        <3>4. QED BY <3>1, <3>3 DEF Last
    <2>2. Append(Front(n), Last(n)) \in Seq(Nat) /\ Len(Append(Front(n), Last(n))) = Len(n)
          /\ \A i \in 1 .. Len(n) : Append(Front(n), Last(n))[i] = n[i]
        BY <2>1 DEF Last
    <2>3. n = Append(Front(n), Last(n))
        BY <2>2, SeqEqual
    <2>4. QED BY <2>1, <2>3
<1>3. QED BY <1>1, <1>2

\* The part of a node down to a depth.
LEMMA DepthFacts ==
    ASSUME NEW n \in Seq(Nat), NEW d \in 0 .. Len(n)
    PROVE  /\ get_node_by_depth(n, d) \in Seq(Nat)
           /\ Len(get_node_by_depth(n, d)) = d
           /\ \A i \in 1 .. d : get_node_by_depth(n, d)[i] = n[i]
           /\ get_node_by_depth(n, Len(n)) = n
           /\ d = 0 <=> get_node_by_depth(n, d) = <<>>
           /\ d > 0 => Front(get_node_by_depth(n, d)) = get_node_by_depth(n, d - 1)
           /\ \A e \in 0 .. d : get_node_by_depth(get_node_by_depth(n, d), e) = get_node_by_depth(n, e)
BY DEF get_node_by_depth, Front

-----------------------------------------------------------------------------
(* Rings of siblings.                                                      *)

\* Right and left of position i in a ring of n.
After(i, n) == IF i = n THEN 1 ELSE i + 1

Before(i, n) == IF i = 1 THEN n ELSE i - 1

\* r lists the children of p from its son to the right.
IsRing(t, p, r, n) ==
    /\ r \in [1 .. n -> Children(t, p)]
    /\ \A c \in Children(t, p) : \E i \in 1 .. n : r[i] = c
    /\ \A i, k \in 1 .. n : r[i] = r[k] => i = k
    /\ n = 0 => t[p].son = Null
    /\ n # 0 => t[p].son = r[1]
    /\ n = 1 => t[r[1]].right = Null /\ t[r[1]].left = Null
    /\ n # 1 => \A i \in 1 .. n : t[r[i]].right = r[After(i, n)] /\ t[r[i]].left = r[Before(i, n)]

HasRing(t, p) == \E n \in Nat : \E r : IsRing(t, p, r, n)

Links == Seq(Nat) \cup {Null}

\* Nodes with their links, closed under parents.
IsForest(t) ==
    /\ DOMAIN t \subseteq Seq(Nat)
    /\ t \in [DOMAIN t -> [son : Links, left : Links, right : Links]]
    /\ \A q \in DOMAIN t : q # <<>> => Front(q) \in DOMAIN t

IsTree(t) == IsForest(t) /\ \A p \in DOMAIN t : HasRing(t, p)

\* No node is Null.
LEMMA NodesAreNotNull == ASSUME NEW t, IsForest(t) PROVE Null \notin DOMAIN t
BY NullAssumption DEF IsForest

\* Children have one parent.
LEMMA ChildrenFacts ==
    ASSUME NEW t, IsForest(t)
    PROVE  /\ \A p : Children(t, p) \subseteq DOMAIN t
           /\ \A p, q : \A c \in Children(t, p) : c \in Children(t, q) => p = q
           /\ \A p : \A c \in Children(t, p) : c # p /\ c # <<>> /\ Front(c) = p
           /\ \A c \in DOMAIN t : c # <<>> => c \in Children(t, Front(c))
BY NodeFacts DEF Children, IsForest

\* A ring whose nodes and links stay is still one.
LEMMA RingStays ==
    ASSUME NEW t, NEW u, NEW p, HasRing(t, p), Children(u, p) = Children(t, p),
           u[p].son = t[p].son,
           \A c \in Children(t, p) : u[c].left = t[c].left /\ u[c].right = t[c].right
    PROVE  HasRing(u, p)
<1>0. PICK n \in Nat : \E r : IsRing(t, p, r, n)
    BY DEF HasRing
<1>1. PICK r : IsRing(t, p, r, n)
    BY <1>0
<1>2. \A i \in 1 .. n : r[i] \in Children(t, p)
    BY <1>1 DEF IsRing
<1>3. IsRing(u, p, r, n)
    BY <1>1, <1>2 DEF IsRing
<1>4. QED BY <1>3 DEF HasRing

\* A node has a son exactly if it has children.
LEMMA SonIsNull ==
    ASSUME NEW t, IsForest(t), NEW p, HasRing(t, p)
    PROVE  t[p].son = Null <=> Children(t, p) = {}
<1>0. PICK n \in Nat : \E r : IsRing(t, p, r, n)
    BY DEF HasRing
<1>1. PICK r : IsRing(t, p, r, n)
    BY <1>0
<1>2. CASE n = 0
    BY <1>1, <1>2 DEF IsRing
<1>3. CASE n # 0
    <2>1. r[1] \in Children(t, p) /\ t[p].son = r[1]
        BY <1>1, <1>3 DEF IsRing
    <2>2. QED BY <2>1, ChildrenFacts, NodesAreNotNull
<1>4. QED BY <1>2, <1>3

-----------------------------------------------------------------------------
(* A node is added.                                                        *)

\* A leaf that t can get below parent, and the nodes of u when it has it.
CanAdd(t, parent, v) ==
    IsForest(t) /\ parent \in DOMAIN t /\ v \in Nat /\ Append(parent, v) \notin DOMAIN t

HasAdded(t, u, parent, v) == DOMAIN u = DOMAIN t \cup {Append(parent, v)}

\* The nodes a new leaf has next to it.
LEMMA AddedChildren ==
    ASSUME NEW t, NEW parent, NEW v, CanAdd(t, parent, v), NEW u, HasAdded(t, u, parent, v)
    PROVE  /\ Children(u, parent) = Children(t, parent) \cup {Append(parent, v)}
           /\ Children(u, Append(parent, v)) = {}
           /\ \A q \in DOMAIN t \ {parent} : Children(u, q) = Children(t, q)
<1> DEFINE new == Append(parent, v)
<1>1. /\ parent \in Seq(Nat) /\ new \in Seq(Nat) /\ new # <<>> /\ Front(new) = parent /\ new # parent
    BY NodeFacts DEF IsForest, CanAdd
<1>2. \A c \in DOMAIN t : c # <<>> => Front(c) # new
    BY DEF IsForest, CanAdd
<1>3. DOMAIN u = DOMAIN t \cup {new} /\ new \notin DOMAIN t /\ parent \in DOMAIN t
    BY DEF CanAdd, HasAdded
<1> HIDE DEF new
<1>4. Children(u, parent) = Children(t, parent) \cup {new}
    BY <1>1, <1>3 DEF Children
<1>5. Children(u, new) = {}
    BY <1>1, <1>2, <1>3 DEF Children
<1>6. \A q \in DOMAIN t \ {parent} : Children(u, q) = Children(t, q)
    BY <1>1, <1>3 DEF Children
<1>7. QED BY <1>4, <1>5, <1>6 DEF new

\* What add_node changes: nothing but links among the children of the parent.
LEMMA AddNodeFrame ==
    ASSUME NEW t, NEW parent, NEW v, CanAdd(t, parent, v), NEW u, HasAdded(t, u, parent, v),
           u \in [DOMAIN u -> [son : Links, left : Links, right : Links]],
           u[Append(parent, v)].son = Null,
           \A q \in DOMAIN t : q # parent => u[q].son = t[q].son,
           \A q \in DOMAIN t : q \notin Children(t, parent) => u[q].left = t[q].left /\ u[q].right = t[q].right,
           \A p \in DOMAIN t : HasRing(t, p), HasRing(u, parent)
    PROVE  IsTree(u)
<1> DEFINE new == Append(parent, v)
<1>1. IsForest(u)
    <2>1. IsForest(t) /\ parent \in DOMAIN t /\ parent \in Seq(Nat) /\ v \in Nat /\ DOMAIN u = DOMAIN t \cup {new}
        BY DEF IsForest, CanAdd, HasAdded
    <2>2. new \in Seq(Nat) /\ Front(new) = parent
        BY <2>1, NodeFacts
    <2> HIDE DEF new
    <2>3. DOMAIN u \subseteq Seq(Nat) /\ \A q \in DOMAIN u : q # <<>> => Front(q) \in DOMAIN u
        BY <2>1, <2>2 DEF IsForest
    <2>4. QED BY <2>3 DEF IsForest
<1>2. HasRing(u, new)
    <2> DEFINE r == [i \in 1 .. 0 |-> new]
    <2>1. Children(u, new) = {}
        BY AddedChildren
    <2>2. IsRing(u, new, r, 0)
        BY <2>1 DEF IsRing
    <2>3. QED BY <2>2 DEF HasRing
<1>3. ASSUME NEW q \in DOMAIN t, q # parent PROVE HasRing(u, q)
    <2>1. Children(u, q) = Children(t, q)
        BY <1>3, AddedChildren
    <2>2. \A c \in Children(t, q) : c \in DOMAIN t /\ c \notin Children(t, parent)
        BY <1>3, ChildrenFacts DEF CanAdd
    <2>3. HasRing(t, q) /\ u[q].son = t[q].son
        BY <1>3
    <2>4. \A c \in Children(t, q) : u[c].left = t[c].left /\ u[c].right = t[c].right
        BY <2>2
    <2>5. QED BY <2>1, <2>3, <2>4, RingStays
<1>4. QED BY <1>1, <1>2, <1>3 DEF IsTree, HasAdded

\* A new leaf leaves a tree a tree.
LEMMA AddNodeIsTree ==
    ASSUME NEW t, IsTree(t), NEW parent \in DOMAIN t, NEW v \in Nat,
           Append(parent, v) \notin DOMAIN t
    PROVE  /\ IsTree(add_node(t, parent, v))
           /\ DOMAIN add_node(t, parent, v) = DOMAIN t \cup {Append(parent, v)}
<1> DEFINE new == Append(parent, v)
           son == t[parent].son
           b == [node \in DOMAIN t \cup {new} |-> IF node = new THEN Unlinked ELSE t[node]]
           u == add_node(t, parent, v)
           Node == [son : Links, left : Links, right : Links]
<1>1. IsForest(t) /\ CanAdd(t, parent, v) /\ \A p \in DOMAIN t : HasRing(t, p)
    BY DEF IsTree, CanAdd
<1>2. new \in Seq(Nat) /\ new # parent /\ new \notin DOMAIN t /\ parent \in DOMAIN t /\ new # Null
    <2>1. parent \in Seq(Nat) /\ parent \in DOMAIN t /\ v \in Nat /\ Append(parent, v) \notin DOMAIN t
        BY <1>1 DEF IsForest
    <2>2. Append(parent, v) \in Seq(Nat) /\ Append(parent, v) # parent
        BY <2>1, NodeFacts
    <2> HIDE DEF new
    <2>3. QED BY <2>1, <2>2, NullAssumption DEF new
<1>3. /\ b \in [DOMAIN t \cup {new} -> Node]
      /\ b[new] = Unlinked /\ \A q \in DOMAIN t : b[q] = t[q]
    BY <1>1, <1>2 DEF IsForest, Unlinked, Links
<1>4. u = IF son = Null THEN [b EXCEPT ![parent].son = new]
          ELSE IF b[son].left = Null
          THEN [b EXCEPT ![son].left = new, ![son].right = new, ![new].left = son, ![new].right = son]
          ELSE [b EXCEPT ![b[son].right].left = new, ![son].right = new,
                         ![new].right = b[son].right, ![new].left = son]
    BY DEF add_node
<1>5. PICK n \in Nat : \E r : IsRing(t, parent, r, n)
    BY <1>1 DEF HasRing
<1>6. PICK r : IsRing(t, parent, r, n)
    BY <1>5
<1>71. \A i \in 1 .. n : r[i] \in Children(t, parent) /\ r[i] \in DOMAIN t /\ r[i] # Null /\ r[i] # parent
    BY <1>1, <1>6, ChildrenFacts, NodesAreNotNull DEF IsRing
<1>72. \A c \in Children(t, parent) : \E i \in 1 .. n : r[i] = c
    BY <1>6 DEF IsRing
<1>73. \A i, k \in 1 .. n : r[i] = r[k] => i = k
    BY <1>6 DEF IsRing
<1>74. son = IF n = 0 THEN Null ELSE r[1]
    BY <1>6 DEF IsRing
<1>75. \A i \in 1 .. n : n # 1 => t[r[i]].right = r[After(i, n)] /\ t[r[i]].left = r[Before(i, n)]
    BY <1>6 DEF IsRing
<1>76. n = 1 => t[r[1]].left = Null
    BY <1>6 DEF IsRing
<1>8. \A x : DOMAIN x = DOMAIN t \cup {new} => HasAdded(t, x, parent, v)
                                               /\ Children(x, parent) = Children(t, parent) \cup {new}
    <2>1. \A x : DOMAIN x = DOMAIN t \cup {new} => HasAdded(t, x, parent, v)
        BY DEF HasAdded
    <2>2. QED BY <1>1, <2>1, AddedChildren
<1> HIDE DEF b, u, new, son
<1>9. Unlinked = [son |-> Null, left |-> Null, right |-> Null] /\ Null \in Links /\ new \in Links
    BY <1>2 DEF Unlinked, Links
<1>10. CASE n = 0
    <2>1. u = [b EXCEPT ![parent].son = new]
        BY <1>4, <1>74, <1>10
    <2>2. /\ u \in [DOMAIN t \cup {new} -> Node] /\ DOMAIN u = DOMAIN t \cup {new}
          /\ u[new] = Unlinked /\ u[parent].son = new
          /\ \A q \in DOMAIN t : /\ q # parent => u[q].son = t[q].son
                                 /\ u[q].left = t[q].left /\ u[q].right = t[q].right
        BY <2>1, <1>2, <1>3, <1>9
    <2> DEFINE ring == [i \in 1 .. 1 |-> new]
    <2>3. Children(u, parent) = {new}
        <3>1. Children(t, parent) = {}
            BY <1>72, <1>10
        <3>2. QED BY <3>1, <2>2, <1>8
    <2>4. IsRing(u, parent, ring, 1)
        BY <2>2, <2>3, <1>9 DEF IsRing
    <2>5. HasRing(u, parent) /\ u[new].son = Null
        BY <2>2, <2>4, <1>9 DEF HasRing
    <2>6. IsTree(u)
        BY <2>2, <2>5, <1>1, <1>8, AddNodeFrame DEF new
    <2>7. QED BY <2>2, <2>6 DEF u, new
<1>11. CASE n = 1
    <2>1. son = r[1] /\ son \in DOMAIN t /\ son # Null /\ son # parent /\ son # new /\ b[son].left = Null
          /\ Children(t, parent) = {son} /\ son \in Links
        <3>1. son = r[1] /\ 1 \in 1 .. n
            BY <1>74, <1>11
        <3>2. r[1] \in DOMAIN t /\ r[1] # Null /\ r[1] # parent /\ t[r[1]].left = Null
            BY <1>71, <1>76, <1>11, <3>1
        <3>3. Children(t, parent) = {r[1]}
            <4>1. \A i \in 1 .. n : i = 1
                BY <1>11
            <4>2. r[1] \in Children(t, parent)
                BY <1>71, <3>1
            <4>3. QED BY <1>72, <4>1, <4>2
        <3>4. r[1] \in Links
            BY <3>2, <1>1 DEF IsForest, Links
        <3>5. QED BY <3>1, <3>2, <3>3, <3>4, <1>2, <1>3
    <2>2. u = [b EXCEPT ![son].left = new, ![son].right = new, ![new].left = son, ![new].right = son]
        BY <2>1, <1>4
    <2>3. /\ u \in [DOMAIN t \cup {new} -> Node] /\ DOMAIN u = DOMAIN t \cup {new}
          /\ u[new].son = Null /\ u[new].left = son /\ u[new].right = son
          /\ u[son].left = new /\ u[son].right = new
          /\ \A q \in DOMAIN t : /\ u[q].son = t[q].son
                                 /\ q # son => u[q].left = t[q].left /\ u[q].right = t[q].right
        BY <2>1, <2>2, <1>2, <1>3, <1>9, SMTT(40)
    <2> DEFINE ring == [i \in 1 .. 2 |-> IF i = 1 THEN son ELSE new]
    <2>4. Children(u, parent) = {son, new}
        BY <2>1, <2>3, <1>8
    <2>5. u[parent].son = son
        BY <2>3, <1>2 DEF son
    <2>6. IsRing(u, parent, ring, 2)
        <3>1. /\ DOMAIN ring = 1 .. 2 /\ ring = [i \in 1 .. 2 |-> ring[i]] /\ ring[1] = son /\ ring[2] = new
              /\ \A i \in 1 .. 2 : i = 1 \/ i = 2
            OBVIOUS
        <3>2. After(1, 2) = 2 /\ After(2, 2) = 1 /\ Before(1, 2) = 2 /\ Before(2, 2) = 1 /\ 2 # 0 /\ 2 # 1
              /\ 1 \in 1 .. 2 /\ 2 \in 1 .. 2
            BY DEF After, Before
        <3> HIDE DEF ring
        <3>3. ring \in [1 .. 2 -> Children(u, parent)]
              /\ \A c \in Children(u, parent) : \E i \in 1 .. 2 : ring[i] = c
            BY <2>4, <3>1, <3>2
        <3>4. \A i, k \in 1 .. 2 : ring[i] = ring[k] => i = k
            BY <2>1, <3>1
        <3>5. \A i \in 1 .. 2 : u[ring[i]].right = ring[After(i, 2)] /\ u[ring[i]].left = ring[Before(i, 2)]
            BY <2>3, <3>1, <3>2
        <3>6. QED BY <2>5, <3>1, <3>2, <3>3, <3>4, <3>5 DEF IsRing
    <2>7. HasRing(u, parent)
        BY <2>6 DEF HasRing
    <2>8. IsTree(u)
        BY <2>1, <2>3, <2>7, <1>1, <1>8, AddNodeFrame DEF new
    <2>9. QED BY <2>3, <2>8 DEF u, new
<1>12. CASE n > 1
    <2> DEFINE x == r[2]
    <2>1. /\ son = r[1] /\ son \in DOMAIN t /\ son # Null /\ son # parent /\ son # new
          /\ x \in DOMAIN t /\ x # parent /\ x # new /\ x # son /\ x # Null /\ x \in Links /\ son \in Links
          /\ b[son].left # Null /\ b[son].right = x
        <3>1. 1 \in 1 .. n /\ 2 \in 1 .. n /\ n \in 1 .. n /\ n # 1 /\ n # 0
            BY <1>12
        <3>2. r[1] \in DOMAIN t /\ r[1] # Null /\ r[1] # parent /\ r[2] \in DOMAIN t /\ r[2] # Null
              /\ r[2] # parent /\ r[1] # r[2] /\ r[n] # Null
            BY <1>71, <1>73, <3>1
        <3>3. t[r[1]].left = r[n] /\ t[r[1]].right = r[2]
            <4>1. After(1, n) = 2 /\ Before(1, n) = n
                BY <3>1 DEF After, Before
            <4>2. QED BY <1>75, <3>1, <4>1
        <3>4. r[1] \in Links /\ r[2] \in Links
            BY <3>2, <1>1 DEF IsForest, Links
        <3>5. QED BY <3>1, <3>2, <3>3, <3>4, <1>2, <1>3, <1>74
    <2> HIDE DEF x
    <2>2. u = [b EXCEPT ![x].left = new, ![son].right = new, ![new].right = x, ![new].left = son]
        BY <2>1, <1>4
    <2>3. /\ u \in [DOMAIN t \cup {new} -> Node] /\ DOMAIN u = DOMAIN t \cup {new}
          /\ u[new].son = Null /\ u[new].left = son /\ u[new].right = x
          /\ u[son].left = t[son].left /\ u[son].right = new
          /\ u[x].left = new /\ u[x].right = t[x].right
          /\ \A q \in DOMAIN t : /\ u[q].son = t[q].son
                                 /\ q # son /\ q # x => u[q].left = t[q].left /\ u[q].right = t[q].right
        BY <2>1, <2>2, <1>2, <1>3, <1>9, SMTT(40)
    <2> DEFINE ring == [i \in 1 .. n + 1 |-> IF i = 1 THEN r[1] ELSE IF i = 2 THEN new ELSE r[i - 1]]
    <2>4. Children(u, parent) = Children(t, parent) \cup {new}
        BY <2>3, <1>8
    <2>5. u[parent].son = r[1]
        BY <2>1, <2>3, <1>2 DEF son
    <2>6. /\ ring[1] = r[1] /\ ring[2] = new
          /\ \A i \in 1 .. n + 1 : i > 2 => ring[i] = r[i - 1] /\ i - 1 \in 2 .. n
          /\ DOMAIN ring = 1 .. n + 1
          /\ ring = [i \in 1 .. n + 1 |-> ring[i]]
        BY <1>12
    <2> HIDE DEF ring
    <2>7. /\ 1 \in 1 .. n /\ 2 \in 1 .. n /\ n \in 1 .. n /\ n # 1 /\ n # 0
          /\ \A i \in 1 .. n : i + 1 \in 1 .. n + 1 /\ (i + 1) - 1 = i
        BY <1>12
    <2>8. ring \in [1 .. n + 1 -> Children(u, parent)]
        <3>1. \A i \in 1 .. n + 1 : i = 1 \/ i = 2 \/ i > 2
            BY <2>7
        <3>2. \A i \in 2 .. n : i \in 1 .. n
            OBVIOUS
        <3>3. \A i \in 1 .. n + 1 : ring[i] \in Children(u, parent)
            BY <2>4, <2>6, <2>7, <1>71, <3>1, <3>2
        <3>4. QED BY <2>6, <3>3
    <2>9. \A c \in Children(u, parent) : \E i \in 1 .. n + 1 : ring[i] = c
        <3>1. ring[2] = new /\ ring[1] = r[1] /\ 2 \in 1 .. n + 1 /\ 1 \in 1 .. n + 1
            BY <2>6, <1>12
        <3>2. ASSUME NEW i \in 1 .. n, i > 1 PROVE ring[i + 1] = r[i]
            <4>1. i + 1 \in 1 .. n + 1 /\ i + 1 > 2 /\ (i + 1) - 1 = i
                BY <3>2
            <4>2. QED BY <2>6, <4>1
        <3>3. ASSUME NEW i \in 1 .. n PROVE \E k \in 1 .. n + 1 : ring[k] = r[i]
            <4>1. CASE i = 1
                BY <3>1, <4>1
            <4>2. CASE i > 1
                BY <3>2, <4>2, <2>7
            <4>3. QED BY <4>1, <4>2
        <3>4. QED BY <3>1, <3>3, <2>4, <1>72
    <2>10. \A i, k \in 1 .. n + 1 : ring[i] = ring[k] => i = k
        <3>1. \A i \in 1 .. n : r[i] # new
            BY <1>2, <1>71
        <3>2. \A i \in 1 .. n + 1 : i > 2 => /\ i - 1 \in 1 .. n /\ i - 1 # 1
                                             /\ ring[i] = r[i - 1]
            BY <2>6
        <3>3. \A i \in 1 .. n + 1 : i = 1 \/ i = 2 \/ i > 2
            OBVIOUS
        <3>4. ring[1] = r[1] /\ ring[2] = new /\ 1 \in 1 .. n /\ 1 \in 1 .. n + 1 /\ 2 \in 1 .. n + 1
            BY <2>6, <2>7, <1>12
        <3>5. ASSUME NEW i \in 1 .. n + 1, NEW k \in 1 .. n + 1, ring[i] = ring[k], i > 2 PROVE i = k
            <4>1. i - 1 \in 1 .. n /\ i - 1 # 1 /\ ring[i] = r[i - 1]
                BY <3>2, <3>5
            <4>2. k # 1
                BY <3>4, <3>5, <4>1, <1>73
            <4>3. k # 2
                BY <3>1, <3>4, <3>5, <4>1
            <4>4. k - 1 \in 1 .. n /\ ring[k] = r[k - 1]
                BY <3>2, <3>3, <4>2, <4>3
            <4>5. i - 1 = k - 1
                BY <3>5, <4>1, <4>4, <1>73
            <4>6. QED BY <4>5
        <3>6. r[1] # new
            BY <3>1, <3>4
        <3>7. QED BY <3>3, <3>4, <3>5, <3>6
    <2>11. ASSUME NEW i \in 1 .. n + 1
           PROVE  u[ring[i]].right = ring[After(i, n + 1)] /\ u[ring[i]].left = ring[Before(i, n + 1)]
        <3>1. CASE i = 1
            <4>1. ring[After(i, n + 1)] = new /\ ring[Before(i, n + 1)] = r[n] /\ ring[i] = r[1]
                <5>1. After(i, n + 1) = 2 /\ Before(i, n + 1) = n + 1 /\ n + 1 > 2 /\ n + 1 \in 1 .. n + 1
                      /\ 2 \in 1 .. n + 1 /\ (n + 1) - 1 = n
                    BY <3>1, <1>12 DEF After, Before
                <5>2. ring[n + 1] = r[(n + 1) - 1] /\ ring[2] = new
                    BY <5>1, <2>6
                <5>3. QED BY <3>1, <5>1, <5>2, <2>6
            <4>2. t[son].left = r[n]
                <5>1. Before(1, n) = n
                    BY DEF Before
                <5>2. QED BY <5>1, <2>1, <2>7, <1>75
            <4>3. QED BY <4>1, <4>2, <2>1, <2>3
        <3>2. CASE i = 2
            <4>1. ring[After(i, n + 1)] = x /\ ring[Before(i, n + 1)] = son /\ ring[i] = new
                <5>1. After(i, n + 1) = 3 /\ Before(i, n + 1) = 1 /\ 3 \in 1 .. n + 1 /\ 1 \in 1 .. n + 1
                      /\ 3 > 2 /\ 3 - 1 = 2
                    BY <3>2, <1>12 DEF After, Before
                <5>2. ring[3] = r[3 - 1] /\ ring[1] = r[1] /\ ring[i] = new
                    BY <3>2, <5>1, <2>6
                <5>3. QED BY <5>1, <5>2, <2>1 DEF x
            <4>2. QED BY <4>1, <2>3
        <3>3. CASE i > 2
            <4>1. ring[i] = r[i - 1] /\ i - 1 \in 2 .. n /\ i - 1 \in 1 .. n
                BY <3>3, <2>6
            <4>2. ring[After(i, n + 1)] = r[After(i - 1, n)]
                <5>1. CASE i = n + 1
                    <6>1. After(i, n + 1) = 1 /\ After(i - 1, n) = 1
                        BY <5>1 DEF After
                    <6>2. QED BY <6>1, <2>6, <2>7
                <5>2. CASE i # n + 1
                    <6>1. i + 1 \in 1 .. n + 1 /\ i + 1 > 2 /\ (i + 1) - 1 = i /\ (i - 1) + 1 = i /\ i - 1 # n
                        BY <3>3, <5>2
                    <6>2. QED BY <5>2, <6>1, <2>6 DEF After
                <5>3. QED BY <5>1, <5>2
            <4>3. r[i - 1] # son /\ r[i - 1] \in DOMAIN t
                BY <4>1, <2>1, <2>7, <1>71, <1>73
            <4>4. t[r[i - 1]].right = r[After(i - 1, n)] /\ t[r[i - 1]].left = r[Before(i - 1, n)]
                BY <4>1, <2>7, <1>75
            <4>5. CASE i = 3
                <5>1. ring[Before(i, n + 1)] = new /\ r[i - 1] = x
                    BY <4>5, <2>6, <2>7 DEF Before, x
                <5>2. QED BY <5>1, <4>1, <4>2, <4>4, <2>3
            <4>6. CASE i > 3
                <5>1. ring[Before(i, n + 1)] = r[i - 2] /\ Before(i - 1, n) = i - 2
                    <6>1. i - 1 \in 1 .. n + 1 /\ i - 1 > 2 /\ (i - 1) - 1 = i - 2 /\ i # 1 /\ i - 1 # 1
                        BY <4>6
                    <6>2. ring[i - 1] = r[(i - 1) - 1]
                        BY <6>1, <2>6
                    <6>3. QED BY <6>1, <6>2 DEF Before
                <5>2. r[i - 1] # x
                    <6>1. i - 1 # 2
                        BY <4>6
                    <6>2. QED BY <6>1, <4>1, <2>7, <1>73 DEF x
                <5>3. QED BY <5>1, <5>2, <4>1, <4>2, <4>3, <4>4, <2>3
            <4>7. QED BY <3>3, <4>5, <4>6
        <3>4. QED BY <3>1, <3>2, <3>3
    <2>12. IsRing(u, parent, ring, n + 1)
        <3>1. n + 1 # 0 /\ n + 1 # 1 /\ ring[1] = r[1]
            BY <2>6, <2>7, <1>12
        <3> DEFINE m == n + 1
        <3>2. m # 0 /\ m # 1 /\ u[parent].son = ring[1]
            BY <3>1, <2>5
        <3>3. /\ ring \in [1 .. m -> Children(u, parent)]
              /\ \A c \in Children(u, parent) : \E i \in 1 .. m : ring[i] = c
              /\ \A i, k \in 1 .. m : ring[i] = ring[k] => i = k
              /\ \A i \in 1 .. m : u[ring[i]].right = ring[After(i, m)] /\ u[ring[i]].left = ring[Before(i, m)]
            BY <2>8, <2>9, <2>10, <2>11
        <3> HIDE DEF m
        <3>4. IsRing(u, parent, ring, m)
            BY <3>2, <3>3 DEF IsRing
        <3>5. QED BY <3>4 DEF m
    <2>13. HasRing(u, parent)
        BY <2>12 DEF HasRing
    <2>14. \A q \in DOMAIN t : q \notin Children(t, parent) =>
                u[q].left = t[q].left /\ u[q].right = t[q].right
        <3>1. son \in Children(t, parent) /\ x \in Children(t, parent)
            BY <2>1, <2>7, <1>71 DEF x
        <3>2. QED BY <3>1, <2>3
    <2>15. IsTree(u)
        BY <2>3, <2>13, <2>14, <1>1, <1>8, AddNodeFrame DEF new
    <2>16. QED BY <2>3, <2>15 DEF u, new
<1>13. QED BY <1>10, <1>11, <1>12

-----------------------------------------------------------------------------
(* A node is deleted.                                                      *)

\* A leaf of t that is not the root.
CanDelete(t, node) ==
    IsForest(t) /\ node \in DOMAIN t /\ node # <<>> /\ Children(t, node) = {}

\* u is t without the leaf, and links differ among its siblings only.
Loses(t, u, node) ==
    /\ DOMAIN u = DOMAIN t \ {node}
    /\ u \in [DOMAIN u -> [son : Links, left : Links, right : Links]]
    /\ \A q \in DOMAIN u : q # Front(node) => u[q].son = t[q].son
    /\ \A q \in DOMAIN u : q \notin Children(t, Front(node)) =>
            u[q].left = t[q].left /\ u[q].right = t[q].right

\* A tree loses a leaf if its siblings form a ring again.
LEMMA DeleteNodeFrame ==
    ASSUME NEW t, IsTree(t), NEW node, CanDelete(t, node), NEW u, Loses(t, u, node),
           HasRing(u, Front(node))
    PROVE  IsTree(u)
<1>1. /\ IsForest(t) /\ node \in DOMAIN t /\ node # <<>> /\ Children(t, node) = {}
      /\ \A q \in DOMAIN t : HasRing(t, q)
    BY DEF CanDelete, IsTree
<1>0. /\ DOMAIN u = DOMAIN t \ {node}
      /\ u \in [DOMAIN u -> [son : Links, left : Links, right : Links]]
      /\ \A q \in DOMAIN u : q # Front(node) => u[q].son = t[q].son
      /\ \A q \in DOMAIN u : q \notin Children(t, Front(node)) =>
              u[q].left = t[q].left /\ u[q].right = t[q].right
    BY DEF Loses
<1>2. IsForest(u)
    <2>1. \A q \in DOMAIN t : q # <<>> => Front(q) \in DOMAIN t /\ Front(q) # node
        BY <1>1 DEF IsForest, Children
    <2>2. QED BY <1>0, <1>1, <2>1 DEF IsForest
<1>3. ASSUME NEW q \in DOMAIN u, q # Front(node) PROVE HasRing(u, q)
    <2>1. Children(u, q) = Children(t, q)
        BY <1>0, <1>1, <1>3 DEF Children
    <2>2. \A c \in Children(t, q) : c \in DOMAIN u /\ c \notin Children(t, Front(node))
        BY <1>0, <1>1, <1>3, <2>1, ChildrenFacts DEF Children
    <2>3. HasRing(t, q) /\ u[q].son = t[q].son
        BY <1>0, <1>1, <1>3
    <2>4. \A c \in Children(t, q) : u[c].left = t[c].left /\ u[c].right = t[c].right
        BY <1>0, <2>2
    <2>5. QED BY <2>1, <2>3, <2>4, RingStays
<1>4. QED BY <1>2, <1>3 DEF IsTree

\* A ring of at least three closes over the gap at position k, and starts, if the
\* gap is at its start, where it ended.  What position i was before.
Origin(n, k, i) == IF k = 1 THEN IF i = 1 THEN n ELSE i ELSE IF i < k THEN i ELSE i + 1

\* Neighbours in the ring that closed were neighbours, or next to the gap.
LEMMA OriginFacts ==
    ASSUME NEW n \in Nat, n > 2, NEW k \in 1 .. n
    PROVE  /\ \A i \in 1 .. n - 1 :
                LET o == Origin(n, k, i)
                    a == Origin(n, k, After(i, n - 1))
                    b == Origin(n, k, Before(i, n - 1)) IN
                /\ o \in 1 .. n /\ o # k
                /\ a = IF o = Before(k, n) THEN After(k, n) ELSE After(o, n)
                /\ b = IF o = After(k, n) THEN Before(k, n) ELSE Before(o, n)
           /\ Origin(n, k, 1) = IF k = 1 THEN Before(k, n) ELSE 1
           /\ After(k, n) \in 1 .. n /\ Before(k, n) \in 1 .. n
           /\ After(k, n) # k /\ Before(k, n) # k /\ After(k, n) # Before(k, n)
<1>1. ASSUME NEW i \in 1 .. n - 1
      PROVE  /\ Origin(n, k, i) \in 1 .. n /\ Origin(n, k, i) # k
             /\ Origin(n, k, After(i, n - 1)) =
                    IF Origin(n, k, i) = Before(k, n) THEN After(k, n) ELSE After(Origin(n, k, i), n)
             /\ Origin(n, k, Before(i, n - 1)) =
                    IF Origin(n, k, i) = After(k, n) THEN Before(k, n) ELSE Before(Origin(n, k, i), n)
    BY DEF Origin, After, Before
<1>2. /\ Origin(n, k, 1) = IF k = 1 THEN Before(k, n) ELSE 1
      /\ After(k, n) \in 1 .. n /\ Before(k, n) \in 1 .. n
      /\ After(k, n) # k /\ Before(k, n) # k /\ After(k, n) # Before(k, n)
    BY DEF Origin, After, Before
<1>3. QED BY <1>1, <1>2

\* Every position but the gap stays, once.
LEMMA OriginIsOnto ==
    ASSUME NEW n \in Nat, n > 2, NEW k \in 1 .. n
    PROVE  /\ \A i, j \in 1 .. n - 1 : Origin(n, k, i) = Origin(n, k, j) => i = j
           /\ \A o \in 1 .. n : o # k => \E i \in 1 .. n - 1 : Origin(n, k, i) = o
<1>1. \A i, j \in 1 .. n - 1 : Origin(n, k, i) = Origin(n, k, j) => i = j
    BY DEF Origin
<1>2. ASSUME NEW o \in 1 .. n, o # k PROVE \E i \in 1 .. n - 1 : Origin(n, k, i) = o
    <2> DEFINE i == IF k = 1 THEN IF o = n THEN 1 ELSE o ELSE IF o < k THEN o ELSE o - 1
    <2>1. i \in 1 .. n - 1 /\ Origin(n, k, i) = o
        BY <1>2 DEF Origin
    <2> HIDE DEF i
    <2>2. QED BY <2>1
<1>3. QED BY <1>1, <1>2

\* Without a leaf that is not its root a tree is still one.
LEMMA DeleteNodeIsTree ==
    ASSUME NEW t, IsTree(t), NEW node \in DOMAIN t, node # <<>>, Children(t, node) = {}
    PROVE  /\ IsTree(delete_node(t, node))
           /\ DOMAIN delete_node(t, node) = DOMAIN t \ {node}
<1> DEFINE p == Front(node)
           l == t[node].left
           x == t[node].right
           s == splice_out_of_sibling_ring(t, node)
           u == delete_node(t, node)
           Node == [son : Links, left : Links, right : Links]
<1>1. /\ IsForest(t) /\ IsTree(t) /\ CanDelete(t, node) /\ \A q \in DOMAIN t : HasRing(t, q)
      /\ p \in DOMAIN t /\ node \in Children(t, p) /\ node # p
    <2>1. IsForest(t)
        BY DEF IsTree
    <2>2. p \in DOMAIN t /\ node \in Children(t, p) /\ node # p
        BY <2>1, ChildrenFacts DEF IsForest
    <2>3. QED BY <2>1, <2>2 DEF IsTree, CanDelete
<1>2. s = IF l = Null THEN t
          ELSE IF l = x THEN [t EXCEPT ![l].right = Null, ![l].left = Null]
          ELSE [t EXCEPT ![l].right = x, ![x].left = l]
    BY DEF splice_out_of_sibling_ring
<1>3. u = [q \in DOMAIN s \ {node} |->
              IF q = p /\ s[q].son = node THEN [s[q] EXCEPT !.son = s[node].left] ELSE s[q]]
    BY DEF delete_node
<1>4. PICK n \in Nat : \E r : IsRing(t, p, r, n)
    BY <1>1 DEF HasRing
<1>5. PICK r : IsRing(t, p, r, n)
    BY <1>4
<1>6. /\ \A i \in 1 .. n : r[i] \in Children(t, p) /\ r[i] \in DOMAIN t /\ r[i] # Null /\ r[i] # p
      /\ \A c \in Children(t, p) : \E i \in 1 .. n : r[i] = c
    BY <1>1, <1>5, ChildrenFacts, NodesAreNotNull DEF IsRing
<1>7. \A i, k \in 1 .. n : r[i] = r[k] => i = k
    BY <1>5 DEF IsRing
<1>8. PICK k \in 1 .. n : r[k] = node
    BY <1>1, <1>6
<1>9. /\ n # 0 /\ t[p].son = r[1]
      /\ n = 1 => t[r[1]].left = Null
      /\ n # 1 => \A i \in 1 .. n : t[r[i]].right = r[After(i, n)] /\ t[r[i]].left = r[Before(i, n)]
    BY <1>5, <1>8 DEF IsRing
<1>10. /\ t \in [DOMAIN t -> Node] /\ Null \in Links /\ l \in Links /\ x \in Links
       /\ \A q \in DOMAIN t : q \in Links
    BY <1>1 DEF IsForest, Links
<1>11. \A y : DOMAIN y = DOMAIN t \ {node} => Children(y, p) = Children(t, p) \ {node}
    BY DEF Children
<1> HIDE DEF u, s, l, x, p
<1>12. \A i \in 1 .. n : r[i] \in Links
    BY <1>6, <1>10
<1>13. CASE n = 1
    <2>1. k = 1 /\ l = Null /\ t[p].son = node
        BY <1>8, <1>9, <1>13 DEF l
    <2>2. s = t
        BY <1>2, <2>1
    <2>3. u = [q \in DOMAIN t \ {node} |->
                  IF q = p /\ t[q].son = node THEN [t[q] EXCEPT !.son = Null] ELSE t[q]]
        BY <1>3, <2>1, <2>2 DEF l
    <2>4. /\ DOMAIN u = DOMAIN t \ {node} /\ u \in [DOMAIN u -> Node]
          /\ u[p].son = Null
          /\ \A q \in DOMAIN u : /\ q # p => u[q].son = t[q].son
                                 /\ u[q].left = t[q].left /\ u[q].right = t[q].right
        BY <1>1, <1>10, <2>1, <2>3
    <2>5. Children(u, p) = {}
        <3>1. \A i \in 1 .. n : r[i] = node
            BY <2>1, <1>8, <1>13
        <3>2. \A c \in Children(t, p) : c = node
            BY <3>1, <1>6
        <3>3. Children(u, p) = Children(t, p) \ {node}
            BY <2>4, <1>11
        <3>4. QED BY <3>2, <3>3
    <2> DEFINE ring == [i \in 1 .. 0 |-> node]
    <2>6. IsRing(u, p, ring, 0)
        BY <2>4, <2>5 DEF IsRing
    <2>7. HasRing(u, p)
        BY <2>6 DEF HasRing
    <2>8. Loses(t, u, node)
        BY <2>4 DEF Loses, p
    <2>9. IsTree(u)
        BY <2>7, <2>8, <1>1, DeleteNodeFrame DEF p
    <2>10. QED BY <2>4, <2>9 DEF u
<1>14. CASE n = 2
    <2> DEFINE o == r[IF k = 1 THEN 2 ELSE 1]
    <2>1. /\ o \in DOMAIN t /\ o # node /\ o # Null /\ o # p /\ o \in Links /\ o \in Children(t, p)
          /\ l = o /\ x = o /\ Children(t, p) = {node, o} /\ t[p].son \in {node, o}
        <3>1. /\ 1 \in 1 .. n /\ 2 \in 1 .. n /\ n # 1 /\ (k = 1 \/ k = 2)
              /\ Before(1, n) = 2 /\ Before(2, n) = 1 /\ After(1, n) = 2 /\ After(2, n) = 1
              /\ \A i \in 1 .. n : i = 1 \/ i = 2
            BY <1>14 DEF Before, After
        <3>2. l = o /\ x = o
            BY <3>1, <1>8, <1>9 DEF l, x
        <3>3. o # node
            BY <3>1, <1>7, <1>8
        <3>4. o \in Children(t, p) /\ o \in DOMAIN t /\ o # Null /\ o # p /\ o \in Links
            BY <3>1, <1>6, <1>12
        <3>5. \A c \in Children(t, p) : c = node \/ c = o
            BY <3>1, <1>6, <1>8
        <3>6. Children(t, p) = {node, o}
            BY <3>4, <3>5, <1>1
        <3>7. QED BY <3>1, <3>2, <3>3, <3>4, <3>6, <1>8, <1>9
    <2> HIDE DEF o
    <2>2. s = [t EXCEPT ![o].right = Null, ![o].left = Null]
        BY <1>2, <2>1
    <2>3. /\ DOMAIN s = DOMAIN t /\ s \in [DOMAIN t -> Node] /\ s[node].left = o
          /\ s[o].left = Null /\ s[o].right = Null
          /\ \A q \in DOMAIN t : /\ s[q].son = t[q].son
                                 /\ q # o => s[q].left = t[q].left /\ s[q].right = t[q].right
        BY <1>10, <2>1, <2>2, Zenon DEF l
    <2>4. /\ DOMAIN u = DOMAIN t \ {node} /\ u \in [DOMAIN u -> Node]
          /\ u[p].son = o
          /\ \A q \in DOMAIN u : /\ q # p => u[q].son = s[q].son
                                 /\ u[q].left = s[q].left /\ u[q].right = s[q].right
        BY <1>1, <1>3, <2>1, <2>3
    <2>5. Children(u, p) = {o}
        BY <2>1, <2>4, <1>11
    <2> DEFINE ring == [i \in 1 .. 1 |-> o]
    <2>6. IsRing(u, p, ring, 1)
        BY <2>1, <2>3, <2>4, <2>5 DEF IsRing
    <2>7. HasRing(u, p)
        BY <2>6 DEF HasRing
    <2>8. \A q \in DOMAIN u : /\ q # p => u[q].son = t[q].son
                              /\ q \notin Children(t, p) => u[q].left = t[q].left /\ u[q].right = t[q].right
        BY <2>1, <2>3, <2>4
    <2>81. DOMAIN u = DOMAIN t \ {node} /\ u \in [DOMAIN u -> Node]
        BY <2>4
    <2>9. Loses(t, u, node)
        BY <2>8, <2>81 DEF Loses, p
    <2>10. IsTree(u)
        BY <2>7, <2>9, <1>1, DeleteNodeFrame DEF p
    <2>11. QED BY <2>4, <2>10 DEF u
<1>15. CASE n > 2
    <2> DEFINE a == After(k, n)
               b == Before(k, n)
    <2>0. n \in Nat /\ n > 2 /\ k \in 1 .. n
        BY <1>15
    <2>1. /\ a \in 1 .. n /\ b \in 1 .. n /\ a # k /\ b # k /\ a # b /\ 1 \in 1 .. n /\ n # 1
        BY <2>0, OriginFacts
    <2>2. l = r[b] /\ x = r[a]
        BY <2>1, <1>8, <1>9 DEF l, x
    <2>3. /\ l \in DOMAIN t /\ l # node /\ l # Null /\ l # p
          /\ x \in DOMAIN t /\ x # node /\ x # Null /\ x # p /\ l # x
          /\ l \in Children(t, p) /\ x \in Children(t, p)
        BY <2>1, <2>2, <1>6, <1>7, <1>8
    <2>4. s = [t EXCEPT ![l].right = x, ![x].left = l]
        BY <1>2, <2>3
    <2>5. /\ DOMAIN s = DOMAIN t /\ s \in [DOMAIN t -> Node] /\ s[node].left = l
          /\ s[l].right = x /\ s[l].left = t[l].left /\ s[x].left = l /\ s[x].right = t[x].right
          /\ \A q \in DOMAIN t : /\ s[q].son = t[q].son
                                 /\ q # l /\ q # x => s[q].left = t[q].left /\ s[q].right = t[q].right
        BY <1>10, <2>3, <2>4 DEF l
    <2>6. /\ DOMAIN u = DOMAIN t \ {node} /\ u \in [DOMAIN u -> Node]
          /\ u[p].son = IF t[p].son = node THEN l ELSE t[p].son
          /\ \A q \in DOMAIN u : /\ q # p => u[q].son = s[q].son
                                 /\ u[q].left = s[q].left /\ u[q].right = s[q].right
        BY <1>1, <1>3, <1>10, <2>3, <2>5
    <2> DEFINE m == n - 1
               O(i) == Origin(n, k, i)
               ring == [i \in 1 .. m |-> r[O(i)]]
    <2>7. /\ m \in Nat /\ m # 0 /\ m # 1 /\ 1 \in 1 .. m
          /\ \A i \in 1 .. m : After(i, m) \in 1 .. m /\ Before(i, m) \in 1 .. m
        BY <1>15 DEF After, Before
    <2>8. \A i \in 1 .. m : /\ O(i) \in 1 .. n /\ O(i) # k
                            /\ O(After(i, m)) = IF O(i) = b THEN a ELSE After(O(i), n)
                            /\ O(Before(i, m)) = IF O(i) = a THEN b ELSE Before(O(i), n)
        BY <2>0, OriginFacts
    <2>91. O(1) = IF k = 1 THEN b ELSE 1
        BY <2>0, OriginFacts
    <2>92. /\ \A i, j \in 1 .. m : O(i) = O(j) => i = j
           /\ \A o \in 1 .. n : o # k => \E i \in 1 .. m : O(i) = o
        BY <2>0, OriginIsOnto
    <2>9. /\ \A i, j \in 1 .. m : O(i) = O(j) => i = j
          /\ \A o \in 1 .. n : o # k => \E i \in 1 .. m : O(i) = o
          /\ O(1) = IF k = 1 THEN b ELSE 1
        BY <2>91, <2>92
    <2>10. \A i \in 1 .. m : ring[i] = r[O(i)]
        OBVIOUS
    <2>11. DOMAIN ring = 1 .. m /\ ring = [i \in 1 .. m |-> ring[i]]
        OBVIOUS
    <2> HIDE DEF ring, m, O, a, b
    <2>12. Children(u, p) = Children(t, p) \ {node}
        BY <2>6, <1>11
    <2>13. \A i \in 1 .. m : ring[i] \in Children(u, p)
        BY <2>8, <2>10, <2>12, <1>6, <1>7, <1>8
    <2>14. \A c \in Children(u, p) : \E i \in 1 .. m : ring[i] = c
        <3> SUFFICES ASSUME NEW c \in Children(u, p) PROVE \E i \in 1 .. m : ring[i] = c
            OBVIOUS
        <3>1. PICK o \in 1 .. n : r[o] = c
            BY <2>12, <1>6
        <3>2. o # k
            BY <3>1, <2>12, <1>8
        <3>3. PICK i \in 1 .. m : O(i) = o
            BY <3>2, <2>9
        <3>4. QED BY <3>1, <3>3, <2>10
    <2>15. \A i, j \in 1 .. m : ring[i] = ring[j] => i = j
        BY <2>8, <2>9, <2>10, <1>7
    <2>16. u[p].son = ring[1]
        <3>1. CASE k = 1
            BY <3>1, <2>2, <2>6, <2>7, <2>9, <2>10, <1>8, <1>9
        <3>2. CASE k # 1
            <4>1. t[p].son # node
                BY <3>2, <2>1, <1>7, <1>8, <1>9
            <4>2. QED BY <3>2, <4>1, <2>6, <2>7, <2>9, <2>10, <1>9
        <3>3. QED BY <3>1, <3>2
    <2>17. ASSUME NEW i \in 1 .. m
           PROVE  u[ring[i]].right = ring[After(i, m)] /\ u[ring[i]].left = ring[Before(i, m)]
        <3> DEFINE o == O(i)
        <3>1. /\ o \in 1 .. n /\ o # k /\ ring[i] = r[o]
              /\ O(After(i, m)) = IF o = b THEN a ELSE After(o, n)
              /\ O(Before(i, m)) = IF o = a THEN b ELSE Before(o, n)
            BY <2>8, <2>10
        <3>2. /\ ring[After(i, m)] = IF o = b THEN r[a] ELSE r[After(o, n)]
              /\ ring[Before(i, m)] = IF o = a THEN r[b] ELSE r[Before(o, n)]
            BY <3>1, <2>7, <2>10
        <3> HIDE DEF o
        <3>3. r[o] \in DOMAIN t /\ r[o] # node /\ r[o] \in DOMAIN u
            BY <3>1, <2>6, <1>6, <1>7, <1>8
        <3>4. t[r[o]].right = r[After(o, n)] /\ t[r[o]].left = r[Before(o, n)]
            BY <3>1, <2>1, <1>9
        <3>5. (r[o] = l <=> o = b) /\ (r[o] = x <=> o = a)
            BY <3>1, <2>1, <2>2, <1>7
        <3>6. s[r[o]].right = ring[After(i, m)] /\ s[r[o]].left = ring[Before(i, m)]
            BY <3>2, <3>3, <3>4, <3>5, <2>1, <2>2, <2>3, <2>5
        <3>7. QED BY <3>1, <3>3, <3>6, <2>6
    <2>18. IsRing(u, p, ring, m)
        BY <2>7, <2>11, <2>13, <2>14, <2>15, <2>16, <2>17 DEF IsRing
    <2>19. HasRing(u, p)
        BY <2>7, <2>18 DEF HasRing
    <2>20. \A q \in DOMAIN u : /\ q # p => u[q].son = t[q].son
                               /\ q \notin Children(t, p) => u[q].left = t[q].left /\ u[q].right = t[q].right
        BY <2>3, <2>5, <2>6
    <2>201. DOMAIN u = DOMAIN t \ {node} /\ u \in [DOMAIN u -> Node]
        BY <2>6
    <2>21. Loses(t, u, node)
        BY <2>20, <2>201 DEF Loses, p
    <2>22. IsTree(u)
        BY <2>19, <2>21, <1>1, DeleteNodeFrame DEF p
    <2>23. QED BY <2>6, <2>22 DEF u
<1>16. QED BY <1>8, <1>13, <1>14, <1>15

-----------------------------------------------------------------------------
(* A leaf is removed, and what led only to it.                             *)

\* The nodes on the way to some leaf.
OnWay(W) == UNION {{get_node_by_depth(leaf, d) : d \in 0 .. Len(leaf)} : leaf \in W}

\* Those on the way to one leaf, down to a depth.
WayTo(leaf, d) == {get_node_by_depth(leaf, e) : e \in 0 .. d}

\* What is on the way.
LEMMA OnWayIs ==
    ASSUME NEW W
    PROVE  \A x : x \in OnWay(W) <=> \E leaf \in W : \E d \in 0 .. Len(leaf) : x = get_node_by_depth(leaf, d)
BY DEF OnWay

\* A tree with these nodes.
TreesOn(S) == {t \in UNION {[D -> [son : Links, left : Links, right : Links]] : D \in SUBSET Seq(Nat)} :
                 IsTree(t) /\ DOMAIN t = S}

\* To be one of them.
LEMMA TreesOnIs == ASSUME NEW S, NEW t PROVE t \in TreesOn(S) <=> IsTree(t) /\ DOMAIN t = S
BY DEF TreesOn, IsTree, IsForest

\* Trees with the nodes on the way to W, and to a leaf down to a depth.
Between(W, leaf, d) == TreesOn(OnWay(W) \cup WayTo(leaf, d))

\* To be one of those.
LEMMA BetweenIs ==
    ASSUME NEW W, NEW leaf, NEW d, NEW t
    PROVE  t \in Between(W, leaf, d) <=> IsTree(t) /\ DOMAIN t = OnWay(W) \cup WayTo(leaf, d)
BY TreesOnIs DEF Between

\* A node is removed if nothing is below it.
Cascade(u, node) ==
    IF u[node].son # Null THEN u
    ELSE IF node = <<>> THEN Gone
    ELSE delete_node(u, node)

\* The node of a leaf at one depth is looked at.
LEMMA CascadeAtDepth ==
    ASSUME NEW W, W \subseteq Seq(Nat), NEW leaf \in Seq(Nat), NEW d \in 0 .. Len(leaf),
           \A m \in W : get_node_by_depth(leaf, d) # m,
           NEW u, IsTree(u), DOMAIN u = OnWay(W) \cup WayTo(leaf, d)
    PROVE  /\ IsTree(Cascade(u, get_node_by_depth(leaf, d)))
           /\ DOMAIN Cascade(u, get_node_by_depth(leaf, d)) = OnWay(W) \cup WayTo(leaf, d - 1)
<1> DEFINE node == get_node_by_depth(leaf, d)
<1>1. node \in Seq(Nat) /\ Len(node) = d /\ (d = 0 <=> node = <<>>)
    BY DepthFacts
<1>2. \A x \in WayTo(leaf, d - 1) : x # node
    <2>1. \A e \in 0 .. d - 1 : e \in 0 .. Len(leaf) /\ e # d
        OBVIOUS
    <2>2. \A e \in 0 .. d - 1 : Len(get_node_by_depth(leaf, e)) = e
        BY <2>1, DepthFacts
    <2>3. QED BY <1>1, <2>1, <2>2 DEF WayTo
<1>3. WayTo(leaf, d) = WayTo(leaf, d - 1) \cup {node}
    <2>1. 0 .. d = (0 .. d - 1) \cup {d}
        OBVIOUS
    <2>2. QED BY <2>1 DEF WayTo
<1>4. IsForest(u) /\ HasRing(u, node) /\ node \in DOMAIN u
    BY <1>3 DEF IsTree
<1> HIDE DEF node
<1>5. CASE u[node].son # Null
    <2>1. PICK c : c \in Children(u, node)
        BY <1>4, <1>5, SonIsNull
    <2>2. c \in DOMAIN u /\ c \in Seq(Nat) /\ c # <<>> /\ Front(c) = node
        BY <2>1, <1>4 DEF Children, IsForest
    <2>3. Len(c) = d + 1
        BY <1>1, <2>2, NodeFacts
    <2>4. c \in OnWay(W)
        <3>1. \A e \in 0 .. d : Len(get_node_by_depth(leaf, e)) = e /\ e # d + 1
            BY DepthFacts
        <3>2. c \notin WayTo(leaf, d)
            BY <2>3, <3>1 DEF WayTo
        <3>3. QED BY <2>2, <3>2
    <2>5. node \in OnWay(W)
        <3>1. PICK m \in W : \E e \in 0 .. Len(m) : c = get_node_by_depth(m, e)
            BY <2>4, OnWayIs
        <3>2. PICK e \in 0 .. Len(m) : c = get_node_by_depth(m, e)
            BY <3>1
        <3>3. m \in Seq(Nat) /\ Len(m) \in Nat
            OBVIOUS
        <3>4. e = d + 1 /\ d \in Nat
            BY <2>3, <3>2, <3>3, DepthFacts
        <3>5. e > 0 /\ e - 1 \in 0 .. Len(m)
            BY <3>3, <3>4
        <3>6. node = get_node_by_depth(m, e - 1)
            BY <2>2, <3>2, <3>3, <3>5, DepthFacts
        <3>7. QED BY <3>5, <3>6, OnWayIs
    <2>6. Cascade(u, node) = u
        BY <1>5 DEF Cascade
    <2>7. DOMAIN u = OnWay(W) \cup WayTo(leaf, d - 1)
        BY <1>3, <2>5
    <2>8. QED BY <2>6, <2>7 DEF node
<1>6. CASE u[node].son = Null
    <2>1. Children(u, node) = {}
        BY <1>4, <1>6, SonIsNull
    <2>2. node \notin OnWay(W)
        <3> SUFFICES ASSUME node \in OnWay(W) PROVE FALSE
            OBVIOUS
        <3>1. PICK m \in W : \E e \in 0 .. Len(m) : node = get_node_by_depth(m, e)
            BY OnWayIs
        <3>2. PICK e \in 0 .. Len(m) : node = get_node_by_depth(m, e)
            BY <3>1
        <3>3. m \in Seq(Nat) /\ Len(m) \in Nat /\ m # node
            BY DEF node
        <3>4. e # Len(m)
            BY <3>2, <3>3, DepthFacts
        <3>5. e + 1 \in 0 .. Len(m) /\ e + 1 > 0 /\ (e + 1) - 1 = e
            BY <3>3, <3>4
        <3> DEFINE c == get_node_by_depth(m, e + 1)
        <3>6. Len(c) = e + 1 /\ c # <<>> /\ Front(c) = node
            BY <3>2, <3>3, <3>5, DepthFacts
        <3>7. c \in DOMAIN u
            BY <3>5, OnWayIs
        <3> HIDE DEF c
        <3>8. c \in Children(u, node)
            BY <3>6, <3>7 DEF Children
        <3>9. QED BY <2>1, <3>8
    <2>3. DOMAIN u \ {node} = OnWay(W) \cup WayTo(leaf, d - 1)
        BY <1>2, <1>3, <2>2
    <2>4. CASE node = <<>>
        <3>1. W = {}
            <4> SUFFICES ASSUME NEW m \in W PROVE FALSE
                OBVIOUS
            <4>1. m \in Seq(Nat) /\ Len(m) \in Nat /\ 0 \in 0 .. Len(m)
                OBVIOUS
            <4>2. get_node_by_depth(m, 0) = <<>>
                BY <4>1, DepthFacts
            <4>3. QED BY <2>2, <2>4, <4>1, <4>2, OnWayIs
        <3>2. OnWay(W) = {} /\ WayTo(leaf, d - 1) = {}
            BY <1>1, <2>4, <3>1 DEF OnWay, WayTo
        <3>3. Cascade(u, node) = Gone
            BY <1>6, <2>4 DEF Cascade
        <3>4. DOMAIN Gone = {} /\ IsTree(Gone)
            BY DEF Gone, IsTree, IsForest
        <3>5. QED BY <3>2, <3>3, <3>4 DEF node
    <2>5. CASE node # <<>>
        <3>1. Cascade(u, node) = delete_node(u, node)
            BY <1>6, <2>5 DEF Cascade
        <3>2. IsTree(delete_node(u, node)) /\ DOMAIN delete_node(u, node) = DOMAIN u \ {node}
            BY <1>4, <2>1, <2>5, DeleteNodeIsTree
        <3>3. QED BY <2>3, <3>1, <3>2 DEF node
    <2>6. QED BY <2>4, <2>5
<1>7. QED BY <1>5, <1>6

\* Removing a leaf leaves a tree of the other leaves.
LEMMA RemoveNodeIsTree ==
    ASSUME NEW W, W \subseteq Seq(Nat), NEW leaf \in Seq(Nat),
           \A m \in W : \A d \in 0 .. Len(leaf) : get_node_by_depth(leaf, d) # m,
           NEW t, IsTree(t), DOMAIN t = OnWay(W \cup {leaf})
    PROVE  IsTree(remove_node(t, leaf)) /\ DOMAIN remove_node(t, leaf) = OnWay(W)
<1> DEFINE n == Len(leaf)
           nodeAt(k) == get_node_by_depth(leaf, n + 1 - k)
           X == [k \in 0 .. n + 1 |-> Between(W, leaf, n - k)]
           step == [k \in 1 .. n + 1 |-> [u \in X[k - 1] |-> Cascade(u, nodeAt(k))]]
           IsThis(f) == f = [k \in 0 .. n + 1 |->
                               IF k = 0 THEN t
                               ELSE IF f[k - 1][nodeAt(k)].son # Null THEN f[k - 1]
                               ELSE IF nodeAt(k) = <<>> THEN Gone
                               ELSE delete_node(f[k - 1], nodeAt(k))]
           Follows(f) == f = [k \in 0 .. n + 1 |-> IF k = 0 THEN t ELSE Cascade(f[k - 1], nodeAt(k))]
           removed == CHOOSE f : IsThis(f)
<1>1. n \in Nat
    OBVIOUS
<1>2. remove_node(t, leaf) = removed[n + 1]
    BY DEF remove_node
<1>3. \A f : IsThis(f) <=> Follows(f)
    BY DEF Cascade
<1>4. /\ X[0] = Between(W, leaf, n) /\ X[n + 1] = Between(W, leaf, 0 - 1)
      /\ \A k \in 1 .. n + 1 : /\ X[k - 1] = Between(W, leaf, n - (k - 1))
                               /\ X[k] = Between(W, leaf, n - k)
    BY <1>1
<1>5. t \in X[0]
    <2>1. OnWay(W \cup {leaf}) = OnWay(W) \cup WayTo(leaf, n)
        BY DEF OnWay, WayTo
    <2> HIDE DEF n, X
    <2>2. IsTree(t) /\ DOMAIN t = OnWay(W) \cup WayTo(leaf, n)
        BY <2>1
    <2>3. t \in Between(W, leaf, n)
        BY <2>2, BetweenIs
    <2>4. QED BY <2>3, <1>4
<1>6. ASSUME NEW k \in 1 .. n + 1, NEW u \in X[k - 1] PROVE Cascade(u, nodeAt(k)) \in X[k]
    <2> DEFINE d == n + 1 - k
    <2>1. d \in 0 .. n /\ n - (k - 1) = d /\ n - k = d - 1
        BY <1>1
    <2>2. nodeAt(k) = get_node_by_depth(leaf, d)
        OBVIOUS
    <2> HIDE DEF d, X, nodeAt
    <2>30. u \in Between(W, leaf, d) /\ X[k] = Between(W, leaf, d - 1)
        BY <2>1, <1>4, <1>6
    <2>3. IsTree(u) /\ DOMAIN u = OnWay(W) \cup WayTo(leaf, d)
        BY <2>30, BetweenIs
    <2>4. \A m \in W : get_node_by_depth(leaf, d) # m
        BY <2>1
    <2>50. d \in 0 .. Len(leaf) /\ W \subseteq Seq(Nat) /\ leaf \in Seq(Nat)
        BY <2>1
    <2> HIDE DEF n
    <2>5. /\ IsTree(Cascade(u, get_node_by_depth(leaf, d)))
          /\ DOMAIN Cascade(u, get_node_by_depth(leaf, d)) = OnWay(W) \cup WayTo(leaf, d - 1)
        BY <2>50, <2>3, <2>4, CascadeAtDepth
    <2>6. Cascade(u, get_node_by_depth(leaf, d)) \in Between(W, leaf, d - 1)
        BY <2>5, BetweenIs
    <2>7. QED BY <2>2, <2>6, <2>30
<1>7. \A k \in 1 .. n + 1 : \A u \in X[k - 1] : step[k][u] = Cascade(u, nodeAt(k))
    <2> HIDE DEF X, nodeAt
    <2>1. QED OBVIOUS
<1> HIDE DEF X, step, IsThis, nodeAt
<1>8. \E f : IsThis(f)
    <2>0. n + 1 \in Nat
        BY <1>1
    <2>1. PICK f : IsRun(f, t, step, n + 1)
        BY <2>0, RunExists
    <2>2. f[0] = t /\ \A k \in 1 .. n + 1 : f[k] = step[k][f[k - 1]]
        <3> HIDE DEF n
        <3>1. f = [k \in 0 .. n + 1 |-> IF k = 0 THEN t ELSE step[k][f[k - 1]]]
            BY <2>1 DEF IsRun
        <3>2. 0 \in 0 .. n + 1 /\ \A k \in 1 .. n + 1 : k \in 0 .. n + 1 /\ k # 0
            BY <1>1
        <3>3. QED BY <3>1, <3>2
    <2>3. \A k \in 1 .. n + 1 : f[k - 1] \in X[k - 1] => f[k] \in X[k]
        BY <2>2, <1>6, <1>7
    <2>4. \A k \in 0 .. n + 1 : f[k] \in X[k]
        <3> HIDE DEF n
        <3>1. QED BY <2>0, <2>2, <2>3, <1>5, RunStays
    <2>5. \A k \in 1 .. n + 1 : f[k] = Cascade(f[k - 1], nodeAt(k))
        <3>1. \A k \in 1 .. n + 1 : f[k - 1] \in X[k - 1]
            BY <2>4, <1>1
        <3>2. QED BY <3>1, <2>2, <1>7
    <2>6. f = [k \in 0 .. n + 1 |-> f[k]]
        BY <2>1 DEF IsRun
    <2>61. \A k \in 0 .. n + 1 : k # 0 => k \in 1 .. n + 1
        BY <1>1
    <2>62. \A k \in 0 .. n + 1 : f[k] = IF k = 0 THEN t ELSE Cascade(f[k - 1], nodeAt(k))
        BY <2>2, <2>5, <2>61
    <2>7. Follows(f)
        <3> HIDE DEF n
        <3>1. QED BY <2>6, <2>62
    <2>8. QED BY <2>7, <1>3
<1>9. Follows(removed)
    <2> HIDE DEF Follows
    <2>1. QED BY <1>3, <1>8
<1> HIDE DEF removed
<1>10. removed[0] = t /\ \A k \in 1 .. n + 1 : removed[k] = Cascade(removed[k - 1], nodeAt(k))
    <2> HIDE DEF n
    <2>1. 0 \in 0 .. n + 1 /\ \A k \in 1 .. n + 1 : k \in 0 .. n + 1 /\ k # 0
        BY <1>1
    <2>2. QED BY <2>1, <1>9
<1>11. \A k \in 0 .. n + 1 : removed[k] \in X[k]
    <2>1. n + 1 \in Nat /\ \A k \in 1 .. n + 1 : removed[k - 1] \in X[k - 1] => removed[k] \in X[k]
        BY <1>1, <1>6, <1>10
    <2> HIDE DEF n
    <2>2. QED BY <2>1, <1>5, <1>10, RunStays
<1>12. removed[n + 1] \in Between(W, leaf, 0 - 1)
    BY <1>1, <1>4, <1>11
<1>13. WayTo(leaf, 0 - 1) = {}
    BY DEF WayTo
<1>14. IsTree(removed[n + 1]) /\ DOMAIN removed[n + 1] = OnWay(W) \cup WayTo(leaf, 0 - 1)
    <2> HIDE DEF n
    <2>1. QED BY <1>12, BetweenIs
<1>15. QED BY <1>2, <1>13, <1>14

-----------------------------------------------------------------------------
(* A level is added.                                                       *)

\* The nodes of the first k pairs.
Added(pairs, k) == {Append(pairs[i][2], pairs[i][1]) : i \in 1 .. k}

\* New children, each once, of nodes of t.
CanGrow(t, pairs) ==
    /\ Len(pairs) \in Nat /\ DOMAIN pairs = 1 .. Len(pairs)
    /\ \A i \in 1 .. Len(pairs) : /\ pairs[i][1] \in Nat /\ pairs[i][2] \in DOMAIN t
                                  /\ Append(pairs[i][2], pairs[i][1]) \notin DOMAIN t
    /\ \A i, k \in 1 .. Len(pairs) :
            Append(pairs[i][2], pairs[i][1]) = Append(pairs[k][2], pairs[k][1]) => i = k

\* Trees that have got the first k of them.
GrownBy(t, pairs, k) == TreesOn(DOMAIN t \cup Added(pairs, k))

\* To be one that has grown so far.
LEMMA GrownByIs ==
    ASSUME NEW t, NEW pairs, NEW k, NEW u
    PROVE  u \in GrownBy(t, pairs, k) <=> IsTree(u) /\ DOMAIN u = DOMAIN t \cup Added(pairs, k)
BY TreesOnIs DEF GrownBy

\* add_node adds the next of them.
LEMMA AddOne ==
    ASSUME NEW t, NEW pairs, CanGrow(t, pairs), NEW k \in 1 .. Len(pairs),
           NEW u \in GrownBy(t, pairs, k - 1)
    PROVE  add_node(u, pairs[k][2], pairs[k][1]) \in GrownBy(t, pairs, k)
<1> DEFINE p == pairs[k][2]
           v == pairs[k][1]
<1>0. Len(pairs) \in Nat
    BY DEF CanGrow
<1>1. IsTree(u) /\ DOMAIN u = DOMAIN t \cup Added(pairs, k - 1)
    BY GrownByIs
<1>2. v \in Nat /\ p \in DOMAIN u
    BY <1>1 DEF CanGrow
<1>3. Append(p, v) \notin DOMAIN u
    <2>1. Append(p, v) \notin DOMAIN t
        BY DEF CanGrow
    <2>2. \A i \in 1 .. k - 1 : i \in 1 .. Len(pairs) /\ i # k
        BY <1>0
    <2>3. \A i \in 1 .. k - 1 : Append(pairs[i][2], pairs[i][1]) # Append(p, v)
        BY <2>2 DEF CanGrow
    <2> HIDE DEF p, v
    <2>4. QED BY <2>1, <2>3, <1>1 DEF Added
<1>4. Added(pairs, k) = Added(pairs, k - 1) \cup {Append(p, v)}
    <2>1. 1 .. k = (1 .. k - 1) \cup {k}
        BY <1>0
    <2>2. QED BY <2>1 DEF Added
<1> HIDE DEF p, v
<1>5. IsTree(add_node(u, p, v)) /\ DOMAIN add_node(u, p, v) = DOMAIN u \cup {Append(p, v)}
    BY <1>1, <1>2, <1>3, AddNodeIsTree, Zenon
<1>6. DOMAIN add_node(u, p, v) = DOMAIN t \cup Added(pairs, k)
    BY <1>1, <1>4, <1>5
<1>7. add_node(u, p, v) \in GrownBy(t, pairs, k)
    BY <1>5, <1>6, GrownByIs
<1>8. QED BY <1>7 DEF p, v

\* A level of new leaves leaves a tree a tree.
LEMMA AddLevelIsTree ==
    ASSUME NEW t, IsTree(t), NEW pairs, CanGrow(t, pairs)
    PROVE  /\ IsTree(add_tree_level(t, pairs))
           /\ DOMAIN add_tree_level(t, pairs) = DOMAIN t \cup Added(pairs, Len(pairs))
<1> DEFINE n == Len(pairs)
           X == [k \in 0 .. n |-> GrownBy(t, pairs, k)]
           Step(k, u) == add_node(u, pairs[k][2], pairs[k][1])
           step == [k \in 1 .. n |-> [u \in X[k - 1] |-> Step(k, u)]]
           Follows(f) == f = [k \in 0 .. n |-> IF k = 0 THEN t ELSE Step(k, f[k - 1])]
           grown == CHOOSE f : Follows(f)
<1>1. n \in Nat
    BY DEF CanGrow
<1>2. add_tree_level(t, pairs) = grown[n]
    BY DEF add_tree_level
<1>3. \A k \in 0 .. n : X[k] = GrownBy(t, pairs, k)
    OBVIOUS
<1>30. 0 \in 0 .. n /\ n \in 0 .. n /\ \A k \in 1 .. n : k \in 0 .. n /\ k - 1 \in 0 .. n /\ k # 0
    BY <1>1
<1>4. t \in X[0]
    <2>1. Added(pairs, 0) = {}
        BY DEF Added
    <2>2. DOMAIN t = DOMAIN t \cup Added(pairs, 0)
        BY <2>1
    <2>3. t \in GrownBy(t, pairs, 0)
        BY <2>2, GrownByIs
    <2>4. QED BY <2>3, <1>3, <1>30
<1>5. ASSUME NEW k \in 1 .. n, NEW u \in X[k - 1] PROVE Step(k, u) \in X[k]
    <2>1. u \in GrownBy(t, pairs, k - 1)
        BY <1>3, <1>30, <1>5
    <2>2. k \in 1 .. Len(pairs)
        OBVIOUS
    <2>3. add_node(u, pairs[k][2], pairs[k][1]) \in GrownBy(t, pairs, k)
        BY <2>1, <2>2, AddOne
    <2>4. QED BY <2>3, <1>3, <1>30
<1> HIDE DEF X, Step
<1>6. \A k \in 1 .. n : \A u \in X[k - 1] : step[k][u] = Step(k, u)
    OBVIOUS
<1> HIDE DEF step, n
<1>7. \E f : Follows(f)
    <2>1. PICK f : IsRun(f, t, step, n)
        BY <1>1, RunExists
    <2>2. f[0] = t /\ \A k \in 1 .. n : f[k] = step[k][f[k - 1]]
        BY <2>1, <1>30 DEF IsRun
    <2>3. \A k \in 1 .. n : f[k - 1] \in X[k - 1] => f[k] \in X[k]
        BY <2>2, <1>5, <1>6
    <2>4. \A k \in 0 .. n : f[k] \in X[k]
        BY <2>2, <2>3, <1>1, <1>4, RunStays
    <2>5. \A k \in 1 .. n : f[k] = Step(k, f[k - 1])
        BY <2>2, <2>4, <1>6, <1>30
    <2>6. f = [k \in 0 .. n |-> f[k]]
        BY <2>1 DEF IsRun
    <2>7. \A k \in 0 .. n : k # 0 => k \in 1 .. n
        BY <1>1
    <2>8. Follows(f)
        BY <2>2, <2>5, <2>6, <2>7
    <2>9. QED BY <2>8
<1>8. Follows(grown)
    <2> HIDE DEF Follows
    <2>1. QED BY <1>7
<1> HIDE DEF grown
<1>9. grown[0] = t /\ \A k \in 1 .. n : grown[k] = Step(k, grown[k - 1])
    BY <1>8, <1>30
<1>10. \A k \in 1 .. n : grown[k - 1] \in X[k - 1] => grown[k] \in X[k]
    BY <1>9, <1>5
<1>11. \A k \in 0 .. n : grown[k] \in X[k]
    BY <1>1, <1>4, <1>9, <1>10, RunStays
<1>12. grown[n] \in GrownBy(t, pairs, n)
    BY <1>3, <1>11, <1>30
<1>13. IsTree(grown[n]) /\ DOMAIN grown[n] = DOMAIN t \cup Added(pairs, n)
    BY <1>12, GrownByIs
<1>14. QED BY <1>2, <1>13 DEF n

-----------------------------------------------------------------------------
(* A level is added, and the leaves that got no child go.                  *)

\* A node on the way to a leaf takes all before it along.
LEMMA WayDown ==
    ASSUME NEW W, W \subseteq Seq(Nat), NEW x \in OnWay(W), NEW d \in 0 .. Len(x)
    PROVE  get_node_by_depth(x, d) \in OnWay(W)
<1>1. PICK m \in W : \E e \in 0 .. Len(m) : x = get_node_by_depth(m, e)
    BY OnWayIs
<1>2. PICK e \in 0 .. Len(m) : x = get_node_by_depth(m, e)
    BY <1>1
<1>3. m \in Seq(Nat) /\ Len(m) \in Nat
    OBVIOUS
<1>4. Len(x) = e /\ d \in 0 .. e
    BY <1>2, <1>3, DepthFacts
<1>5. get_node_by_depth(x, d) = get_node_by_depth(m, d) /\ d \in 0 .. Len(m)
    BY <1>2, <1>3, <1>4, DepthFacts
<1>6. QED BY <1>5, OnWayIs

\* More leaves, more ways.
LEMMA OnWayOfMore ==
    ASSUME NEW W, W \subseteq Seq(Nat), NEW x \in OnWay(W)
    PROVE  OnWay(W \cup {x}) = OnWay(W)
<1>1. \A y : y \in OnWay(W) => y \in OnWay(W \cup {x})
    BY OnWayIs
<1>2. ASSUME NEW y \in OnWay(W \cup {x}) PROVE y \in OnWay(W)
    <2>1. PICK m \in W \cup {x} : \E d \in 0 .. Len(m) : y = get_node_by_depth(m, d)
        BY <1>2, OnWayIs
    <2>2. PICK d \in 0 .. Len(m) : y = get_node_by_depth(m, d)
        BY <2>1
    <2>3. CASE m \in W
        BY <2>2, <2>3, OnWayIs
    <2>4. CASE m = x
        BY <2>2, <2>4, WayDown
    <2>5. QED BY <2>3, <2>4
<1>3. QED BY <1>1, <1>2

\* Leaves of one depth, each once, and the pairs that extend them.
CanExtend(leaves, pairs, n) ==
    /\ n \in Nat
    /\ leaves \in Seq(Seq(Nat))
    /\ \A j \in 1 .. Len(leaves) : Len(leaves[j]) = n
    /\ \A j, k \in 1 .. Len(leaves) : leaves[j] = leaves[k] => j = k
    /\ Len(pairs) \in Nat /\ DOMAIN pairs = 1 .. Len(pairs)
    /\ \A i \in 1 .. Len(pairs) : /\ pairs[i][1] \in Nat
                                  /\ \E j \in 1 .. Len(leaves) : pairs[i][2] = leaves[j]
    /\ \A i, k \in 1 .. Len(pairs) :
            Append(pairs[i][2], pairs[i][1]) = Append(pairs[k][2], pairs[k][1]) => i = k

\* The leaves when the first k old ones have been looked at.
LeftOf(leaves, pairs, k) == Added(pairs, Len(pairs)) \cup {leaves[j] : j \in k + 1 .. Len(leaves)}

PrunedTo(leaves, pairs, k) == TreesOn(OnWay(LeftOf(leaves, pairs, k)))

\* To be one that is pruned so far.
LEMMA PrunedToIs ==
    ASSUME NEW leaves, NEW pairs, NEW k, NEW u
    PROVE  u \in PrunedTo(leaves, pairs, k) <=> IsTree(u) /\ DOMAIN u = OnWay(LeftOf(leaves, pairs, k))
BY TreesOnIs DEF PrunedTo

PruneOne(u, leaf) == IF u[leaf].son = Null THEN remove_node(u, leaf) ELSE u

\* The nodes added are one deeper than the leaves, and each has its leaf.
LEMMA AddedAre ==
    ASSUME NEW leaves, NEW pairs, NEW n, CanExtend(leaves, pairs, n)
    PROVE  \A x \in Added(pairs, Len(pairs)) :
             /\ x \in Seq(Nat) /\ Len(x) = n + 1
             /\ \E j \in 1 .. Len(leaves) : Front(x) = leaves[j]
<1> SUFFICES ASSUME NEW i \in 1 .. Len(pairs)
             PROVE  /\ Append(pairs[i][2], pairs[i][1]) \in Seq(Nat)
                    /\ Len(Append(pairs[i][2], pairs[i][1])) = n + 1
                    /\ \E j \in 1 .. Len(leaves) : Front(Append(pairs[i][2], pairs[i][1])) = leaves[j]
    BY DEF Added
<1>1. pairs[i][1] \in Nat
    BY DEF CanExtend
<1>2. PICK j \in 1 .. Len(leaves) : pairs[i][2] = leaves[j]
    BY DEF CanExtend
<1>3. leaves[j] \in Seq(Nat) /\ Len(leaves[j]) = n
    BY DEF CanExtend
<1>4. QED BY <1>1, <1>2, <1>3, NodeFacts

\* One old leaf is looked at.
LEMMA PruneOneLeaf ==
    ASSUME NEW leaves, NEW pairs, NEW n, CanExtend(leaves, pairs, n), NEW k \in 1 .. Len(leaves),
           NEW u \in PrunedTo(leaves, pairs, k - 1)
    PROVE  PruneOne(u, leaves[k]) \in PrunedTo(leaves, pairs, k)
<1> DEFINE leaf == leaves[k]
           New == Added(pairs, Len(pairs))
           W == LeftOf(leaves, pairs, k)
<1>0. /\ n \in Nat /\ leaves \in Seq(Seq(Nat)) /\ Len(leaves) \in Nat
      /\ \A j \in 1 .. Len(leaves) : leaves[j] \in Seq(Nat) /\ Len(leaves[j]) = n
    BY DEF CanExtend
<1>1. \A x \in New : x \in Seq(Nat) /\ Len(x) = n + 1
    BY AddedAre
<1>2. leaf \in Seq(Nat) /\ Len(leaf) = n
    BY <1>0
<1>3. \A j \in k + 1 .. Len(leaves) : j \in 1 .. Len(leaves) /\ j # k
    BY <1>0
<1>4. \A x \in W : x \in New \/ \E j \in k + 1 .. Len(leaves) : x = leaves[j]
    BY DEF LeftOf
<1>5. W \subseteq Seq(Nat) /\ \A x \in W : x # leaf /\ (x \notin New => Len(x) = n)
    <2>1. ASSUME NEW j \in k + 1 .. Len(leaves)
          PROVE  leaves[j] \in Seq(Nat) /\ Len(leaves[j]) = n /\ leaves[j] # leaf
        BY <1>0, <1>3 DEF CanExtend
    <2> HIDE DEF leaf, New, W
    <2>2. \A x \in New : x # leaf
        BY <1>0, <1>1, <1>2
    <2>3. QED BY <1>1, <1>4, <2>1, <2>2
<1>6. LeftOf(leaves, pairs, k - 1) = W \cup {leaf}
    <2>1. (k - 1) + 1 .. Len(leaves) = (k + 1 .. Len(leaves)) \cup {k}
        BY <1>0
    <2>2. QED BY <2>1 DEF LeftOf
<1>7. IsTree(u) /\ DOMAIN u = OnWay(LeftOf(leaves, pairs, k - 1))
    BY PrunedToIs
<1>8. DOMAIN u = OnWay(W \cup {leaf})
    BY <1>6, <1>7
<1> HIDE DEF leaf, New, W
<1>9. CASE u[leaf].son = Null
    <2>1. ASSUME NEW m \in W, NEW d \in 0 .. Len(leaf) PROVE get_node_by_depth(leaf, d) # m
        <3>1. Len(get_node_by_depth(leaf, d)) = d /\ get_node_by_depth(leaf, Len(leaf)) = leaf
            BY <1>2, DepthFacts
        <3>2. m # leaf /\ (Len(m) = n \/ Len(m) = n + 1)
            BY <1>1, <1>5
        <3>3. QED BY <1>0, <1>2, <3>1, <3>2
    <2>2. IsTree(remove_node(u, leaf)) /\ DOMAIN remove_node(u, leaf) = OnWay(W)
        BY <1>2, <1>5, <1>7, <1>8, <2>1, RemoveNodeIsTree
    <2>3. PruneOne(u, leaf) = remove_node(u, leaf)
        BY <1>9 DEF PruneOne
    <2>4. remove_node(u, leaf) \in PrunedTo(leaves, pairs, k)
        BY <2>2, PrunedToIs DEF W
    <2>5. QED BY <2>3, <2>4 DEF leaf
<1>10. CASE u[leaf].son # Null
    <2>0. leaf \in DOMAIN u
        <3>1. n \in 0 .. n /\ get_node_by_depth(leaf, n) = leaf /\ leaf \in W \cup {leaf}
            BY <1>0, <1>2, DepthFacts
        <3>2. leaf \in OnWay(W \cup {leaf})
            BY <3>1, <1>2, OnWayIs
        <3>3. QED BY <3>2, <1>8
    <2>1. IsForest(u) /\ HasRing(u, leaf)
        BY <2>0, <1>7 DEF IsTree
    <2>2. PICK c : c \in Children(u, leaf)
        BY <1>10, <2>1, SonIsNull
    <2>3. c \in DOMAIN u /\ c \in Seq(Nat) /\ c # <<>> /\ Front(c) = leaf
        BY <2>1, <2>2 DEF Children, IsForest
    <2>40. Len(Front(c)) = Len(c) - 1 /\ Len(c) \in Nat
        BY <2>3, NodeFacts
    <2>4. Len(c) = n + 1
        BY <1>0, <1>2, <2>3, <2>40
    <2>5. c \in OnWay(W \cup {leaf})
        BY <2>3, <1>8
    <2>6. PICK m \in W \cup {leaf} : \E d \in 0 .. Len(m) : c = get_node_by_depth(m, d)
        BY <2>5, OnWayIs
    <2>7. PICK d \in 0 .. Len(m) : c = get_node_by_depth(m, d)
        BY <2>6
    <2>8. m \in Seq(Nat) /\ Len(m) \in Nat
        BY <1>2, <1>5
    <2>9. d = n + 1 /\ d > 0
        BY <2>4, <2>7, <2>8, <1>0, DepthFacts
    <2>10. m \in W
        BY <2>8, <2>9, <1>0, <1>2
    <2>110. Front(get_node_by_depth(m, d)) = get_node_by_depth(m, d - 1)
        BY <2>8, <2>9, DepthFacts
    <2>111. d - 1 \in 0 .. Len(m)
        BY <2>9, <1>0
    <2>11. leaf = get_node_by_depth(m, d - 1) /\ d - 1 \in 0 .. Len(m)
        BY <2>3, <2>7, <2>110, <2>111
    <2>12. leaf \in OnWay(W)
        BY <2>10, <2>11, OnWayIs
    <2>13. OnWay(W \cup {leaf}) = OnWay(W)
        BY <2>12, <1>5, OnWayOfMore
    <2>14. PruneOne(u, leaf) = u
        BY <1>10 DEF PruneOne
    <2>15. DOMAIN u = OnWay(W)
        BY <2>13, <1>8
    <2>16. u \in PrunedTo(leaves, pairs, k)
        BY <2>15, <1>7, PrunedToIs DEF W
    <2>17. QED BY <2>14, <2>16 DEF leaf
<1>11. QED BY <1>9, <1>10

\* A level is added to a tree of leaves and the leaves without a child go: what is
\* left is a tree of the new leaves.
LEMMA ExtensionIsTree ==
    ASSUME NEW leaves, NEW pairs, NEW n, CanExtend(leaves, pairs, n),
           NEW t, IsTree(t), DOMAIN t = OnWay({leaves[j] : j \in 1 .. Len(leaves)})
    PROVE  /\ IsTree(update_tree_after_extension(t, leaves, pairs))
           /\ DOMAIN update_tree_after_extension(t, leaves, pairs) = OnWay(Added(pairs, Len(pairs)))
<1> DEFINE m == Len(leaves)
           New == Added(pairs, Len(pairs))
           Old == {leaves[j] : j \in 1 .. m}
           X == [k \in 0 .. m |-> PrunedTo(leaves, pairs, k)]
           step == [k \in 1 .. m |-> [u \in X[k - 1] |-> PruneOne(u, leaves[k])]]
           base == add_tree_level(t, pairs)
           IsThis(f) == f = [k \in 0 .. m |->
                               IF k = 0 THEN add_tree_level(t, pairs)
                               ELSE IF f[k - 1][leaves[k]].son = Null
                                    THEN remove_node(f[k - 1], leaves[k]) ELSE f[k - 1]]
           Follows(f) == f = [k \in 0 .. m |-> IF k = 0 THEN base ELSE PruneOne(f[k - 1], leaves[k])]
           pruned == CHOOSE f : IsThis(f)
<1>0. /\ n \in Nat /\ m \in Nat /\ Len(pairs) \in Nat
      /\ \A j \in 1 .. m : leaves[j] \in Seq(Nat) /\ Len(leaves[j]) = n
    BY DEF CanExtend
<1>1. update_tree_after_extension(t, leaves, pairs) = pruned[m]
    BY DEF update_tree_after_extension
<1>2. \A f : IsThis(f) <=> Follows(f)
    BY DEF PruneOne
<1>3. \A k \in 0 .. m : X[k] = PrunedTo(leaves, pairs, k)
    OBVIOUS
<1>30. 0 \in 0 .. m /\ m \in 0 .. m /\ \A k \in 1 .. m : k \in 0 .. m /\ k - 1 \in 0 .. m /\ k # 0
    BY <1>0
<1>31. Old \subseteq Seq(Nat) /\ \A x \in Old : Len(x) = n
    BY <1>0
<1>4. CanGrow(t, pairs)
    <2>1. ASSUME NEW i \in 1 .. Len(pairs)
          PROVE  /\ pairs[i][1] \in Nat /\ pairs[i][2] \in DOMAIN t
                 /\ Append(pairs[i][2], pairs[i][1]) \notin DOMAIN t
        <3>1. PICK j \in 1 .. m : pairs[i][2] = leaves[j]
            BY DEF CanExtend
        <3>2. pairs[i][1] \in Nat /\ leaves[j] \in Seq(Nat) /\ leaves[j] \in Old /\ Len(leaves[j]) = n
            BY <1>0 DEF CanExtend
        <3>3. Len(Append(leaves[j], pairs[i][1])) = n + 1
            BY <3>2, NodeFacts
        <3> HIDE DEF Old, m
        <3>4. leaves[j] \in OnWay(Old)
            <4>1. n \in 0 .. n /\ get_node_by_depth(leaves[j], n) = leaves[j]
                BY <3>2, <1>0, DepthFacts
            <4>2. QED BY <4>1, <3>2, OnWayIs
        <3>5. \A x \in OnWay(Old) : Len(x) \in 0 .. n
            <4> SUFFICES ASSUME NEW x \in OnWay(Old) PROVE Len(x) \in 0 .. n
                OBVIOUS
            <4>1. PICK y \in Old : \E d \in 0 .. Len(y) : x = get_node_by_depth(y, d)
                BY OnWayIs
            <4>2. PICK d \in 0 .. Len(y) : x = get_node_by_depth(y, d)
                BY <4>1
            <4>3. y \in Seq(Nat) /\ Len(y) = n
                BY <1>31
            <4>4. Len(x) = d /\ d \in 0 .. n
                BY <4>2, <4>3, DepthFacts
            <4>5. QED BY <4>4
        <3>60. n + 1 \notin 0 .. n
            BY <1>0
        <3>6. Append(leaves[j], pairs[i][1]) \notin OnWay(Old)
            BY <3>3, <3>5, <3>60
        <3>7. DOMAIN t = OnWay(Old)
            BY DEF Old, m
        <3>8. QED BY <3>1, <3>2, <3>4, <3>6, <3>7
    <2>2. QED BY <2>1 DEF CanGrow, CanExtend
<1>5. base \in X[0]
    <2> HIDE DEF Old, m, New
    <2>1. DOMAIN t = OnWay(Old)
        BY DEF Old, m
    <2>2. IsTree(base) /\ DOMAIN base = OnWay(Old) \cup New
        <3>1. IsTree(add_tree_level(t, pairs)) /\ DOMAIN add_tree_level(t, pairs) = DOMAIN t \cup Added(pairs, Len(pairs))
            BY <1>4, AddLevelIsTree
        <3>2. QED BY <2>1, <3>1 DEF New
    <2>3. \A x \in New : x \in Seq(Nat) /\ Len(x) = n + 1 /\ Front(x) \in Old
        <3>1. \A x \in New : x \in Seq(Nat) /\ Len(x) = n + 1 /\ \E j \in 1 .. Len(leaves) : Front(x) = leaves[j]
            BY AddedAre DEF New
        <3>2. QED BY <3>1 DEF Old, m
    <2>4. LeftOf(leaves, pairs, 0) = New \cup Old
        BY DEF LeftOf, New, Old, m
    <2>5. OnWay(New \cup Old) \subseteq OnWay(Old) \cup New
        <3> SUFFICES ASSUME NEW x \in OnWay(New \cup Old) PROVE x \in OnWay(Old) \cup New
            OBVIOUS
        <3>1. PICK y \in New \cup Old : \E d \in 0 .. Len(y) : x = get_node_by_depth(y, d)
            BY OnWayIs
        <3>2. PICK d \in 0 .. Len(y) : x = get_node_by_depth(y, d)
            BY <3>1
        <3>3. CASE y \in Old
            BY <3>2, <3>3, OnWayIs
        <3>4. CASE y \in New
            <4>1. y \in Seq(Nat) /\ Len(y) = n + 1 /\ Front(y) \in Old /\ Len(Front(y)) = n
                BY <2>3, <3>4, <1>31
            <4>2. CASE d = n + 1
                <5>1. x = y
                    BY <3>2, <4>1, <4>2, DepthFacts
                <5>2. QED BY <3>4, <5>1
            <4>3. CASE d # n + 1
                <5>1. n + 1 \in 0 .. Len(y) /\ n + 1 > 0 /\ n \in 0 .. Len(y) /\ (n + 1) - 1 = n
                    BY <4>1, <1>0
                <5>2. get_node_by_depth(y, n + 1) = y
                    BY <4>1, <5>1, DepthFacts
                <5>3. Front(get_node_by_depth(y, n + 1)) = get_node_by_depth(y, (n + 1) - 1)
                    BY <4>1, <5>1, DepthFacts
                <5>4. Front(y) = get_node_by_depth(y, n)
                    BY <5>1, <5>2, <5>3
                <5>5. d \in 0 .. n
                    BY <4>1, <4>3, <1>0
                <5>6. x = get_node_by_depth(Front(y), d)
                    BY <3>2, <4>1, <5>1, <5>4, <5>5, DepthFacts
                <5>7. x \in OnWay(Old)
                    BY <4>1, <5>5, <5>6, OnWayIs
                <5>8. QED BY <5>7
            <4>4. QED BY <4>2, <4>3
        <3>5. QED BY <3>3, <3>4
    <2>6. OnWay(Old) \cup New \subseteq OnWay(New \cup Old)
        <3>1. \A x \in OnWay(Old) : x \in OnWay(New \cup Old)
            BY OnWayIs
        <3>2. ASSUME NEW x \in New PROVE x \in OnWay(New \cup Old)
            <4>1. n + 1 \in 0 .. Len(x) /\ get_node_by_depth(x, n + 1) = x /\ x \in New \cup Old
                BY <2>3, <3>2, <1>0, DepthFacts
            <4>2. QED BY <4>1, OnWayIs
        <3>3. QED BY <3>1, <3>2
    <2>7. DOMAIN base = OnWay(LeftOf(leaves, pairs, 0))
        BY <2>2, <2>4, <2>5, <2>6
    <2> HIDE DEF base
    <2>8. base \in PrunedTo(leaves, pairs, 0)
        BY <2>2, <2>7, PrunedToIs
    <2>9. QED BY <2>8, <1>3, <1>30
<1>6. ASSUME NEW k \in 1 .. m, NEW u \in X[k - 1] PROVE PruneOne(u, leaves[k]) \in X[k]
    <2>1. u \in PrunedTo(leaves, pairs, k - 1)
        BY <1>3, <1>30, <1>6
    <2>2. k \in 1 .. Len(leaves)
        OBVIOUS
    <2>3. PruneOne(u, leaves[k]) \in PrunedTo(leaves, pairs, k)
        BY <2>1, <2>2, PruneOneLeaf
    <2>4. QED BY <2>3, <1>3, <1>30
<1> HIDE DEF X, base
<1>7. \A k \in 1 .. m : \A u \in X[k - 1] : step[k][u] = PruneOne(u, leaves[k])
    OBVIOUS
<1> HIDE DEF step, m, IsThis
<1>8. \E f : Follows(f)
    <2>1. PICK f : IsRun(f, base, step, m)
        BY <1>0, RunExists
    <2>2. f[0] = base /\ \A k \in 1 .. m : f[k] = step[k][f[k - 1]]
        BY <2>1, <1>30 DEF IsRun
    <2>3. \A k \in 1 .. m : f[k - 1] \in X[k - 1] => f[k] \in X[k]
        BY <2>2, <1>6, <1>7
    <2>4. \A k \in 0 .. m : f[k] \in X[k]
        BY <2>2, <2>3, <1>0, <1>5, RunStays
    <2>5. \A k \in 1 .. m : f[k] = PruneOne(f[k - 1], leaves[k])
        BY <2>2, <2>4, <1>7, <1>30
    <2>6. f = [k \in 0 .. m |-> f[k]]
        BY <2>1 DEF IsRun
    <2>7. \A k \in 0 .. m : k # 0 => k \in 1 .. m
        BY <1>0
    <2>8. Follows(f)
        BY <2>2, <2>5, <2>6, <2>7
    <2>9. QED BY <2>8
<1>9. Follows(pruned)
    <2> HIDE DEF Follows
    <2>1. QED BY <1>2, <1>8
<1> HIDE DEF pruned
<1>10. pruned[0] = base /\ \A k \in 1 .. m : pruned[k] = PruneOne(pruned[k - 1], leaves[k])
    BY <1>9, <1>30
<1>11. \A k \in 1 .. m : pruned[k - 1] \in X[k - 1] => pruned[k] \in X[k]
    BY <1>10, <1>6
<1>12. \A k \in 0 .. m : pruned[k] \in X[k]
    BY <1>0, <1>5, <1>10, <1>11, RunStays
<1>13. pruned[m] \in PrunedTo(leaves, pairs, m)
    BY <1>3, <1>12, <1>30
<1>14. IsTree(pruned[m]) /\ DOMAIN pruned[m] = OnWay(LeftOf(leaves, pairs, m))
    BY <1>13, PrunedToIs
<1>15. LeftOf(leaves, pairs, m) = New
    <2>1. m + 1 .. Len(leaves) = {}
        BY <1>0 DEF m
    <2>2. QED BY <2>1 DEF LeftOf
<1>16. QED BY <1>1, <1>14, <1>15

-----------------------------------------------------------------------------
(* A tree is linked the way TreesAreLinked says.                           *)

\* The k-th to the right of the son is the k-th of the ring.
LEMMA ChildIs ==
    ASSUME NEW t, NEW p, NEW n \in Nat, NEW r, IsRing(t, p, r, n), NEW k \in 0 .. n - 1
    PROVE  ChildAt(t, p, k) = r[k + 1]
<1> DEFINE Follows(f) == f = [i \in 0 .. k |-> IF i = 0 THEN t[p].son ELSE t[f[i - 1]].right]
           at == CHOOSE f : Follows(f)
           g == [i \in 0 .. k |-> r[i + 1]]
<1>1. ChildAt(t, p, k) = at[k]
    BY DEF ChildAt
<1>2. /\ n # 0 /\ t[p].son = r[1]
      /\ \A i \in 1 .. k : t[r[i]].right = r[i + 1]
    <2>1. n # 0
        OBVIOUS
    <2>2. ASSUME NEW i \in 1 .. k PROVE t[r[i]].right = r[i + 1]
        <3>1. n # 1 /\ i \in 1 .. n /\ i # n
            OBVIOUS
        <3>2. After(i, n) = i + 1
            BY <3>1 DEF After
        <3>3. QED BY <3>1, <3>2 DEF IsRing
    <2>3. QED BY <2>1, <2>2 DEF IsRing
<1>3. Follows(g)
    <2>1. \A i \in 0 .. k : g[i] = r[i + 1]
        OBVIOUS
    <2>2. \A i \in 0 .. k : i # 0 => i \in 1 .. k /\ i - 1 \in 0 .. k /\ (i - 1) + 1 = i
        OBVIOUS
    <2>3. g = [i \in 0 .. k |-> g[i]]
        OBVIOUS
    <2> HIDE DEF g
    <2>4. \A i \in 0 .. k : g[i] = IF i = 0 THEN t[p].son ELSE t[g[i - 1]].right
        <3> SUFFICES ASSUME NEW i \in 0 .. k PROVE g[i] = IF i = 0 THEN t[p].son ELSE t[g[i - 1]].right
            OBVIOUS
        <3>1. CASE i = 0
            BY <3>1, <2>1, <1>2
        <3>2. CASE i # 0
            <4>1. g[i - 1] = r[i] /\ g[i] = r[i + 1] /\ t[r[i]].right = r[i + 1]
                BY <3>2, <2>1, <2>2, <1>2
            <4>2. QED BY <3>2, <4>1
        <3>3. QED BY <3>1, <3>2
    <2>5. QED BY <2>3, <2>4
<1>4. Follows(at)
    <2> HIDE DEF Follows
    <2>1. QED BY <1>3
<1> HIDE DEF at
<1>5. at[0] = t[p].son /\ \A i \in 1 .. k : at[i] = t[at[i - 1]].right
    <2>1. 0 \in 0 .. k /\ \A i \in 1 .. k : i \in 0 .. k /\ i # 0
        OBVIOUS
    <2>2. QED BY <2>1, <1>4
<1> DEFINE X == [i \in 0 .. k |-> {r[i + 1]}]
<1>6. at[0] \in X[0]
    BY <1>2, <1>5
<1>7. \A i \in 1 .. k : at[i - 1] \in X[i - 1] => at[i] \in X[i]
    <2> SUFFICES ASSUME NEW i \in 1 .. k, at[i - 1] \in X[i - 1] PROVE at[i] \in X[i]
        OBVIOUS
    <2>1. i - 1 \in 0 .. k /\ (i - 1) + 1 = i
        OBVIOUS
    <2>2. at[i - 1] = r[i]
        BY <2>1
    <2>3. at[i] = r[i + 1]
        BY <2>2, <1>2, <1>5
    <2>4. QED BY <2>3
<1>8. k \in Nat
    OBVIOUS
<1> HIDE DEF X
<1>9. at[k] \in X[k]
    <2>1. \A i \in 0 .. k : at[i] \in X[i]
        BY <1>6, <1>7, <1>8, RunStays
    <2>2. QED BY <2>1, <1>8
<1>10. QED BY <1>1, <1>9 DEF X

\* Rings are closed in a tree.
LEMMA TreeIsClosed ==
    ASSUME NEW t, IsTree(t)
    PROVE  RingsAreClosed(t)
<1> SUFFICES ASSUME NEW p \in DOMAIN t
             PROVE  LET kids == Children(t, p)
                        n    == Cardinality(kids) IN
                    /\ n = 0 <=> t[p].son = Null
                    /\ n = 1 => kids = {t[p].son} /\ t[t[p].son].left = Null /\ t[t[p].son].right = Null
                    /\ n > 1 => /\ \A c \in kids : /\ t[c].right \in kids /\ t[t[c].right].left = c
                                                   /\ t[c].left \in kids /\ t[t[c].left].right = c
                                /\ t[p].son \in kids
                                /\ {ChildAt(t, p, k) : k \in 0 .. n - 1} = kids
    BY DEF RingsAreClosed
<1> DEFINE kids == Children(t, p)
<1>1. IsForest(t) /\ HasRing(t, p)
    BY DEF IsTree
<1>2. PICK n \in Nat : \E q : IsRing(t, p, q, n)
    BY <1>1 DEF HasRing
<1>3. PICK r : IsRing(t, p, r, n)
    BY <1>2
<1>4. /\ r \in [1 .. n -> kids]
      /\ \A c \in kids : \E i \in 1 .. n : r[i] = c
      /\ \A i, k \in 1 .. n : r[i] = r[k] => i = k
    BY <1>3 DEF IsRing
<1>5. n = Cardinality(kids)
    <2>1. r \in Bijection(1 .. n, kids)
        <3> HIDE DEF kids
        <3>1. r \in Injection(1 .. n, kids)
            BY <1>4 DEF Injection, IsInjective
        <3>2. r \in Surjection(1 .. n, kids)
            BY <1>4 DEF Surjection
        <3>3. QED BY <3>1, <3>2 DEF Bijection
    <2>2. IsFiniteSet(1 .. n) /\ Cardinality(1 .. n) = n
        BY FS_Interval
    <2> DEFINE I == 1 .. n
    <2>3. IsFiniteSet(I) /\ Cardinality(I) = n /\ r \in Bijection(I, kids)
        BY <2>1, <2>2
    <2> HIDE DEF kids, I
    <2>4. ExistsBijection(I, kids)
        BY <2>3 DEF ExistsBijection
    <2>5. QED BY <2>3, <2>4, FS_Bijection
<1>6. n = 0 <=> t[p].son = Null
    <2>1. n = 0 <=> kids = {}
        <3>1. n # 0 => 1 \in 1 .. n
            OBVIOUS
        <3>2. n # 0 => r[1] \in kids
            BY <3>1, <1>4
        <3>3. n = 0 => kids = {}
            BY <1>4
        <3>4. QED BY <3>2, <3>3
    <2>2. QED BY <2>1, <1>1, SonIsNull
<1>7. n = 1 => kids = {t[p].son} /\ t[t[p].son].left = Null /\ t[t[p].son].right = Null
    <2> SUFFICES ASSUME n = 1 PROVE kids = {t[p].son} /\ t[t[p].son].left = Null /\ t[t[p].son].right = Null
        OBVIOUS
    <2>1. t[p].son = r[1] /\ t[r[1]].left = Null /\ t[r[1]].right = Null
        BY <1>3 DEF IsRing
    <2>2. \A i \in 1 .. n : i = 1
        OBVIOUS
    <2>3. kids = {r[1]}
        <3>1. 1 \in 1 .. n
            OBVIOUS
        <3> HIDE DEF kids
        <3>2. QED BY <2>2, <3>1, <1>4
    <2>4. QED BY <2>1, <2>3
<1>8. ASSUME n > 1
      PROVE  /\ \A c \in kids : /\ t[c].right \in kids /\ t[t[c].right].left = c
                                /\ t[c].left \in kids /\ t[t[c].left].right = c
             /\ t[p].son \in kids
             /\ {ChildAt(t, p, k) : k \in 0 .. n - 1} = kids
    <2>1. t[p].son = r[1] /\ \A i \in 1 .. n : t[r[i]].right = r[After(i, n)] /\ t[r[i]].left = r[Before(i, n)]
        BY <1>3, <1>8 DEF IsRing
    <2>2. \A i \in 1 .. n : /\ After(i, n) \in 1 .. n /\ Before(After(i, n), n) = i
                            /\ Before(i, n) \in 1 .. n /\ After(Before(i, n), n) = i
        BY <1>8 DEF After, Before
    <2> HIDE DEF kids
    <2>3. \A i \in 1 .. n : /\ t[r[i]].right \in kids /\ t[t[r[i]].right].left = r[i]
                            /\ t[r[i]].left \in kids /\ t[t[r[i]].left].right = r[i]
        <3> SUFFICES ASSUME NEW i \in 1 .. n
                     PROVE  /\ t[r[i]].right \in kids /\ t[t[r[i]].right].left = r[i]
                            /\ t[r[i]].left \in kids /\ t[t[r[i]].left].right = r[i]
            OBVIOUS
        <3>1. /\ t[r[i]].right = r[After(i, n)] /\ t[r[After(i, n)]].left = r[i]
              /\ t[r[i]].left = r[Before(i, n)] /\ t[r[Before(i, n)]].right = r[i]
            BY <2>1, <2>2
        <3>2. r[After(i, n)] \in kids /\ r[Before(i, n)] \in kids
            BY <2>2, <1>4
        <3>3. QED BY <3>1, <3>2
    <2>4. \A c \in kids : /\ t[c].right \in kids /\ t[t[c].right].left = c
                          /\ t[c].left \in kids /\ t[t[c].left].right = c
        BY <2>3, <1>4
    <2>5. 1 \in 1 .. n /\ r[1] \in kids
        BY <1>4, <1>8
    <2>6. \A k \in 0 .. n - 1 : ChildAt(t, p, k) = r[k + 1] /\ k + 1 \in 1 .. n
        BY <1>3, ChildIs
    <2>7. \A i \in 1 .. n : i - 1 \in 0 .. n - 1 /\ (i - 1) + 1 = i
        OBVIOUS
    <2>8. {ChildAt(t, p, k) : k \in 0 .. n - 1} = kids
        <3>1. \A k \in 0 .. n - 1 : ChildAt(t, p, k) \in kids
            BY <2>6, <1>4
        <3>2. \A c \in kids : \E k \in 0 .. n - 1 : ChildAt(t, p, k) = c
            <4> SUFFICES ASSUME NEW c \in kids PROVE \E k \in 0 .. n - 1 : ChildAt(t, p, k) = c
                OBVIOUS
            <4>1. PICK i \in 1 .. n : r[i] = c
                BY <1>4
            <4>2. ChildAt(t, p, i - 1) = c
                BY <4>1, <2>6, <2>7
            <4>3. QED BY <4>2, <2>7
        <3>3. QED BY <3>1, <3>2
    <2>9. QED BY <2>1, <2>4, <2>5, <2>8
<1>9. QED BY <1>5, <1>6, <1>7, <1>8


-----------------------------------------------------------------------------
(* Leaves that lack an edge are removed.                                   *)

\* Leaves of one depth, each once.
AreLeaves(leaves, n) ==
    /\ n \in Nat
    /\ leaves \in Seq(Seq(Nat))
    /\ \A j \in 1 .. Len(leaves) : Len(leaves[j]) = n
    /\ \A j, k \in 1 .. Len(leaves) : leaves[j] = leaves[k] => j = k

\* The positions that are left when the first k leaves have been looked at.
Standing(i, pair, k) ==
    {j \in 1 .. Len(leaf_matches[i]) : j > k \/ supports(i, leaf_matches[i][j], pair)}

LeavesAt(i, S) == {leaf_matches[i][j] : j \in S}

FilteredTo(i, pair, k) == TreesOn(OnWay(LeavesAt(i, Standing(i, pair, k))))

\* To be one that is filtered so far.
LEMMA FilteredToIs ==
    ASSUME NEW i, NEW pair, NEW k, NEW u
    PROVE  u \in FilteredTo(i, pair, k) <=>
               IsTree(u) /\ DOMAIN u = OnWay(LeavesAt(i, Standing(i, pair, k)))
BY TreesOnIs DEF FilteredTo

FilterOne(i, pair, u, leaf) == IF supports(i, leaf, pair) THEN u ELSE remove_node(u, leaf)

\* The next leaf is looked at, and removed when it lacks the edge.
LEMMA FilterOneLeaf ==
    ASSUME NEW i, NEW pair, NEW n, AreLeaves(leaf_matches[i], n),
           NEW k \in 1 .. Len(leaf_matches[i]), NEW u \in FilteredTo(i, pair, k - 1)
    PROVE  FilterOne(i, pair, u, leaf_matches[i][k]) \in FilteredTo(i, pair, k)
<1> DEFINE leaves == leaf_matches[i]
           leaf == leaves[k]
           W == LeavesAt(i, Standing(i, pair, k))
           V == LeavesAt(i, Standing(i, pair, k - 1))
<1>0. /\ n \in Nat /\ Len(leaves) \in Nat
      /\ \A j \in 1 .. Len(leaves) : leaves[j] \in Seq(Nat) /\ Len(leaves[j]) = n
      /\ \A j \in 1 .. Len(leaves) : leaves[j] = leaf => j = k
    BY DEF AreLeaves
<1>1. IsTree(u) /\ DOMAIN u = OnWay(V)
    BY FilteredToIs
<1>2. CASE supports(i, leaf, pair)
    <2>1. \A j \in 1 .. Len(leaves) : (j > k - 1 \/ supports(i, leaves[j], pair))
                                      <=> (j > k \/ supports(i, leaves[j], pair))
        <3>1. \A j \in 1 .. Len(leaves) : (j > k - 1) <=> (j > k \/ j = k)
            BY <1>0
        <3>2. QED BY <3>1, <1>2
    <2>2. Standing(i, pair, k - 1) = Standing(i, pair, k)
        BY <2>1 DEF Standing
    <2>3. FilterOne(i, pair, u, leaf) = u
        BY <1>2 DEF FilterOne
    <2>4. DOMAIN u = OnWay(LeavesAt(i, Standing(i, pair, k)))
        BY <1>1, <2>2
    <2>5. u \in FilteredTo(i, pair, k)
        BY <1>1, <2>4, FilteredToIs
    <2>6. QED BY <2>3, <2>5
<1>3. CASE ~supports(i, leaf, pair)
    <2>0. \A j \in 1 .. Len(leaves) : (j > k - 1) <=> (j > k \/ j = k)
        BY <1>0
    <2>1. Standing(i, pair, k - 1) = Standing(i, pair, k) \cup {k}
        BY <2>0 DEF Standing
    <2>2. k \notin Standing(i, pair, k) /\ Standing(i, pair, k) \subseteq 1 .. Len(leaves)
        BY <1>3, <1>0 DEF Standing
    <2>3. V = W \cup {leaf}
        BY <2>1 DEF LeavesAt
    <2>4. \A x \in W : \E j \in 1 .. Len(leaves) : x = leaves[j] /\ j # k
        BY <2>2 DEF LeavesAt
    <2>5. \A x \in W : x \in Seq(Nat) /\ Len(x) = n /\ x # leaf
        BY <2>4, <1>0
    <2>6. leaf \in Seq(Nat) /\ Len(leaf) = n
        BY <1>0
    <2> HIDE DEF W, V, leaf, leaves
    <2>7. ASSUME NEW m \in W, NEW d \in 0 .. Len(leaf) PROVE get_node_by_depth(leaf, d) # m
        <3>1. Len(get_node_by_depth(leaf, d)) = d /\ get_node_by_depth(leaf, Len(leaf)) = leaf
            BY <2>6, DepthFacts
        <3>2. m # leaf /\ Len(m) = n
            BY <2>5
        <3>3. QED BY <1>0, <2>6, <3>1, <3>2
    <2>8. W \subseteq Seq(Nat) /\ DOMAIN u = OnWay(W \cup {leaf})
        BY <1>1, <2>3, <2>5
    <2>9. IsTree(remove_node(u, leaf)) /\ DOMAIN remove_node(u, leaf) = OnWay(W)
        BY <1>1, <2>6, <2>7, <2>8, RemoveNodeIsTree
    <2>10. FilterOne(i, pair, u, leaf) = remove_node(u, leaf)
        BY <1>3 DEF FilterOne
    <2>11. remove_node(u, leaf) \in FilteredTo(i, pair, k)
        BY <2>9, FilteredToIs DEF W
    <2>12. QED BY <2>10, <2>11 DEF leaf, leaves
<1>4. QED BY <1>2, <1>3

\* The leaves that lack the edge go: what is left is a tree of those that have it.
LEMMA FilterIsTree ==
    ASSUME NEW i, NEW pair, NEW n, AreLeaves(leaf_matches[i], n),
           IsTree(m_match_trees[i]),
           DOMAIN m_match_trees[i] = OnWay(LeavesAt(i, 1 .. Len(leaf_matches[i])))
    PROVE  /\ IsTree(filter_tree_matches_by_edge(i, pair))
           /\ DOMAIN filter_tree_matches_by_edge(i, pair) =
                  OnWay({leaf \in LeavesAt(i, 1 .. Len(leaf_matches[i])) : supports(i, leaf, pair)})
<1> DEFINE leaves == leaf_matches[i]
           m == Len(leaves)
           X == [k \in 0 .. m |-> FilteredTo(i, pair, k)]
           step == [k \in 1 .. m |-> [u \in X[k - 1] |-> FilterOne(i, pair, u, leaves[k])]]
           base == m_match_trees[i]
           IsThis(f) == f = [k \in 0 .. m |->
                               IF k = 0 THEN m_match_trees[i]
                               ELSE IF supports(i, leaves[k], pair) THEN f[k - 1]
                               ELSE remove_node(f[k - 1], leaves[k])]
           Follows(f) == f = [k \in 0 .. m |->
                               IF k = 0 THEN base ELSE FilterOne(i, pair, f[k - 1], leaves[k])]
           filtered == CHOOSE f : IsThis(f)
<1>0. m \in Nat
    BY DEF AreLeaves
<1>1. filter_tree_matches_by_edge(i, pair) = filtered[m]
    BY DEF filter_tree_matches_by_edge
<1>2. \A f : IsThis(f) <=> Follows(f)
    BY DEF FilterOne
<1>3. \A k \in 0 .. m : X[k] = FilteredTo(i, pair, k)
    OBVIOUS
<1>30. 0 \in 0 .. m /\ m \in 0 .. m /\ \A k \in 1 .. m : k \in 0 .. m /\ k - 1 \in 0 .. m /\ k # 0
    BY <1>0
<1>5. base \in X[0]
    <2>1. \A j \in 1 .. m : j > 0
        BY <1>0
    <2>2. Standing(i, pair, 0) = 1 .. m
        BY <2>1 DEF Standing
    <2>3. DOMAIN base = OnWay(LeavesAt(i, Standing(i, pair, 0)))
        BY <2>2
    <2>4. base \in FilteredTo(i, pair, 0)
        BY <2>3, FilteredToIs
    <2>5. QED BY <2>4, <1>3, <1>30
<1>6. ASSUME NEW k \in 1 .. m, NEW u \in X[k - 1] PROVE FilterOne(i, pair, u, leaves[k]) \in X[k]
    <2>1. u \in FilteredTo(i, pair, k - 1)
        BY <1>3, <1>30, <1>6
    <2>2. FilterOne(i, pair, u, leaf_matches[i][k]) \in FilteredTo(i, pair, k)
        BY <2>1, FilterOneLeaf
    <2>3. QED BY <2>2, <1>3, <1>30
<1> HIDE DEF X, base
<1>7. \A k \in 1 .. m : \A u \in X[k - 1] : step[k][u] = FilterOne(i, pair, u, leaves[k])
    OBVIOUS
<1>70. \A k \in 1 .. m : \A u \in X[k - 1] : step[k][u] \in X[k]
    BY <1>6, <1>7
<1> HIDE DEF step, m, leaves, IsThis
<1>8. \E f : Follows(f)
    <2>1. PICK f : IsRunThrough(f, X, base, step, m)
        BY <1>0, <1>5, <1>70, RunFound
    <2>2. /\ f = [k \in 0 .. m |-> f[k]] /\ f[0] = base
          /\ \A k \in 1 .. m : f[k] = FilterOne(i, pair, f[k - 1], leaves[k])
        BY <2>1, <1>7 DEF IsRunThrough
    <2>3. \A k \in 0 .. m : k # 0 => k \in 1 .. m
        BY <1>0
    <2>4. Follows(f)
        BY <2>2, <2>3
    <2>5. QED BY <2>4
<1>9. Follows(filtered)
    <2> HIDE DEF Follows
    <2>1. QED BY <1>2, <1>8
<1> HIDE DEF filtered
<1>10. filtered[0] = base /\ \A k \in 1 .. m : filtered[k] = FilterOne(i, pair, filtered[k - 1], leaves[k])
    BY <1>9, <1>30
<1>11. \A k \in 1 .. m : filtered[k - 1] \in X[k - 1] => filtered[k] \in X[k]
    BY <1>10, <1>6
<1>110. filtered[0] \in X[0]
    BY <1>5, <1>10
<1>12. \A k \in 0 .. m : filtered[k] \in X[k]
    BY <1>0, <1>11, <1>110, RunStays
<1>13. filtered[m] \in FilteredTo(i, pair, m)
    BY <1>3, <1>12, <1>30
<1>14. IsTree(filtered[m]) /\ DOMAIN filtered[m] = OnWay(LeavesAt(i, Standing(i, pair, m)))
    BY <1>13, FilteredToIs
<1>15. LeavesAt(i, Standing(i, pair, m)) =
           {leaf \in LeavesAt(i, 1 .. Len(leaf_matches[i])) : supports(i, leaf, pair)}
    <2>1. \A j \in 1 .. m : ~(j > m)
        BY <1>0
    <2>2. QED BY <2>1 DEF LeavesAt, Standing, m, leaves
<1>16. QED BY <1>1, <1>14, <1>15
\* s holds the leaves among the first k that have the edge, in their order: h says
\* where each of them was.
IsThinned(s, i, pair, k, h) ==
    /\ s \in Seq(Seq(Nat))
    /\ h \in [1 .. Len(s) -> 1 .. k]
    /\ \A q \in 1 .. Len(s) : /\ s[q] = leaf_matches[i][h[q]]
                              /\ supports(i, leaf_matches[i][h[q]], pair)
    /\ \A p, q \in 1 .. Len(s) : p < q => h[p] < h[q]
    /\ \A j \in 1 .. k : supports(i, leaf_matches[i][j], pair) => \E q \in 1 .. Len(s) : h[q] = j

ThinnedTo(i, pair, k) == {s \in Seq(Seq(Nat)) : \E h : IsThinned(s, i, pair, k, h)}

\* To be one that is thinned so far.
LEMMA ThinnedToIs ==
    ASSUME NEW i, NEW pair, NEW k, NEW s
    PROVE  s \in ThinnedTo(i, pair, k) <=> \E h : IsThinned(s, i, pair, k, h)
BY DEF ThinnedTo, IsThinned

ThinOne(i, pair, s, leaf) == IF supports(i, leaf, pair) THEN Append(s, leaf) ELSE s

\* The next leaf is looked at, and kept when it has the edge.
LEMMA ThinOneLeaf ==
    ASSUME NEW i, NEW pair, leaf_matches[i] \in Seq(Seq(Nat)),
           NEW k \in 1 .. Len(leaf_matches[i]), NEW s \in ThinnedTo(i, pair, k - 1)
    PROVE  ThinOne(i, pair, s, leaf_matches[i][k]) \in ThinnedTo(i, pair, k)
<1> DEFINE leaf == leaf_matches[i][k]
<1>1. PICK h : IsThinned(s, i, pair, k - 1, h)
    BY ThinnedToIs
<1>20. s \in Seq(Seq(Nat)) /\ h \in [1 .. Len(s) -> 1 .. k - 1]
    BY <1>1 DEF IsThinned
<1>21. Len(s) \in Nat /\ leaf \in Seq(Nat) /\ k \in Nat /\ k > 0
    BY <1>20
<1>22. \A j \in 1 .. k - 1 : j \in 1 .. k /\ j < k
    BY <1>21
<1>2. /\ s \in Seq(Seq(Nat)) /\ Len(s) \in Nat /\ leaf \in Seq(Nat) /\ k \in Nat /\ k > 0
      /\ h \in [1 .. Len(s) -> 1 .. k - 1]
      /\ \A q \in 1 .. Len(s) : h[q] \in 1 .. k /\ h[q] < k
    BY <1>20, <1>21, <1>22
<1>3. CASE supports(i, leaf, pair)
    <2> DEFINE n == Len(s)
               t == Append(s, leaf)
               g == [q \in 1 .. n + 1 |-> IF q = n + 1 THEN k ELSE h[q]]
    <2>1. t \in Seq(Seq(Nat)) /\ Len(t) = n + 1 /\ t[n + 1] = leaf /\ \A q \in 1 .. n : t[q] = s[q]
        BY <1>2
    <2>20. n \in Nat
        BY <1>2
    <2>2. /\ n \in Nat /\ n + 1 \in 1 .. n + 1
          /\ \A q \in 1 .. n : q \in 1 .. n + 1 /\ q # n + 1
          /\ \A q \in 1 .. n + 1 : q = n + 1 \/ q \in 1 .. n
        <3> HIDE DEF n
        <3>1. QED BY <2>20
    <2>3. g[n + 1] = k /\ \A q \in 1 .. n : g[q] = h[q]
        BY <2>2
    <2>4. g \in [1 .. n + 1 -> 1 .. k]
        <3>1. k \in 1 .. k
            BY <1>2
        <3>2. QED BY <1>2, <2>2, <3>1
    <2> HIDE DEF g, t, n
    <2>5. \A q \in 1 .. n + 1 : t[q] = leaf_matches[i][g[q]] /\ supports(i, leaf_matches[i][g[q]], pair)
        <3>1. \A q \in 1 .. n : t[q] = leaf_matches[i][g[q]] /\ supports(i, leaf_matches[i][g[q]], pair)
            BY <1>1, <2>1, <2>3 DEF IsThinned, n
        <3>2. t[n + 1] = leaf_matches[i][g[n + 1]] /\ supports(i, leaf_matches[i][g[n + 1]], pair)
            BY <1>3, <2>1, <2>3
        <3>3. QED BY <3>1, <3>2, <2>2
    <2>6. \A p, q \in 1 .. n + 1 : p < q => g[p] < g[q]
        <3>1. \A p, q \in 1 .. n : p < q => g[p] < g[q]
            BY <1>1, <2>3 DEF IsThinned, n
        <3>2. \A p \in 1 .. n : g[p] < k
            BY <1>2, <2>3 DEF n
        <3>3. \A p \in 1 .. n + 1 : ~(n + 1 < p)
            BY <2>2
        <3>4. SUFFICES ASSUME NEW p \in 1 .. n + 1, NEW q \in 1 .. n + 1, p < q PROVE g[p] < g[q]
            OBVIOUS
        <3>5. p \in 1 .. n
            BY <2>2, <3>3, <3>4
        <3>6. CASE q \in 1 .. n
            BY <3>1, <3>4, <3>5, <3>6
        <3>7. CASE q = n + 1
            BY <2>3, <3>2, <3>5, <3>7
        <3>8. QED BY <2>2, <3>6, <3>7
    <2>7. \A j \in 1 .. k : supports(i, leaf_matches[i][j], pair) => \E q \in 1 .. n + 1 : g[q] = j
        <3>1. \A j \in 1 .. k : j = k \/ j \in 1 .. k - 1
            BY <1>2
        <3>2. \A j \in 1 .. k - 1 : supports(i, leaf_matches[i][j], pair) => \E q \in 1 .. n : h[q] = j
            BY <1>1 DEF IsThinned, n
        <3>3. QED BY <2>2, <2>3, <3>1, <3>2
    <2>8. IsThinned(t, i, pair, k, g)
        BY <2>1, <2>4, <2>5, <2>6, <2>7 DEF IsThinned
    <2>9. ThinOne(i, pair, s, leaf) = t
        BY <1>3 DEF ThinOne, t
    <2>10. t \in ThinnedTo(i, pair, k)
        BY <2>8, ThinnedToIs
    <2>11. QED BY <2>9, <2>10
<1>4. CASE ~supports(i, leaf, pair)
    <2>1. \A j \in 1 .. k : j = k \/ j \in 1 .. k - 1
        BY <1>2
    <2>2. h \in [1 .. Len(s) -> 1 .. k]
        BY <1>2
    <2>3. IsThinned(s, i, pair, k, h)
        BY <1>1, <1>4, <2>1, <2>2 DEF IsThinned
    <2>4. ThinOne(i, pair, s, leaf) = s
        BY <1>4 DEF ThinOne
    <2>5. s \in ThinnedTo(i, pair, k)
        BY <2>3, ThinnedToIs
    <2>6. QED BY <2>4, <2>5
<1>5. QED BY <1>3, <1>4

\* The leaves that are kept, in their order.
LEMMA RemainingLeavesAre ==
    ASSUME NEW i, NEW pair, leaf_matches[i] \in Seq(Seq(Nat))
    PROVE  \E h : IsThinned(remaining_leaves(i, pair), i, pair, Len(leaf_matches[i]), h)
<1> DEFINE leaves == leaf_matches[i]
           m == Len(leaves)
           X == [k \in 0 .. m |-> ThinnedTo(i, pair, k)]
           step == [k \in 1 .. m |-> [s \in X[k - 1] |-> ThinOne(i, pair, s, leaves[k])]]
           IsThis(f) == f = [k \in 0 .. m |->
                               IF k = 0 THEN <<>>
                               ELSE IF supports(i, leaves[k], pair) THEN Append(f[k - 1], leaves[k])
                               ELSE f[k - 1]]
           Follows(f) == f = [k \in 0 .. m |->
                               IF k = 0 THEN <<>> ELSE ThinOne(i, pair, f[k - 1], leaves[k])]
           kept == CHOOSE f : IsThis(f)
<1>0. m \in Nat
    OBVIOUS
<1>1. remaining_leaves(i, pair) = kept[m]
    BY DEF remaining_leaves
<1>2. \A f : IsThis(f) <=> Follows(f)
    BY DEF ThinOne
<1>3. \A k \in 0 .. m : X[k] = ThinnedTo(i, pair, k)
    OBVIOUS
<1>30. 0 \in 0 .. m /\ m \in 0 .. m /\ \A k \in 1 .. m : k \in 0 .. m /\ k - 1 \in 0 .. m /\ k # 0
    BY <1>0
<1>5. <<>> \in X[0]
    <2> DEFINE h == [q \in {} |-> 0]
    <2>1. <<>> \in Seq(Seq(Nat)) /\ Len(<<>>) = 0 /\ 1 .. 0 = {}
        BY EmptySeq
    <2>2. h \in [1 .. 0 -> 1 .. 0]
        BY <2>1
    <2> HIDE DEF h
    <2>3. IsThinned(<<>>, i, pair, 0, h)
        BY <2>1, <2>2 DEF IsThinned
    <2>4. <<>> \in ThinnedTo(i, pair, 0)
        BY <2>3, ThinnedToIs
    <2>5. QED BY <2>4, <1>3, <1>30
<1>6. ASSUME NEW k \in 1 .. m, NEW s \in X[k - 1] PROVE ThinOne(i, pair, s, leaves[k]) \in X[k]
    <2>1. s \in ThinnedTo(i, pair, k - 1)
        BY <1>3, <1>30, <1>6
    <2>2. ThinOne(i, pair, s, leaf_matches[i][k]) \in ThinnedTo(i, pair, k)
        BY <2>1, ThinOneLeaf
    <2>3. QED BY <2>2, <1>3, <1>30
<1> HIDE DEF X
<1>7. \A k \in 1 .. m : \A s \in X[k - 1] : step[k][s] = ThinOne(i, pair, s, leaves[k])
    OBVIOUS
<1>70. \A k \in 1 .. m : \A s \in X[k - 1] : step[k][s] \in X[k]
    BY <1>6, <1>7
<1> HIDE DEF step, m, leaves, IsThis
<1>8. \E f : Follows(f)
    <2>1. PICK f : IsRunThrough(f, X, <<>>, step, m)
        BY <1>0, <1>5, <1>70, RunFound
    <2>2. /\ f = [k \in 0 .. m |-> f[k]] /\ f[0] = <<>>
          /\ \A k \in 1 .. m : f[k] = ThinOne(i, pair, f[k - 1], leaves[k])
        BY <2>1, <1>7 DEF IsRunThrough
    <2>3. \A k \in 0 .. m : k # 0 => k \in 1 .. m
        BY <1>0
    <2>4. Follows(f)
        BY <2>2, <2>3
    <2>5. QED BY <2>4
<1>9. Follows(kept)
    <2> HIDE DEF Follows
    <2>1. QED BY <1>2, <1>8
<1> HIDE DEF kept
<1>10. kept[0] = <<>> /\ \A k \in 1 .. m : kept[k] = ThinOne(i, pair, kept[k - 1], leaves[k])
    BY <1>9, <1>30
<1>11. \A k \in 1 .. m : kept[k - 1] \in X[k - 1] => kept[k] \in X[k]
    BY <1>10, <1>6
<1>110. kept[0] \in X[0]
    BY <1>5, <1>10
<1>12. \A k \in 0 .. m : kept[k] \in X[k]
    BY <1>0, <1>11, <1>110, RunStays
<1>13. kept[m] \in ThinnedTo(i, pair, m)
    BY <1>3, <1>12, <1>30
<1>14. QED BY <1>1, <1>13, ThinnedToIs DEF m, leaves

-----------------------------------------------------------------------------
(* Sequences the finder builds.                                            *)

\* A set of numbers in ascending order: each of them once.
LEMMA AscendingIs ==
    ASSUME NEW S, IsFiniteSet(S), S \subseteq Nat
    PROVE  /\ Ascending(S) \in Seq(S)
           /\ \A k \in 1 .. Len(Ascending(S)) : Ascending(S)[k] \in S
           /\ \A j, k \in 1 .. Len(Ascending(S)) : Ascending(S)[j] = Ascending(S)[k] => j = k
           /\ \A x \in S : \E k \in 1 .. Len(Ascending(S)) : Ascending(S)[k] = x
<1> DEFINE a == Ascending(S)
           n == Cardinality(S)
           below(x) == Cardinality({y \in S : y < x})
<1>1. /\ \A x \in S : below(x) \in 0 .. n - 1
      /\ \A x, z \in S : below(x) = below(z) => x = z
      /\ \A k \in 0 .. n - 1 : \E x \in S : below(x) = k
    BY RanksAreNumbers
<1>2. n \in Nat
    BY FS_CardinalityType
<1>3. a = [k \in 1 .. n |-> CHOOSE x \in S : below(x) = k - 1]
    BY DEF Ascending
<1> HIDE DEF a, n, below
<1>4. ASSUME NEW k \in 1 .. n PROVE a[k] \in S /\ below(a[k]) = k - 1
    <2>1. k - 1 \in 0 .. n - 1
        BY <1>2
    <2>2. PICK x \in S : below(x) = k - 1
        BY <1>1, <2>1
    <2>3. a[k] = CHOOSE z \in S : below(z) = k - 1
        BY <1>3
    <2>4. QED BY <2>2, <2>3
<1>5. a \in Seq(S) /\ Len(a) = n
    BY <1>2, <1>3, <1>4
<1>6. \A j, k \in 1 .. n : a[j] = a[k] => j = k
    <2>1. \A j, k \in 1 .. n : j - 1 = k - 1 => j = k
        BY <1>2
    <2>2. QED BY <2>1, <1>4
<1>7. ASSUME NEW x \in S PROVE \E k \in 1 .. n : a[k] = x
    <2>1. below(x) + 1 \in 1 .. n /\ (below(x) + 1) - 1 = below(x)
        BY <1>1, <1>2
    <2>2. a[below(x) + 1] \in S /\ below(a[below(x) + 1]) = below(x)
        BY <2>1, <1>4
    <2>3. QED BY <2>1, <2>2, <1>1
<1>8. QED BY <1>4, <1>5, <1>6, <1>7 DEF a

\* The vertices a match can be extended with.
OffPath(i, key, leaf) ==
    {w \in get_neighbours(m_graph_list[i], leaf[key[2] + 1], key[3]) :
        get_vertex_color(m_graph_list[i], w) = key[1] /\ w \notin path_vertices(leaf)}

\* pairs extends each leaf with each of them, leaf after leaf: b says which.
IsExtension(i, key, pairs, b) ==
    /\ pairs \in Seq(Nat \X Seq(Nat))
    /\ b \in [1 .. Len(pairs) -> 1 .. Len(leaf_matches[i])]
    /\ \A q \in 1 .. Len(pairs) : /\ pairs[q][2] = leaf_matches[i][b[q]]
                                  /\ pairs[q][1] \in OffPath(i, key, leaf_matches[i][b[q]])
    /\ \A p, q \in 1 .. Len(pairs) : p < q => b[p] <= b[q]
    /\ \A p, q \in 1 .. Len(pairs) : b[p] = b[q] /\ pairs[p][1] = pairs[q][1] => p = q
    /\ \A j \in 1 .. Len(leaf_matches[i]) : \A w \in OffPath(i, key, leaf_matches[i][j]) :
            \E q \in 1 .. Len(pairs) : b[q] = j /\ pairs[q][1] = w

\* What collect_extension_candidates finds below one leaf.
Below(i, key, leaf) == [r \in DOMAIN Ascending(OffPath(i, key, leaf)) |->
                            <<Ascending(OffPath(i, key, leaf))[r], leaf>>]

\* Vertices of a graph are numbers, finitely many.
LEMMA VerticesAre ==
    ASSUME NEW g, IsColoredGraph(g)
    PROVE  IsFiniteSet(Vertices(g)) /\ Vertices(g) \subseteq Nat /\ vertex_count(g) \in Nat
           /\ Vertices(g) = 0 .. vertex_count(g) - 1
<1>1. IsFiniteSet(Vertices(g)) /\ Vertices(g) = 0 .. vertex_count(g) - 1
    BY DEF IsColoredGraph
<1>2. vertex_count(g) \in Nat
    BY <1>1, FS_CardinalityType DEF vertex_count
<1>3. QED BY <1>1, <1>2

\* There are finitely many, all of them vertices of the graph.
LEMMA OffPathIs ==
    ASSUME NEW i, NEW key, IsColoredGraph(m_graph_list[i]), NEW leaf
    PROVE  /\ OffPath(i, key, leaf) \subseteq Vertices(m_graph_list[i])
           /\ OffPath(i, key, leaf) \subseteq Nat /\ IsFiniteSet(OffPath(i, key, leaf))
<1>1. OffPath(i, key, leaf) \subseteq Vertices(m_graph_list[i])
    BY DEF OffPath, get_neighbours
<1>2. IsFiniteSet(Vertices(m_graph_list[i])) /\ Vertices(m_graph_list[i]) \subseteq Nat
    BY VerticesAre
<1>3. OffPath(i, key, leaf) \in SUBSET Vertices(m_graph_list[i])
    BY <1>1
<1>4. IsFiniteSet(OffPath(i, key, leaf))
    BY <1>2, <1>3, FS_Subset
<1>5. QED BY <1>1, <1>2, <1>4

ListsBelow(i, key, leaf, d) ==
    /\ d \in Seq(Nat \X Seq(Nat))
    /\ \A r \in 1 .. Len(d) : d[r][2] = leaf /\ d[r][1] \in OffPath(i, key, leaf)
    /\ \A r, s \in 1 .. Len(d) : d[r][1] = d[s][1] => r = s
    /\ \A w \in OffPath(i, key, leaf) : \E r \in 1 .. Len(d) : d[r][1] = w

\* The pairs below one leaf name each of them once.
LEMMA BelowIs ==
    ASSUME NEW i, NEW key, IsColoredGraph(m_graph_list[i]), NEW leaf \in Seq(Nat)
    PROVE  ListsBelow(i, key, leaf, Below(i, key, leaf))
<1> DEFINE S == OffPath(i, key, leaf)
           a == Ascending(S)
           d == [r \in 1 .. Len(a) |-> <<a[r], leaf>>]
<1>1. IsFiniteSet(S) /\ S \subseteq Nat
    BY OffPathIs
<1>2. /\ a \in Seq(S)
      /\ \A k \in 1 .. Len(a) : a[k] \in S
      /\ \A j, k \in 1 .. Len(a) : a[j] = a[k] => j = k
      /\ \A x \in S : \E k \in 1 .. Len(a) : a[k] = x
    <2> HIDE DEF S
    <2>1. QED BY <1>1, AscendingIs
<1>3. DOMAIN a = 1 .. Len(a) /\ Len(a) \in Nat
    <2> HIDE DEF a, S
    <2>1. QED BY <1>2
<1>4. Below(i, key, leaf) = d
    BY <1>3 DEF Below
<1> HIDE DEF a
<1>5. \A r \in 1 .. Len(a) : d[r] \in Nat \X Seq(Nat) /\ d[r][1] = a[r] /\ d[r][2] = leaf
    BY <1>1, <1>2
<1>6. d \in Seq(Nat \X Seq(Nat)) /\ Len(d) = Len(a)
    BY <1>3, <1>5
<1> HIDE DEF d, S
<1>7. \A r \in 1 .. Len(d) : d[r][2] = leaf /\ d[r][1] \in S
    BY <1>2, <1>5, <1>6
<1>8. \A r, s \in 1 .. Len(d) : d[r][1] = d[s][1] => r = s
    <2>1. \A r \in 1 .. Len(d) : r \in 1 .. Len(a) /\ d[r][1] = a[r]
        BY <1>5, <1>6
    <2>2. \A r, s \in 1 .. Len(a) : a[r] = a[s] => r = s
        BY <1>2
    <2>3. QED BY <2>1, <2>2
<1>9. \A w \in S : \E r \in 1 .. Len(d) : d[r][1] = w
    <2>1. \A r \in 1 .. Len(a) : r \in 1 .. Len(d) /\ d[r][1] = a[r]
        BY <1>5, <1>6
    <2>2. ASSUME NEW w \in S PROVE \E r \in 1 .. Len(d) : d[r][1] = w
        <3>1. \A x \in S : \E r \in 1 .. Len(a) : a[r] = x
            BY <1>2
        <3>2. PICK r \in 1 .. Len(a) : a[r] = w
            BY <3>1, Zenon
        <3>3. r \in 1 .. Len(d) /\ d[r][1] = w
            BY <2>1, <3>2, Zenon
        <3>4. QED BY <3>3, Zenon
    <2>3. QED BY <2>2, Zenon
<1>10. ListsBelow(i, key, leaf, d)
    BY <1>6, <1>7, <1>8, <1>9 DEF ListsBelow, S
<1>11. QED BY <1>4, <1>10

\* collect_extension_candidates.
LEMMA CandidatesAre ==
    ASSUME NEW i, NEW key, IsColoredGraph(m_graph_list[i]), leaf_matches[i] \in Seq(Seq(Nat))
    PROVE  \E b : IsExtension(i, key, collect_extension_candidates(i, key), b)
<1> DEFINE leaves == leaf_matches[i]
           m == Len(leaves)
           T == Nat \X Seq(Nat)
           seqs == [k \in 1 .. m |-> Below(i, key, leaves[k])]
           pairs == FlattenSeq(seqs)
<1>1. m \in Nat /\ DOMAIN leaves = 1 .. m /\ \A k \in 1 .. m : leaves[k] \in Seq(Nat)
    OBVIOUS
<1>2. collect_extension_candidates(i, key) = pairs
    BY <1>1 DEF collect_extension_candidates, Below, OffPath
<1>3. \A k \in 1 .. m : seqs[k] = Below(i, key, leaves[k])
    OBVIOUS
<1>4. Len(seqs) = m /\ DOMAIN seqs = 1 .. m
    BY <1>1
<1>5. Len(seqs) = 0 => seqs = <<>>
    <2> SUFFICES ASSUME Len(seqs) = 0 PROVE seqs = <<>>
        OBVIOUS
    <2>1. m = 0
        BY <1>4
    <2>2. seqs = [k \in {} |-> Below(i, key, leaves[k])]
        BY <2>1
    <2>3. seqs \in Seq({})
        BY <2>1
    <2>4. QED BY <2>3, EmptySeq
<1> HIDE DEF seqs, leaves, m, pairs
<1>6. \A k \in 1 .. m : ListsBelow(i, key, leaves[k], seqs[k])
    BY <1>1, <1>3, BelowIs
<1>7. PICK b : \E o : IsFlat(FlattenSeq(seqs), T, seqs, Len(seqs), b, o)
    <2>1. Len(seqs) \in Nat /\ DOMAIN seqs = 1 .. Len(seqs)
        BY <1>1, <1>4
    <2>2. \A k \in 1 .. Len(seqs) : seqs[k] \in Seq(T)
        BY <1>4, <1>6 DEF ListsBelow
    <2> HIDE DEF T
    <2>3. QED BY <2>1, <2>2, <1>5, FlattenIsFlat
<1>8. PICK o : IsFlat(pairs, T, seqs, m, b, o)
    BY <1>4, <1>7 DEF pairs
<1>9. /\ pairs \in Seq(T)
      /\ b \in [1 .. Len(pairs) -> 1 .. m]
      /\ \A q \in 1 .. Len(pairs) : o[q] \in 1 .. Len(seqs[b[q]]) /\ pairs[q] = seqs[b[q]][o[q]]
      /\ \A p, q \in 1 .. Len(pairs) : p < q => b[p] <= b[q]
      /\ \A p, q \in 1 .. Len(pairs) : b[p] = b[q] /\ o[p] = o[q] => p = q
      /\ \A j \in 1 .. m : \A r \in 1 .. Len(seqs[j]) : \E q \in 1 .. Len(pairs) : b[q] = j /\ o[q] = r
    BY <1>8 DEF IsFlat
<1>10. \A q \in 1 .. Len(pairs) :
            pairs[q][2] = leaves[b[q]] /\ pairs[q][1] \in OffPath(i, key, leaves[b[q]])
    <2> SUFFICES ASSUME NEW q \in 1 .. Len(pairs)
                 PROVE  pairs[q][2] = leaves[b[q]] /\ pairs[q][1] \in OffPath(i, key, leaves[b[q]])
        OBVIOUS
    <2>1. /\ b[q] \in 1 .. m /\ o[q] \in 1 .. Len(seqs[b[q]])
          /\ pairs[q] = seqs[b[q]][o[q]]
        BY <1>9
    <2>2. ListsBelow(i, key, leaves[b[q]], seqs[b[q]])
        BY <2>1, <1>6
    <2>3. \A r \in 1 .. Len(seqs[b[q]]) :
            seqs[b[q]][r][2] = leaves[b[q]] /\ seqs[b[q]][r][1] \in OffPath(i, key, leaves[b[q]])
        BY <2>2 DEF ListsBelow
    <2>4. /\ seqs[b[q]][o[q]][2] = leaves[b[q]]
          /\ seqs[b[q]][o[q]][1] \in OffPath(i, key, leaves[b[q]])
        BY <2>1, <2>3
    <2>5. QED BY <2>1, <2>4
<1>11. \A p, q \in 1 .. Len(pairs) : b[p] = b[q] /\ pairs[p][1] = pairs[q][1] => p = q
    <2> SUFFICES ASSUME NEW p \in 1 .. Len(pairs), NEW q \in 1 .. Len(pairs),
                        b[p] = b[q], pairs[p][1] = pairs[q][1]
                 PROVE  p = q
        OBVIOUS
    <2>1. b[p] \in 1 .. m
        BY <1>9
    <2>2. /\ o[p] \in 1 .. Len(seqs[b[p]]) /\ o[q] \in 1 .. Len(seqs[b[p]])
          /\ pairs[p] = seqs[b[p]][o[p]] /\ pairs[q] = seqs[b[p]][o[q]]
        BY <1>9
    <2>30. ListsBelow(i, key, leaves[b[p]], seqs[b[p]])
        BY <2>1, <1>6
    <2>31. \A r, s \in 1 .. Len(seqs[b[p]]) : seqs[b[p]][r][1] = seqs[b[p]][s][1] => r = s
        BY <2>30 DEF ListsBelow
    <2>32. seqs[b[p]][o[p]][1] = seqs[b[p]][o[q]][1]
        BY <2>2
    <2>3. o[p] = o[q]
        BY <2>2, <2>31, <2>32
    <2>4. QED BY <2>3, <1>9
<1>12. ASSUME NEW j \in 1 .. m, NEW w \in OffPath(i, key, leaves[j])
       PROVE  \E q \in 1 .. Len(pairs) : b[q] = j /\ pairs[q][1] = w
    <2>0. ListsBelow(i, key, leaves[j], seqs[j])
        BY <1>6
    <2>1. PICK r \in 1 .. Len(seqs[j]) : seqs[j][r][1] = w
        BY <2>0, Zenon DEF ListsBelow
    <2>2. PICK q \in 1 .. Len(pairs) : b[q] = j /\ o[q] = r
        BY <1>9
    <2>3. QED BY <2>1, <2>2, <1>9
<1>13. IsExtension(i, key, pairs, b)
    BY <1>9, <1>10, <1>11, <1>12 DEF IsExtension, leaves, m
<1>14. QED BY <1>2, <1>13

-----------------------------------------------------------------------------
(* Leaves below one node are next to each other.                           *)

TogetherAt(leaves, d) ==
    \A i, k \in 1 .. Len(leaves) :
        i < k /\ get_node_by_depth(leaves[i], d) = get_node_by_depth(leaves[k], d) =>
            \A j \in i .. k : get_node_by_depth(leaves[j], d) = get_node_by_depth(leaves[i], d)

LeavesIn(leaves) == {leaves[j] : j \in 1 .. Len(leaves)}

AreInOrder(leaves, n) == AreLeaves(leaves, n) /\ \A d \in 0 .. n : TogetherAt(leaves, d)

\* A list drawn from another without going back keeps them so.
LEMMA TogetherFollows ==
    ASSUME NEW old, NEW d, TogetherAt(old, d), Len(old) \in Nat,
           NEW new, Len(new) \in Nat, NEW h, h \in [1 .. Len(new) -> 1 .. Len(old)],
           \A p, q \in 1 .. Len(new) : p < q => h[p] <= h[q],
           \A q \in 1 .. Len(new) : get_node_by_depth(new[q], d) = get_node_by_depth(old[h[q]], d)
    PROVE  TogetherAt(new, d)
<1> DEFINE at(q) == get_node_by_depth(new[q], d)
           was(q) == get_node_by_depth(old[q], d)
<1> SUFFICES ASSUME NEW i \in 1 .. Len(new), NEW k \in 1 .. Len(new), i < k, at(i) = at(k),
                    NEW j \in i .. k
             PROVE  at(j) = at(i)
    BY DEF TogetherAt
<1>1. j \in 1 .. Len(new) /\ (j = i \/ i < j) /\ (j = k \/ j < k)
    OBVIOUS
<1>2. h[i] \in 1 .. Len(old) /\ h[j] \in 1 .. Len(old) /\ h[k] \in 1 .. Len(old)
    BY <1>1
<1>3. at(i) = was(h[i]) /\ at(j) = was(h[j]) /\ at(k) = was(h[k])
    BY <1>1
<1>4. h[i] <= h[j] /\ h[j] <= h[k]
    <2>1. j = i \/ h[i] <= h[j]
        BY <1>1
    <2>2. j = k \/ h[j] <= h[k]
        BY <1>1
    <2>3. \A x, y \in 1 .. Len(old) : x = y => x <= y
        OBVIOUS
    <2>4. QED BY <2>1, <2>2, <2>3, <1>2
<1>5. h[j] \in h[i] .. h[k] /\ (h[i] < h[k] \/ h[j] = h[i])
    BY <1>2, <1>4
<1>6. was(h[i]) = was(h[k])
    BY <1>3
<1>7. \A x, y \in 1 .. Len(old) : x < y /\ was(x) = was(y) => \A z \in x .. y : was(z) = was(x)
    BY DEF TogetherAt
<1> HIDE DEF at, was
<1>8. was(h[j]) = was(h[i])
    BY <1>2, <1>5, <1>6, <1>7
<1>9. QED BY <1>3, <1>8

\* The pairs that extend leaves are what a tree of them can be extended with.
LEMMA ExtensionFits ==
    ASSUME NEW i, NEW key, NEW n, AreLeaves(leaf_matches[i], n), IsColoredGraph(m_graph_list[i]),
           NEW pairs, NEW b, IsExtension(i, key, pairs, b)
    PROVE  CanExtend(leaf_matches[i], pairs, n)
<1> DEFINE leaves == leaf_matches[i]
<1>1. /\ n \in Nat /\ leaves \in Seq(Seq(Nat))
      /\ \A j \in 1 .. Len(leaves) : Len(leaves[j]) = n
      /\ \A j, k \in 1 .. Len(leaves) : leaves[j] = leaves[k] => j = k
    BY DEF AreLeaves
<1>2. pairs \in Seq(Nat \X Seq(Nat)) /\ b \in [1 .. Len(pairs) -> 1 .. Len(leaves)]
    BY DEF IsExtension
<1>3. Len(pairs) \in Nat /\ DOMAIN pairs = 1 .. Len(pairs)
      /\ \A q \in 1 .. Len(pairs) : pairs[q][1] \in Nat /\ pairs[q][2] \in Seq(Nat)
    BY <1>2
<1>4. \A q \in 1 .. Len(pairs) : b[q] \in 1 .. Len(leaves) /\ pairs[q][2] = leaves[b[q]]
    BY <1>2 DEF IsExtension
<1>5. ASSUME NEW p \in 1 .. Len(pairs), NEW q \in 1 .. Len(pairs),
             Append(pairs[p][2], pairs[p][1]) = Append(pairs[q][2], pairs[q][1])
      PROVE  p = q
    <2>1. pairs[p][2] = pairs[q][2] /\ pairs[p][1] = pairs[q][1]
        <3>1. /\ Front(Append(pairs[p][2], pairs[p][1])) = pairs[p][2]
              /\ Last(Append(pairs[p][2], pairs[p][1])) = pairs[p][1]
              /\ Front(Append(pairs[q][2], pairs[q][1])) = pairs[q][2]
              /\ Last(Append(pairs[q][2], pairs[q][1])) = pairs[q][1]
            BY <1>3, NodeFacts
        <3>2. QED BY <3>1, <1>5
    <2>20. leaves[b[p]] = leaves[b[q]] /\ b[p] \in 1 .. Len(leaves) /\ b[q] \in 1 .. Len(leaves)
        BY <2>1, <1>4
    <2>2. b[p] = b[q]
        BY <2>20, <1>1
    <2>3. QED BY <2>1, <2>2 DEF IsExtension
<1>6. QED BY <1>1, <1>3, <1>4, <1>5 DEF CanExtend

\* x is a leaf and a vertex it can be extended with.
ExtendsOne(x, i, key) ==
    \E leaf \in LeavesIn(leaf_matches[i]) : \E w \in OffPath(i, key, leaf) : x = Append(leaf, w)

\* The new leaves.
LEMMA NewLeavesAre ==
    ASSUME NEW i, NEW key, NEW n, AreInOrder(leaf_matches[i], n), IsColoredGraph(m_graph_list[i]),
           NEW pairs, NEW b, IsExtension(i, key, pairs, b)
    PROVE  /\ AreInOrder(added_nodes(pairs), n + 1)
           /\ LeavesIn(added_nodes(pairs)) = Added(pairs, Len(pairs))
           /\ \A x : x \in LeavesIn(added_nodes(pairs)) <=> ExtendsOne(x, i, key)
<1> DEFINE leaves == leaf_matches[i]
           new == added_nodes(pairs)
           N == Len(pairs)
<1>0. AreLeaves(leaves, n) /\ \A d \in 0 .. n : TogetherAt(leaves, d)
    BY DEF AreInOrder
<1>1. /\ n \in Nat /\ leaves \in Seq(Seq(Nat)) /\ Len(leaves) \in Nat
      /\ \A j \in 1 .. Len(leaves) : Len(leaves[j]) = n /\ leaves[j] \in Seq(Nat)
    BY <1>0 DEF AreLeaves
<1>2. CanExtend(leaves, pairs, n)
    BY <1>0, ExtensionFits
<1>3. pairs \in Seq(Nat \X Seq(Nat)) /\ b \in [1 .. N -> 1 .. Len(leaves)]
    BY DEF IsExtension
<1>4. N \in Nat /\ DOMAIN pairs = 1 .. N
      /\ \A q \in 1 .. N : pairs[q][1] \in Nat /\ pairs[q][2] \in Seq(Nat)
    BY <1>3
<1>5. \A q \in 1 .. N : b[q] \in 1 .. Len(leaves) /\ pairs[q][2] = leaves[b[q]]
    BY <1>3 DEF IsExtension
<1>6. new = [q \in 1 .. N |-> Append(pairs[q][2], pairs[q][1])]
    BY <1>4 DEF added_nodes
<1> HIDE DEF new
<1>7. \A q \in 1 .. N : new[q] = Append(pairs[q][2], pairs[q][1])
    BY <1>6
<1>8. ASSUME NEW q \in 1 .. N PROVE new[q] \in Seq(Nat) /\ Len(new[q]) = n + 1
    <2>1. Len(pairs[q][2]) = n /\ pairs[q][2] \in Seq(Nat) /\ pairs[q][1] \in Nat
        BY <1>1, <1>4, <1>5
    <2>2. /\ Append(pairs[q][2], pairs[q][1]) \in Seq(Nat)
          /\ Len(Append(pairs[q][2], pairs[q][1])) = Len(pairs[q][2]) + 1
        BY <2>1, NodeFacts
    <2>3. QED BY <2>1, <2>2, <1>7
<1>9. new \in Seq(Seq(Nat)) /\ Len(new) = N
    BY <1>4, <1>6, <1>8
<1>10. \A p, q \in 1 .. N : new[p] = new[q] => p = q
    BY <1>2, <1>7 DEF CanExtend
<1>11. AreLeaves(new, n + 1)
    BY <1>1, <1>8, <1>9, <1>10 DEF AreLeaves
<1>12. ASSUME NEW d \in 0 .. n + 1 PROVE TogetherAt(new, d)
    <2>1. CASE d = n + 1
        <3>1. \A q \in 1 .. N : get_node_by_depth(new[q], d) = new[q]
            BY <2>1, <1>1, <1>8, DepthFacts
        <3>2. \A p, q \in 1 .. N : p < q => p # q
            BY <1>4
        <3>3. QED BY <3>1, <3>2, <1>9, <1>10 DEF TogetherAt
    <2>2. CASE d # n + 1
        <3>1. d \in 0 .. n
            BY <2>2, <1>1
        <3>2. ASSUME NEW q \in 1 .. N
              PROVE  get_node_by_depth(new[q], d) = get_node_by_depth(leaves[b[q]], d)
            <4>1. new[q] \in Seq(Nat) /\ Len(new[q]) = n + 1
                BY <1>8
            <4>2. leaves[b[q]] \in Seq(Nat) /\ Len(leaves[b[q]]) = n /\ new[q] = Append(leaves[b[q]], pairs[q][1])
                BY <1>1, <1>5, <1>7
            <4>3. Front(new[q]) = leaves[b[q]]
                BY <4>2, <1>4, NodeFacts
            <4>4. n + 1 \in 0 .. Len(new[q]) /\ n + 1 > 0 /\ n \in 0 .. Len(new[q]) /\ (n + 1) - 1 = n
                BY <4>1, <1>1
            <4>5. get_node_by_depth(new[q], n + 1) = new[q]
                BY <4>1, <4>4, DepthFacts
            <4>6. Front(get_node_by_depth(new[q], n + 1)) = get_node_by_depth(new[q], (n + 1) - 1)
                BY <4>1, <4>4, DepthFacts
            <4>7. leaves[b[q]] = get_node_by_depth(new[q], n)
                BY <4>3, <4>4, <4>5, <4>6
            <4>8. get_node_by_depth(get_node_by_depth(new[q], n), d) = get_node_by_depth(new[q], d)
                BY <3>1, <4>1, <4>4, DepthFacts
            <4>9. QED BY <4>7, <4>8
        <3>3. TogetherAt(leaves, d)
            BY <3>1, <1>0
        <3>4. \A p, q \in 1 .. N : p < q => b[p] <= b[q]
            BY DEF IsExtension
        <3> HIDE DEF N, leaves
        <3>5. QED BY <3>2, <3>3, <3>4, <1>1, <1>3, <1>4, <1>9, TogetherFollows
    <2>3. QED BY <2>1, <2>2
<1>13. LeavesIn(new) = Added(pairs, N)
    BY <1>7, <1>9 DEF LeavesIn, Added
<1>14. ASSUME NEW x
       PROVE  x \in LeavesIn(new) <=> ExtendsOne(x, i, key)
    <2>1. ASSUME x \in LeavesIn(new)
          PROVE  \E leaf \in LeavesIn(leaves) : \E w \in OffPath(i, key, leaf) : x = Append(leaf, w)
        <3>1. PICK q \in 1 .. N : x = new[q]
            BY <2>1, <1>9 DEF LeavesIn
        <3>2. pairs[q][1] \in OffPath(i, key, leaves[b[q]]) /\ leaves[b[q]] \in LeavesIn(leaves)
            BY <1>5 DEF IsExtension, LeavesIn
        <3>3. QED BY <3>1, <3>2, <1>5, <1>7
    <2>2. ASSUME NEW leaf \in LeavesIn(leaves), NEW w \in OffPath(i, key, leaf), x = Append(leaf, w)
          PROVE  x \in LeavesIn(new)
        <3>1. PICK j \in 1 .. Len(leaves) : leaf = leaves[j]
            BY DEF LeavesIn
        <3>2. PICK q \in 1 .. N : b[q] = j /\ pairs[q][1] = w
            BY <3>1 DEF IsExtension
        <3>3. new[q] = x
            BY <3>1, <3>2, <2>2, <1>5, <1>7
        <3>4. QED BY <3>3, <1>9 DEF LeavesIn
    <2>3. QED BY <2>1, <2>2 DEF ExtendsOne
<1>15. AreInOrder(new, n + 1)
    BY <1>11, <1>12 DEF AreInOrder
<1>16. QED BY <1>13, <1>14, <1>15 DEF new

\* The kept leaves.
LEMMA KeptLeavesAre ==
    ASSUME NEW i, NEW pair, NEW n, AreInOrder(leaf_matches[i], n)
    PROVE  /\ AreInOrder(remaining_leaves(i, pair), n)
           /\ LeavesIn(remaining_leaves(i, pair)) =
                {leaf \in LeavesIn(leaf_matches[i]) : supports(i, leaf, pair)}
<1> DEFINE leaves == leaf_matches[i]
           m == Len(leaves)
           s == remaining_leaves(i, pair)
<1>1. /\ n \in Nat /\ leaves \in Seq(Seq(Nat)) /\ m \in Nat
      /\ \A j \in 1 .. m : Len(leaves[j]) = n /\ leaves[j] \in Seq(Nat)
      /\ \A j, k \in 1 .. m : leaves[j] = leaves[k] => j = k
      /\ \A d \in 0 .. n : TogetherAt(leaves, d)
    BY DEF AreInOrder, AreLeaves
<1>2. PICK h : IsThinned(s, i, pair, m, h)
    BY <1>1, RemainingLeavesAre
<1> HIDE DEF s, leaves, m
<1>3. /\ s \in Seq(Seq(Nat))
      /\ h \in [1 .. Len(s) -> 1 .. m]
      /\ \A q \in 1 .. Len(s) : s[q] = leaves[h[q]] /\ supports(i, leaves[h[q]], pair)
      /\ \A p, q \in 1 .. Len(s) : p < q => h[p] < h[q]
      /\ \A j \in 1 .. m : supports(i, leaves[j], pair) => \E q \in 1 .. Len(s) : h[q] = j
    BY <1>2 DEF IsThinned, leaves, m
<1>40. Len(s) \in Nat
    BY <1>3
<1>41. \A q \in 1 .. Len(s) : h[q] \in 1 .. m
    BY <1>3
<1>4. Len(s) \in Nat /\ \A q \in 1 .. Len(s) : h[q] \in 1 .. m
    BY <1>40, <1>41
<1>5. \A p, q \in 1 .. Len(s) : h[p] = h[q] => p = q
    <2>1. \A p, q \in 1 .. Len(s) : p < q \/ q < p \/ p = q
        BY <1>4
    <2>2. \A p, q \in 1 .. Len(s) : h[p] < h[q] => h[p] # h[q]
        BY <1>1, <1>4
    <2>3. QED BY <2>1, <2>2, <1>3
<1>6. AreLeaves(s, n)
    <2>0. \A q \in 1 .. Len(s) : s[q] = leaves[h[q]] /\ h[q] \in 1 .. m
        BY <1>3, <1>4
    <2>1. \A q \in 1 .. Len(s) : Len(s[q]) = n
        BY <1>1, <2>0
    <2>20. \A j, k \in 1 .. m : leaves[j] = leaves[k] => j = k
        BY <1>1
    <2>2. \A p, q \in 1 .. Len(s) : s[p] = s[q] => p = q
        BY <2>0, <2>20, <1>5
    <2>3. QED BY <2>1, <2>2, <1>1, <1>3 DEF AreLeaves
<1>7. ASSUME NEW d \in 0 .. n PROVE TogetherAt(s, d)
    <2>1. TogetherAt(leaves, d)
        BY <1>1
    <2>2. \A p, q \in 1 .. Len(s) : p < q => h[p] <= h[q]
        <3>1. \A p, q \in 1 .. Len(s) : h[p] < h[q] => h[p] <= h[q]
            BY <1>1, <1>4
        <3>2. QED BY <3>1, <1>3
    <2>3. \A q \in 1 .. Len(s) : get_node_by_depth(s[q], d) = get_node_by_depth(leaves[h[q]], d)
        BY <1>3
    <2>4. m = Len(leaves)
        BY DEF m
    <2>5. Len(leaves) \in Nat /\ h \in [1 .. Len(s) -> 1 .. Len(leaves)]
        BY <2>4, <1>1, <1>3
    <2>6. QED BY <2>1, <2>2, <2>3, <2>5, <1>4, TogetherFollows
<1>8. LeavesIn(s) = {leaf \in LeavesIn(leaves) : supports(i, leaf, pair)}
    <2>1. ASSUME NEW x \in LeavesIn(s) PROVE x \in LeavesIn(leaves) /\ supports(i, x, pair)
        <3>1. PICK q \in 1 .. Len(s) : x = s[q]
            BY DEF LeavesIn
        <3>2. QED BY <3>1, <1>3, <1>4 DEF LeavesIn, m
    <2>2. ASSUME NEW x \in LeavesIn(leaves), supports(i, x, pair) PROVE x \in LeavesIn(s)
        <3>1. PICK j \in 1 .. m : x = leaves[j]
            BY DEF LeavesIn, m
        <3>2. PICK q \in 1 .. Len(s) : h[q] = j
            BY <3>1, <2>2, <1>3
        <3>3. x = s[q]
            BY <3>1, <3>2, <1>3
        <3>4. QED BY <3>3 DEF LeavesIn
    <2>3. QED BY <2>1, <2>2
<1>9. AreInOrder(s, n)
    BY <1>6, <1>7 DEF AreInOrder
<1>10. QED BY <1>8, <1>9 DEF s, leaves

-----------------------------------------------------------------------------
(* The first level.                                                        *)

\* No leaf, no tree.
LEMMA GoneIsTree == IsTree(Gone) /\ DOMAIN Gone = {} /\ OnWay({}) = {}
<1>1. DOMAIN Gone = {} /\ OnWay({}) = {}
    BY DEF Gone, OnWay
<1>2. Gone = [q \in {} |-> Gone[q]]
    BY DEF Gone
<1>3. IsForest(Gone)
    BY <1>1, <1>2 DEF IsForest
<1>4. QED BY <1>1, <1>3 DEF IsTree

\* A root alone is a tree.
LEMMA NewTreeIsTree == IsTree(NewTree) /\ DOMAIN NewTree = {<<>>}
<1>1. DOMAIN NewTree = {<<>>} /\ NewTree[<<>>] = Unlinked /\ NewTree = [q \in {<<>>} |-> NewTree[q]]
    BY DEF NewTree
<1>2. Unlinked \in [son : Links, left : Links, right : Links] /\ Unlinked.son = Null
    BY DEF Unlinked, Links
<1> HIDE DEF NewTree
<1>3. IsForest(NewTree)
    <2>1. {<<>>} \subseteq Seq(Nat)
        BY EmptySeq
    <2>2. NewTree \in [{<<>>} -> [son : Links, left : Links, right : Links]]
        BY <1>1, <1>2
    <2>3. QED BY <1>1, <2>1, <2>2 DEF IsForest
<1>4. Children(NewTree, <<>>) = {}
    BY <1>1 DEF Children
<1>5. HasRing(NewTree, <<>>)
    <2> DEFINE r == [j \in {} |-> 0]
    <2>1. 1 .. 0 = {} /\ r \in [1 .. 0 -> Children(NewTree, <<>>)]
        BY <1>4
    <2> HIDE DEF r
    <2>2. IsRing(NewTree, <<>>, r, 0)
        BY <2>1, <1>1, <1>2, <1>4 DEF IsRing
    <2>3. QED BY <2>2 DEF HasRing
<1>6. QED BY <1>1, <1>3, <1>5 DEF IsTree

\* A list of first vertices, and its tree.
SeededTree(i, c) == IF Seeds(i, c) = <<>> THEN Gone ELSE add_tree_level(NewTree, Seeds(i, c))

\* The leaves of a new pattern are the vertices of its colour, and so is its tree.
LEMMA SeedsAre ==
    ASSUME NEW i, NEW c, IsColoredGraph(m_graph_list[i])
    PROVE  /\ AreInOrder(added_nodes(Seeds(i, c)), 1)
           /\ \A x : x \in LeavesIn(added_nodes(Seeds(i, c))) <=>
                \E v \in Vertices(m_graph_list[i]) :
                    get_vertex_color(m_graph_list[i], v) = c /\ x = Append(<<>>, v)
           /\ IsTree(SeededTree(i, c))
           /\ DOMAIN SeededTree(i, c) = OnWay(LeavesIn(added_nodes(Seeds(i, c))))
<1> DEFINE g == m_graph_list[i]
           S == {v \in Vertices(g) : get_vertex_color(g, v) = c}
           a == Ascending(S)
           N == Len(a)
           s == Seeds(i, c)
           new == added_nodes(s)
<1>1. IsFiniteSet(S) /\ S \subseteq Nat
    <2>1. IsFiniteSet(Vertices(g)) /\ Vertices(g) \subseteq Nat /\ S \in SUBSET Vertices(g)
        BY VerticesAre
    <2> HIDE DEF S
    <2>2. QED BY <2>1, FS_Subset
<1>2. /\ a \in Seq(S)
      /\ \A k \in 1 .. Len(a) : a[k] \in S
      /\ \A j, k \in 1 .. Len(a) : a[j] = a[k] => j = k
      /\ \A x \in S : \E k \in 1 .. Len(a) : a[k] = x
    <2> HIDE DEF S
    <2>1. QED BY <1>1, AscendingIs
<1>3. DOMAIN a = 1 .. N /\ N \in Nat
    <2> HIDE DEF a, S
    <2>1. QED BY <1>2
<1>4. s = [k \in 1 .. N |-> <<a[k], <<>> >>]
    BY <1>3 DEF Seeds, find_initial_matches
<1> HIDE DEF a, s, N
<1>5. DOMAIN s = 1 .. N /\ Len(s) = N /\ \A k \in 1 .. N : s[k][1] = a[k] /\ s[k][2] = <<>>
    BY <1>3, <1>4
<1>6. new = [k \in 1 .. N |-> Append(<<>>, a[k])]
    BY <1>5 DEF added_nodes
<1> HIDE DEF new
<1>60. \A k \in 1 .. N : a[k] \in S /\ a[k] \in Nat
    BY <1>1, <1>2 DEF N
<1>61. <<>> \in Seq(Nat) /\ Len(<<>>) = 0
    BY EmptySeq
<1>7. ASSUME NEW k \in 1 .. N
      PROVE  /\ new[k] = Append(<<>>, a[k]) /\ new[k] \in Seq(Nat) /\ Len(new[k]) = 1
             /\ new[k] # <<>> /\ Front(new[k]) = <<>> /\ Last(new[k]) = a[k]
    <2>1. a[k] \in Nat /\ new[k] = Append(<<>>, a[k])
        BY <1>6, <1>60
    <2>2. /\ Append(<<>>, a[k]) \in Seq(Nat) /\ Append(<<>>, a[k]) # <<>>
          /\ Front(Append(<<>>, a[k])) = <<>> /\ Last(Append(<<>>, a[k])) = a[k]
          /\ Len(Append(<<>>, a[k])) = Len(<<>>) + 1
        BY <1>61, <2>1, NodeFacts
    <2>3. QED BY <2>1, <2>2, <1>61
<1>8. new \in Seq(Seq(Nat)) /\ Len(new) = N
    BY <1>3, <1>6, <1>7
<1>9. \A j, k \in 1 .. N : new[j] = new[k] => j = k
    <2>1. \A k \in 1 .. N : Last(new[k]) = a[k]
        BY <1>7
    <2>2. \A j, k \in 1 .. N : a[j] = a[k] => j = k
        BY <1>2 DEF N
    <2>3. QED BY <2>1, <2>2
<1>10. AreLeaves(new, 1)
    BY <1>7, <1>8, <1>9 DEF AreLeaves
<1>11. \A d \in 0 .. 1 : TogetherAt(new, d)
    <2>1. TogetherAt(new, 0)
        <3>1. \A k \in 1 .. N : get_node_by_depth(new[k], 0) = <<>>
            BY <1>7, DepthFacts
        <3>2. \A x, y \in 1 .. N : \A z \in x .. y : z \in 1 .. N
            BY <1>3
        <3>3. QED BY <3>1, <3>2, <1>8 DEF TogetherAt
    <2>2. TogetherAt(new, 1)
        <3>1. \A k \in 1 .. N : get_node_by_depth(new[k], 1) = new[k]
            BY <1>7, DepthFacts
        <3>2. \A x, y \in 1 .. N : x < y => x # y
            BY <1>3
        <3>3. QED BY <3>1, <3>2, <1>8, <1>9 DEF TogetherAt
    <2>3. QED BY <2>1, <2>2
<1>12. AreInOrder(new, 1)
    BY <1>10, <1>11 DEF AreInOrder
<1>13. ASSUME NEW x
       PROVE  x \in LeavesIn(new) <=> \E v \in S : x = Append(<<>>, v)
    <2>1. x \in LeavesIn(new) <=> \E k \in 1 .. N : x = Append(<<>>, a[k])
        BY <1>7, <1>8 DEF LeavesIn
    <2>2. \A v : v \in S <=> \E k \in 1 .. N : a[k] = v
        BY <1>2, <1>60 DEF N
    <2> HIDE DEF S
    <2>3. QED BY <2>1, <2>2
<1>14. CASE s = <<>>
    <2>1. N = 0 /\ 1 .. 0 = {}
        BY <1>5, <1>14, <1>61
    <2>2. LeavesIn(new) = {}
        BY <2>1, <1>8 DEF LeavesIn
    <2>3. SeededTree(i, c) = Gone
        BY <1>14 DEF SeededTree, s
    <2>4. QED BY <2>2, <2>3, <1>12, <1>13, GoneIsTree DEF s, new
<1>15. CASE s # <<>>
    <2>1. N # 0
        <3>1. s \in Seq({<<v, <<>> >> : v \in S})
            BY <1>3, <1>4, <1>60
        <3>2. QED BY <3>1, <1>5, <1>15, EmptySeq
    <2>2. CanGrow(NewTree, s)
        <3>1. \A k \in 1 .. N : /\ s[k][1] \in Nat /\ s[k][2] \in DOMAIN NewTree
                                /\ Append(s[k][2], s[k][1]) = new[k] /\ new[k] \notin DOMAIN NewTree
            BY <1>5, <1>7, <1>60, NewTreeIsTree
        <3>2. Len(s) = N /\ Len(s) \in Nat /\ DOMAIN s = 1 .. Len(s)
            BY <1>3, <1>5
        <3>3. \A j, k \in 1 .. N : Append(s[j][2], s[j][1]) = Append(s[k][2], s[k][1]) => j = k
            BY <3>1, <1>9
        <3>4. QED BY <3>1, <3>2, <3>3 DEF CanGrow
    <2>3. /\ IsTree(add_tree_level(NewTree, s))
          /\ DOMAIN add_tree_level(NewTree, s) = DOMAIN NewTree \cup Added(s, Len(s))
        BY <2>2, NewTreeIsTree, AddLevelIsTree
    <2>4. SeededTree(i, c) = add_tree_level(NewTree, s)
        BY <1>15 DEF SeededTree, s
    <2>5. Added(s, Len(s)) = LeavesIn(new)
        <3>1. \A k \in 1 .. N : Append(s[k][2], s[k][1]) = new[k]
            BY <1>5, <1>7
        <3>2. Len(s) = N /\ Len(new) = N
            BY <1>5, <1>8
        <3>3. QED BY <3>1, <3>2 DEF Added, LeavesIn
    <2>6. DOMAIN SeededTree(i, c) = {<<>>} \cup LeavesIn(new)
        BY <2>3, <2>4, <2>5, NewTreeIsTree
    <2>7. \A x \in LeavesIn(new) : x \in Seq(Nat) /\ Len(x) = 1
        BY <1>7, <1>8 DEF LeavesIn
    <2>8. OnWay(LeavesIn(new)) = {<<>>} \cup LeavesIn(new)
        <3>1. ASSUME NEW x \in LeavesIn(new), NEW d \in 0 .. Len(x)
              PROVE  get_node_by_depth(x, d) \in {<<>>} \cup LeavesIn(new)
            <4>0. x \in Seq(Nat) /\ Len(x) = 1
                BY <2>7
            <4>1. x \in Seq(Nat) /\ Len(x) = 1 /\ (d = 0 \/ d = 1)
                BY <4>0
            <4>2. get_node_by_depth(x, Len(x)) = x /\ (d = 0 => get_node_by_depth(x, d) = <<>>)
                BY <4>1, DepthFacts
            <4>3. QED BY <4>1, <4>2
        <3>2. ASSUME NEW x \in LeavesIn(new) PROVE x \in OnWay(LeavesIn(new)) /\ <<>> \in OnWay(LeavesIn(new))
            <4>1. x \in Seq(Nat) /\ Len(x) = 1
                BY <2>7
            <4>2. get_node_by_depth(x, 1) = x /\ get_node_by_depth(x, 0) = <<>> /\ 0 \in 0 .. Len(x) /\ 1 \in 0 .. Len(x)
                BY <4>1, DepthFacts
            <4>3. QED BY <4>2, OnWayIs
        <3>3. LeavesIn(new) # {}
            <4>1. 1 \in 1 .. N
                BY <2>1, <1>3
            <4>2. QED BY <4>1, <1>8 DEF LeavesIn
        <3>4. \A x \in OnWay(LeavesIn(new)) : x \in {<<>>} \cup LeavesIn(new)
            BY <3>1, OnWayIs
        <3>5. QED BY <3>2, <3>3, <3>4
    <2>9. QED BY <2>3, <2>4, <2>6, <2>8, <1>12, <1>13 DEF new, s
<1>16. QED BY <1>14, <1>15

-----------------------------------------------------------------------------
(* The pattern and its matches.                                            *)

\* A pattern of at least one vertex, directed or not as the list is.
IsPattern(p) ==
    /\ IsColoredGraph(p)
    /\ Vertices(p) # {}
    /\ p = [color |-> p.color, edges |-> p.edges, directed |-> is_directed]

\* What a vertex can be joined by.
IsKey(key) == key[2] \in Vertices(m_pattern) /\ key[3] \in BOOLEAN /\ (key[3] => is_directed)

\* No pattern has no vertex.
LEMMA PatternIsSome == ASSUME NEW p, IsPattern(p) PROVE p # NoPattern
<1>1. Vertices(NoPattern) = {}
    <2>1. NoPattern.color = <<>> /\ <<>> \in Seq({}) /\ Len(<<>>) = 0
        BY EmptySeq DEF NoPattern
    <2>2. QED BY <2>1 DEF Vertices
<1>2. QED BY <1>1 DEF IsPattern

\* The pattern with a vertex more is one.
LEMMA WithVertexIs ==
    ASSUME IsPattern(m_pattern), NEW key, IsKey(key)
    PROVE  LET n == vertex_count(m_pattern)
               q == WithVertex(key) IN
           /\ n \in Nat /\ n > 0 /\ Vertices(m_pattern) = 0 .. n - 1
           /\ IsPattern(q) /\ Vertices(q) = 0 .. n /\ vertex_count(q) = n + 1
           /\ \A v \in 0 .. n - 1 : get_vertex_color(q, v) = get_vertex_color(m_pattern, v)
           /\ get_vertex_color(q, n) = key[1]
           /\ \A u, w : is_edge(q, u, w) <=> \/ is_edge(m_pattern, u, w)
                                             \/ key[3] /\ u = n /\ w = key[2]
                                             \/ ~key[3] /\ u = key[2] /\ w = n
                                             \/ ~is_directed /\ u = n /\ w = key[2]
<1> DEFINE n == vertex_count(m_pattern)
           q == WithVertex(key)
           arc == IF key[3] THEN <<n, key[2]>> ELSE <<key[2], n>>
           back == IF is_directed THEN {} ELSE {<<arc[2], arc[1]>>}
<1>1. n \in Nat /\ Vertices(m_pattern) = 0 .. n - 1 /\ IsFiniteSet(Vertices(m_pattern))
    BY VerticesAre DEF IsPattern
<1>2. n > 0 /\ 0 .. n = (0 .. n - 1) \cup {n} /\ n \notin 0 .. n - 1 /\ n \in 0 .. n
    <2>1. 0 .. n - 1 # {}
        BY <1>1 DEF IsPattern
    <2> HIDE DEF n
    <2>2. QED BY <1>1, <2>1
<1>3. key[2] \in 0 .. n - 1 /\ key[3] \in BOOLEAN /\ (key[3] => is_directed)
    BY <1>1 DEF IsKey
<1>4. /\ q.color = [v \in 0 .. n |-> IF v = n THEN key[1] ELSE m_pattern.color[v]]
      /\ q.edges = m_pattern.edges \cup {arc} \cup back
      /\ q = [color |-> q.color, edges |-> q.edges, directed |-> is_directed]
    <2>1. PICK c, e : m_pattern = [color |-> c, edges |-> e, directed |-> is_directed]
        BY DEF IsPattern
    <2> DEFINE C == [v \in 0 .. n |-> IF v = n THEN key[1] ELSE m_pattern.color[v]]
               E == m_pattern.edges \cup {arc} \cup back
    <2>2. q = [m_pattern EXCEPT !.color = C, !.edges = E]
        BY DEF WithVertex
    <2> HIDE DEF C, E, q, arc, back, n
    <2>3. q = [color |-> C, edges |-> E, directed |-> is_directed]
        BY <2>1, <2>2
    <2>4. q.color = C /\ q.edges = E /\ q = [color |-> q.color, edges |-> q.edges, directed |-> is_directed]
        BY <2>3
    <2>5. QED BY <2>4 DEF C, E
<1> HIDE DEF q
<1>5. Vertices(q) = 0 .. n /\ \A v \in 0 .. n : q.color[v] = IF v = n THEN key[1] ELSE m_pattern.color[v]
    BY <1>4 DEF Vertices
<1> HIDE DEF n
<1>6. IsFiniteSet(Vertices(q)) /\ vertex_count(q) = n + 1
    <2>1. IsFiniteSet(0 .. n) /\ Cardinality(0 .. n) = n + 1
        BY <1>1, <1>2, FS_Interval
    <2>2. QED BY <2>1, <1>5 DEF vertex_count
<1>7. /\ \A v \in 0 .. n - 1 : get_vertex_color(q, v) = get_vertex_color(m_pattern, v)
      /\ get_vertex_color(q, n) = key[1]
    BY <1>2, <1>5 DEF get_vertex_color
<1>8. ASSUME NEW u, NEW w
      PROVE  is_edge(q, u, w) <=> \/ is_edge(m_pattern, u, w)
                                  \/ key[3] /\ u = n /\ w = key[2]
                                  \/ ~key[3] /\ u = key[2] /\ w = n
                                  \/ ~is_directed /\ u = n /\ w = key[2]
    <2>1. is_edge(q, u, w) <=> is_edge(m_pattern, u, w) \/ <<u, w>> = arc \/ <<u, w>> \in back
        BY <1>4 DEF is_edge
    <2>2. CASE key[3]
        <3>1. arc = <<n, key[2]>> /\ back = {}
            BY <2>2, <1>3
        <3>2. QED BY <2>1, <2>2, <3>1, <1>3
    <2>3. CASE ~key[3]
        <3>1. arc = <<key[2], n>>
            BY <2>3
        <3>2. <<u, w>> = arc <=> u = key[2] /\ w = n
            BY <3>1
        <3>3. CASE is_directed
            BY <2>1, <2>3, <3>2, <3>3
        <3>4. CASE ~is_directed
            <4>1. back = {<<n, key[2]>>}
                BY <3>1, <3>4
            <4>2. QED BY <2>1, <2>3, <3>2, <3>4, <4>1
        <3>5. QED BY <3>3, <3>4
    <2>4. QED BY <2>2, <2>3, <1>3
<1>9. IsColoredGraph(q)
    <2>1. Vertices(q) = 0 .. vertex_count(q) - 1
        BY <1>1, <1>5, <1>6
    <2>2. q.directed \in BOOLEAN /\ q.directed = is_directed
        <3>1. q.directed = is_directed
            BY <1>4
        <3>2. QED BY <3>1 DEF is_directed
    <2>3. ASSUME NEW e \in q.edges PROVE \E u, w \in Vertices(q) : u # w /\ e = <<u, w>>
        <3>1. CASE e \in m_pattern.edges
            <4>1. \E u, w \in Vertices(m_pattern) : u # w /\ e = <<u, w>>
                BY <3>1 DEF IsPattern, IsColoredGraph
            <4>2. QED BY <4>1, <1>1, <1>2, <1>5
        <3>2. CASE e = <<n, key[2]>> \/ e = <<key[2], n>>
            <4>1. n \in Vertices(q) /\ key[2] \in Vertices(q) /\ n # key[2]
                BY <1>2, <1>3, <1>5
            <4>2. QED BY <3>2, <4>1
        <3>3. e \in m_pattern.edges \/ e = <<n, key[2]>> \/ e = <<key[2], n>>
            BY <1>4
        <3>4. QED BY <3>1, <3>2, <3>3
    <2>4. ASSUME ~q.directed, NEW u \in Vertices(q), NEW w \in Vertices(q), is_edge(q, u, w)
          PROVE  is_edge(q, w, u)
        <3>1. ~is_directed /\ ~key[3]
            BY <2>2, <2>4, <1>3
        <3>2. CASE is_edge(m_pattern, u, w)
            <4>1. ~m_pattern.directed
                <5>1. m_pattern.directed = is_directed
                    BY DEF IsPattern
                <5>2. QED BY <3>1, <5>1
            <4>2. u \in Vertices(m_pattern) /\ w \in Vertices(m_pattern)
                <5>1. \E x, y \in Vertices(m_pattern) : x # y /\ <<u, w>> = <<x, y>>
                    BY <3>2 DEF IsPattern, IsColoredGraph, is_edge
                <5>2. QED BY <5>1
            <4>3. is_edge(m_pattern, w, u)
                BY <3>2, <4>1, <4>2 DEF IsPattern, IsColoredGraph
            <4>4. QED BY <4>3, <1>8
        <3>3. CASE ~is_edge(m_pattern, u, w)
            <4>1. (u = key[2] /\ w = n) \/ (u = n /\ w = key[2])
                BY <3>1, <3>3, <2>4, <1>8
            <4>2. QED BY <3>1, <4>1, <1>8
        <3>4. QED BY <3>2, <3>3
    <2>5. QED BY <2>1, <2>2, <2>3, <2>4, <1>6 DEF IsColoredGraph
<1>10. IsPattern(q)
    BY <1>2, <1>4, <1>5, <1>9 DEF IsPattern
<1>11. QED BY <1>1, <1>2, <1>5, <1>6, <1>7, <1>8, <1>10 DEF n, q

\* The images of the vertices of p in their order.
IsImage(s, p, g) ==
    /\ s \in Seq(Nat) /\ Len(s) = vertex_count(p)
    /\ \A j \in 1 .. Len(s) : /\ s[j] \in Vertices(g)
                              /\ get_vertex_color(g, s[j]) = get_vertex_color(p, j - 1)
    /\ \A j, k \in 1 .. Len(s) : s[j] = s[k] => j = k
    /\ \A j, k \in 1 .. Len(s) : is_edge(p, j - 1, k - 1) => is_edge(g, s[j], s[k])

\* A match, as the promise has it, is an image of the pattern.
LEMMA MatchIsImage ==
    ASSUME NEW p, IsColoredGraph(p), NEW g, IsColoredGraph(g), NEW s
    PROVE  s \in Promise!MatchesIn(p, g) <=> IsImage(s, p, g)
<1>1. Vertices(g) \subseteq Nat /\ vertex_count(p) \in Nat
    BY VerticesAre
<1>2. s \in [1 .. vertex_count(p) -> Vertices(g)] <=>
        s \in Seq(Nat) /\ Len(s) = vertex_count(p) /\ \A j \in 1 .. Len(s) : s[j] \in Vertices(g)
    <2> DEFINE n == vertex_count(p)
               V == Vertices(g)
    <2>1. n \in Nat /\ V \subseteq Nat
        BY <1>1
    <2> HIDE DEF n, V
    <2>2. ASSUME s \in [1 .. n -> V] PROVE s \in Seq(Nat) /\ Len(s) = n /\ \A j \in 1 .. Len(s) : s[j] \in V
        <3>1. s = [j \in 1 .. n |-> s[j]] /\ \A j \in 1 .. n : s[j] \in V
            BY <2>2
        <3>2. \A j \in 1 .. n : s[j] \in Nat
            BY <2>1, <3>1
        <3>3. s \in Seq(Nat) /\ Len(s) = n
            BY <2>1, <3>1, <3>2
        <3>4. QED BY <3>1, <3>3
    <2>3. ASSUME s \in Seq(Nat), Len(s) = n, \A j \in 1 .. Len(s) : s[j] \in V PROVE s \in [1 .. n -> V]
        BY <2>1, <2>3
    <2>4. QED BY <2>2, <2>3 DEF n, V
<1>3. s \in Promise!MatchesIn(p, g) <=> s \in [1 .. vertex_count(p) -> Vertices(g)] /\ Promise!IsMatch(s, p, g)
    <2>1. Promise!vertex_count(p) = vertex_count(p)
        BY DEF Promise!vertex_count, Promise!Vertices, Promise!Cardinality, vertex_count, Vertices, Cardinality
    <2>2. Promise!Vertices(g) = Vertices(g)
        BY DEF Promise!Vertices, Vertices
    <2>3. QED BY <2>1, <2>2 DEF Promise!MatchesIn
<1>4. ASSUME s \in Seq(Nat)
      PROVE  Promise!IsMatch(s, p, g) <=>
                /\ \A j \in 1 .. Len(s) : get_vertex_color(g, s[j]) = get_vertex_color(p, j - 1)
                /\ \A j, k \in 1 .. Len(s) : s[j] = s[k] => j = k
                /\ \A j, k \in 1 .. Len(s) : is_edge(p, j - 1, k - 1) => is_edge(g, s[j], s[k])
    <2>1. DOMAIN s = 1 .. Len(s)
        BY <1>4
    <2>2. QED BY <2>1 DEF Promise!IsMatch, Promise!get_vertex_color, Promise!is_edge, get_vertex_color, is_edge
<1>5. QED BY <1>2, <1>3, <1>4 DEF IsImage

\* A graph of the list is directed only if the list is.
LEMMA ListIsDirected == \A i \in Indexes : m_graph_list[i].directed => is_directed
BY DEF is_directed

\* Edges join vertices.
LEMMA EdgeEnds ==
    ASSUME NEW g, IsColoredGraph(g), NEW u, NEW w, is_edge(g, u, w)
    PROVE  u \in Vertices(g) /\ w \in Vertices(g) /\ u # w
           /\ (~g.directed => is_edge(g, w, u))
<1>1. \E x, y \in Vertices(g) : x # y /\ <<u, w>> = <<x, y>>
    BY DEF IsColoredGraph, is_edge
<1>2. u \in Vertices(g) /\ w \in Vertices(g) /\ u # w
    BY <1>1
<1>3. QED BY <1>2 DEF IsColoredGraph

\* A match with a vertex it can be extended with is a match of the larger pattern.
LEMMA ExtendedIsImage ==
    ASSUME IsPattern(m_pattern), NEW key, IsKey(key), NEW i \in Indexes, IsColoredGraph(m_graph_list[i]),
           NEW leaf, IsImage(leaf, m_pattern, m_graph_list[i]), NEW w \in OffPath(i, key, leaf)
    PROVE  IsImage(Append(leaf, w), WithVertex(key), m_graph_list[i])
<1> DEFINE g == m_graph_list[i]
           n == vertex_count(m_pattern)
           q == WithVertex(key)
           v == leaf[key[2] + 1]
           s == Append(leaf, w)
<1>1. /\ n \in Nat /\ n > 0 /\ Vertices(m_pattern) = 0 .. n - 1
      /\ IsPattern(q) /\ Vertices(q) = 0 .. n /\ vertex_count(q) = n + 1
      /\ \A x \in 0 .. n - 1 : get_vertex_color(q, x) = get_vertex_color(m_pattern, x)
      /\ get_vertex_color(q, n) = key[1]
      /\ \A x, y : is_edge(q, x, y) <=> \/ is_edge(m_pattern, x, y)
                                        \/ key[3] /\ x = n /\ y = key[2]
                                        \/ ~key[3] /\ x = key[2] /\ y = n
                                        \/ ~is_directed /\ x = n /\ y = key[2]
    BY WithVertexIs
<1>2. key[2] \in 0 .. n - 1 /\ key[3] \in BOOLEAN /\ (key[3] => is_directed)
    BY <1>1 DEF IsKey
<1>3. /\ w \in get_neighbours(g, v, key[3]) /\ get_vertex_color(g, w) = key[1]
      /\ w \notin path_vertices(leaf)
    BY DEF OffPath
<1>4. /\ w \in Vertices(g) /\ (key[3] => is_edge(g, w, v)) /\ (~key[3] => is_edge(g, v, w))
      /\ (~is_directed => is_edge(g, w, v))
    <2>1. w \in Vertices(g) /\ (key[3] => is_edge(g, w, v)) /\ (~key[3] => is_edge(g, v, w))
        BY <1>2, <1>3 DEF get_neighbours
    <2>2. ~is_directed => ~key[3] /\ ~g.directed
        BY <1>2, ListIsDirected
    <2>3. ~key[3] /\ ~g.directed => is_edge(g, w, v)
        BY <2>1, EdgeEnds
    <2>4. QED BY <2>1, <2>2, <2>3
<1>5. /\ leaf \in Seq(Nat) /\ Len(leaf) = n
      /\ \A j \in 1 .. n : leaf[j] \in Vertices(g) /\ get_vertex_color(g, leaf[j]) = get_vertex_color(m_pattern, j - 1)
      /\ \A j, k \in 1 .. n : leaf[j] = leaf[k] => j = k
      /\ \A j, k \in 1 .. n : is_edge(m_pattern, j - 1, k - 1) => is_edge(g, leaf[j], leaf[k])
    BY DEF IsImage
<1>6. Vertices(g) \subseteq Nat
    BY VerticesAre
<1>7. \A j \in 1 .. n : leaf[j] # w
    BY <1>3, <1>5 DEF path_vertices
<1> HIDE DEF n, q, g
<1>8. /\ s \in Seq(Nat) /\ Len(s) = n + 1 /\ s[n + 1] = w
      /\ \A j \in 1 .. n : s[j] = leaf[j]
    BY <1>4, <1>5, <1>6
<1>9. /\ \A j \in 1 .. n + 1 : j \in 1 .. n \/ j = n + 1
      /\ \A j \in 1 .. n : j - 1 \in 0 .. n - 1 /\ j # n + 1 /\ j - 1 # n
      /\ (n + 1) - 1 = n
    BY <1>1
<1> HIDE DEF s, v
<1>10. ASSUME NEW j \in 1 .. n + 1
       PROVE  s[j] \in Vertices(g) /\ get_vertex_color(g, s[j]) = get_vertex_color(q, j - 1)
    <2>1. CASE j \in 1 .. n
        BY <2>1, <1>1, <1>5, <1>8, <1>9
    <2>2. CASE j = n + 1
        BY <2>2, <1>1, <1>3, <1>4, <1>8, <1>9
    <2>3. QED BY <2>1, <2>2, <1>9
<1>11. ASSUME NEW j \in 1 .. n + 1, NEW k \in 1 .. n + 1, s[j] = s[k] PROVE j = k
    <2>1. CASE j \in 1 .. n /\ k \in 1 .. n
        BY <2>1, <1>5, <1>8, <1>11
    <2>2. CASE j \in 1 .. n /\ k = n + 1
        BY <2>2, <1>7, <1>8, <1>11
    <2>3. CASE j = n + 1 /\ k \in 1 .. n
        BY <2>3, <1>7, <1>8, <1>11
    <2>4. QED BY <2>1, <2>2, <2>3, <1>9
<1>12. ASSUME NEW j \in 1 .. n + 1, NEW k \in 1 .. n + 1, is_edge(q, j - 1, k - 1)
       PROVE  is_edge(g, s[j], s[k])
    <2>1. CASE is_edge(m_pattern, j - 1, k - 1)
        <3>1. j - 1 \in 0 .. n - 1 /\ k - 1 \in 0 .. n - 1
            BY <2>1, <1>1, EdgeEnds DEF IsPattern
        <3>2. j \in 1 .. n /\ k \in 1 .. n
            BY <3>1, <1>1
        <3>3. QED BY <2>1, <3>2, <1>5, <1>8
    <2>2. CASE j - 1 = n /\ k - 1 = key[2]
        <3>1. j = n + 1 /\ k = key[2] + 1 /\ k \in 1 .. n
            BY <2>2, <1>1, <1>2
        <3>2. s[j] = w /\ s[k] = v
            BY <3>1, <1>8 DEF v
        <3>3. key[3] \/ ~is_directed
            <4>1. ~(j - 1 = key[2])
                BY <2>2, <1>1, <1>2
            <4>2. ~is_edge(m_pattern, j - 1, k - 1)
                <5>1. n \notin 0 .. n - 1
                    BY <1>1
                <5>2. QED BY <2>2, <5>1, <1>1, EdgeEnds DEF IsPattern
            <4>3. QED BY <4>1, <4>2, <1>1, <1>12
        <3>4. QED BY <3>2, <3>3, <1>4
    <2>3. CASE ~key[3] /\ j - 1 = key[2] /\ k - 1 = n
        <3>1. k = n + 1 /\ j = key[2] + 1 /\ j \in 1 .. n
            BY <2>3, <1>1, <1>2
        <3>2. s[k] = w /\ s[j] = v
            BY <3>1, <1>8 DEF v
        <3>3. QED BY <2>3, <3>2, <1>4
    <2>4. QED BY <2>1, <2>2, <2>3, <1>1, <1>12
<1>13. IsImage(s, q, g)
    BY <1>1, <1>8, <1>10, <1>11, <1>12 DEF IsImage
<1>14. QED BY <1>13 DEF s, q, g

\* A match of the larger pattern is a match with a vertex it can be extended with.
LEMMA ImageIsExtended ==
    ASSUME IsPattern(m_pattern), NEW key, IsKey(key), NEW i \in Indexes, IsColoredGraph(m_graph_list[i]),
           NEW s, IsImage(s, WithVertex(key), m_graph_list[i])
    PROVE  /\ IsImage(Front(s), m_pattern, m_graph_list[i])
           /\ Last(s) \in OffPath(i, key, Front(s))
           /\ s = Append(Front(s), Last(s))
<1> DEFINE g == m_graph_list[i]
           n == vertex_count(m_pattern)
           q == WithVertex(key)
           leaf == Front(s)
           w == Last(s)
<1>1. /\ n \in Nat /\ n > 0 /\ Vertices(m_pattern) = 0 .. n - 1
      /\ IsPattern(q) /\ Vertices(q) = 0 .. n /\ vertex_count(q) = n + 1
      /\ \A x \in 0 .. n - 1 : get_vertex_color(q, x) = get_vertex_color(m_pattern, x)
      /\ get_vertex_color(q, n) = key[1]
      /\ \A x, y : is_edge(q, x, y) <=> \/ is_edge(m_pattern, x, y)
                                        \/ key[3] /\ x = n /\ y = key[2]
                                        \/ ~key[3] /\ x = key[2] /\ y = n
                                        \/ ~is_directed /\ x = n /\ y = key[2]
    BY WithVertexIs
<1>2. key[2] \in 0 .. n - 1 /\ key[3] \in BOOLEAN /\ (key[3] => is_directed)
    BY <1>1 DEF IsKey
<1>3. /\ s \in Seq(Nat) /\ Len(s) = n + 1
      /\ \A j \in 1 .. n + 1 : s[j] \in Vertices(g) /\ get_vertex_color(g, s[j]) = get_vertex_color(q, j - 1)
      /\ \A j, k \in 1 .. n + 1 : s[j] = s[k] => j = k
      /\ \A j, k \in 1 .. n + 1 : is_edge(q, j - 1, k - 1) => is_edge(g, s[j], s[k])
    BY <1>1 DEF IsImage
<1> HIDE DEF n, q, g
<1>4. s # <<>>
    BY <1>1, <1>3, EmptySeq
<1>5. leaf \in Seq(Nat) /\ Len(leaf) = n /\ s = Append(leaf, w)
    <2>1. leaf \in Seq(Nat) /\ Len(leaf) = Len(s) - 1 /\ s = Append(leaf, w)
        BY <1>3, <1>4, NodeFacts
    <2>2. QED BY <2>1, <1>1, <1>3
<1>6. w = s[n + 1]
    BY <1>3 DEF Last
<1> HIDE DEF leaf, w
<1>7. \A j \in 1 .. n : s[j] = leaf[j]
    <2>0. w \in Nat
        <3>1. n + 1 \in 1 .. n + 1 /\ DOMAIN s = 1 .. n + 1
            BY <1>1, <1>3
        <3>2. QED BY <3>1, <1>3, <1>6
    <2>1. QED BY <2>0, <1>5
<1>8. /\ \A j \in 1 .. n : j \in 1 .. n + 1 /\ j # n + 1 /\ j - 1 \in 0 .. n - 1
      /\ n + 1 \in 1 .. n + 1 /\ (n + 1) - 1 = n
      /\ key[2] + 1 \in 1 .. n /\ (key[2] + 1) - 1 = key[2]
    BY <1>1, <1>2
<1>9. IsImage(leaf, m_pattern, g)
    <2>1. \A j \in 1 .. n : leaf[j] \in Vertices(g) /\ get_vertex_color(g, leaf[j]) = get_vertex_color(m_pattern, j - 1)
        <3>1. \A j \in 1 .. n : leaf[j] = s[j] /\ j \in 1 .. n + 1 /\ get_vertex_color(q, j - 1) = get_vertex_color(m_pattern, j - 1)
            BY <1>1, <1>7, <1>8
        <3>2. QED BY <3>1, <1>3
    <2>2. \A j, k \in 1 .. n : leaf[j] = leaf[k] => j = k
        BY <1>3, <1>7, <1>8
    <2>3. \A j, k \in 1 .. n : is_edge(m_pattern, j - 1, k - 1) => is_edge(g, leaf[j], leaf[k])
        <3>1. \A j, k \in 1 .. n : is_edge(m_pattern, j - 1, k - 1) => is_edge(q, j - 1, k - 1)
            BY <1>1
        <3>2. \A j \in 1 .. n : leaf[j] = s[j] /\ j \in 1 .. n + 1
            BY <1>7, <1>8
        <3>3. QED BY <3>1, <3>2, <1>3
    <2>4. Len(leaf) = vertex_count(m_pattern)
        BY <1>5 DEF n
    <2>5. \A j : j \in 1 .. Len(leaf) <=> j \in 1 .. n
        BY <1>5
    <2>6. QED BY <2>1, <2>2, <2>3, <2>4, <2>5, <1>5 DEF IsImage
<1>10. w \in OffPath(i, key, leaf)
    <2>1. w \in Vertices(g) /\ get_vertex_color(g, w) = key[1]
        BY <1>1, <1>3, <1>6, <1>8
    <2>2. w \notin path_vertices(leaf)
        <3>1. \A j \in 1 .. n : leaf[j] # w
            BY <1>3, <1>6, <1>7, <1>8
        <3>2. DOMAIN leaf = 1 .. n
            BY <1>5
        <3>3. QED BY <3>1, <3>2 DEF path_vertices
    <2>3. s[key[2] + 1] = leaf[key[2] + 1]
        BY <1>7, <1>8
    <2>4. w \in get_neighbours(g, leaf[key[2] + 1], key[3])
        <3>1. CASE key[3]
            <4>1. is_edge(q, (n + 1) - 1, (key[2] + 1) - 1)
                BY <3>1, <1>1, <1>8
            <4>2. is_edge(g, s[n + 1], s[key[2] + 1])
                BY <4>1, <1>3, <1>8
            <4>3. QED BY <3>1, <4>2, <2>1, <2>3, <1>6 DEF get_neighbours
        <3>2. CASE ~key[3]
            <4>1. is_edge(q, (key[2] + 1) - 1, (n + 1) - 1)
                BY <3>2, <1>1, <1>8
            <4>2. is_edge(g, s[key[2] + 1], s[n + 1])
                BY <4>1, <1>3, <1>8
            <4>3. QED BY <3>2, <4>2, <2>1, <2>3, <1>6 DEF get_neighbours
        <3>3. QED BY <3>1, <3>2
    <2>5. QED BY <2>1, <2>2, <2>4 DEF OffPath, g
<1>11. QED BY <1>5, <1>9, <1>10 DEF leaf, w, g

\* The pattern with an edge more, as apply_edge_and_prune makes it.
WithEdge(pair) ==
    [m_pattern EXCEPT !.edges = @ \cup {pair} \cup IF is_directed THEN {} ELSE {<<pair[2], pair[1]>>}]

IsPair(pair) == pair \in Vertices(m_pattern) \X Vertices(m_pattern) /\ pair[1] # pair[2]

\* The pattern with an edge more is one.
LEMMA WithEdgeIs ==
    ASSUME IsPattern(m_pattern), NEW pair, IsPair(pair)
    PROVE  LET q == WithEdge(pair) IN
           /\ IsPattern(q) /\ Vertices(q) = Vertices(m_pattern) /\ vertex_count(q) = vertex_count(m_pattern)
           /\ \A v : get_vertex_color(q, v) = get_vertex_color(m_pattern, v)
           /\ \A u, w : is_edge(q, u, w) <=> \/ is_edge(m_pattern, u, w)
                                             \/ u = pair[1] /\ w = pair[2]
                                             \/ ~is_directed /\ u = pair[2] /\ w = pair[1]
<1> DEFINE q == WithEdge(pair)
           back == IF is_directed THEN {} ELSE {<<pair[2], pair[1]>>}
<1>1. /\ q.color = m_pattern.color
      /\ q.edges = m_pattern.edges \cup {pair} \cup back
      /\ q = [color |-> q.color, edges |-> q.edges, directed |-> is_directed]
    <2>1. PICK c, e : m_pattern = [color |-> c, edges |-> e, directed |-> is_directed]
        BY DEF IsPattern
    <2>2. q = [m_pattern EXCEPT !.edges = @ \cup {pair} \cup back]
        BY DEF WithEdge
    <2> HIDE DEF q, back
    <2>3. q = [color |-> c, edges |-> e \cup {pair} \cup back, directed |-> is_directed]
        BY <2>1, <2>2
    <2>4. m_pattern.edges = e /\ m_pattern.color = c
        BY <2>1
    <2>5. QED BY <2>3, <2>4
<1> HIDE DEF q
<1>2. /\ pair[1] \in Vertices(m_pattern) /\ pair[2] \in Vertices(m_pattern)
      /\ pair[1] # pair[2] /\ pair = <<pair[1], pair[2]>>
    BY DEF IsPair
<1>3. Vertices(q) = Vertices(m_pattern) /\ vertex_count(q) = vertex_count(m_pattern)
    BY <1>1 DEF Vertices, vertex_count
<1>4. \A v : get_vertex_color(q, v) = get_vertex_color(m_pattern, v)
    BY <1>1 DEF get_vertex_color
<1>5. ASSUME NEW u, NEW w
      PROVE  is_edge(q, u, w) <=> \/ is_edge(m_pattern, u, w)
                                  \/ u = pair[1] /\ w = pair[2]
                                  \/ ~is_directed /\ u = pair[2] /\ w = pair[1]
    <2>1. is_edge(q, u, w) <=> is_edge(m_pattern, u, w) \/ <<u, w>> = pair \/ <<u, w>> \in back
        BY <1>1 DEF is_edge
    <2>2. <<u, w>> = pair <=> u = pair[1] /\ w = pair[2]
        BY <1>2
    <2>3. CASE is_directed
        BY <2>1, <2>2, <2>3
    <2>4. CASE ~is_directed
        BY <2>1, <2>2, <2>4
    <2>5. QED BY <2>3, <2>4
<1>6. IsColoredGraph(q)
    <2>1. IsFiniteSet(Vertices(q)) /\ Vertices(q) = 0 .. vertex_count(q) - 1
        BY <1>3 DEF IsPattern, IsColoredGraph
    <2>2. q.directed \in BOOLEAN /\ q.directed = is_directed
        <3>1. q.directed = is_directed
            BY <1>1
        <3>2. QED BY <3>1 DEF is_directed
    <2>3. ASSUME NEW e \in q.edges PROVE \E u, w \in Vertices(q) : u # w /\ e = <<u, w>>
        <3>1. CASE e \in m_pattern.edges
            BY <3>1, <1>3 DEF IsPattern, IsColoredGraph
        <3>2. CASE e = <<pair[1], pair[2]>> \/ e = <<pair[2], pair[1]>>
            BY <3>2, <1>2, <1>3
        <3>3. e \in m_pattern.edges \/ e = <<pair[1], pair[2]>> \/ e = <<pair[2], pair[1]>>
            BY <1>1, <1>2
        <3>4. QED BY <3>1, <3>2, <3>3
    <2>4. ASSUME ~q.directed, NEW u \in Vertices(q), NEW w \in Vertices(q), is_edge(q, u, w)
          PROVE  is_edge(q, w, u)
        <3>1. ~is_directed
            BY <2>2, <2>4
        <3>2. CASE is_edge(m_pattern, u, w)
            <4>1. m_pattern.directed = is_directed
                BY DEF IsPattern
            <4>2. is_edge(m_pattern, w, u)
                BY <3>1, <3>2, <4>1, EdgeEnds DEF IsPattern
            <4>3. QED BY <4>2, <1>5
        <3>3. CASE ~is_edge(m_pattern, u, w)
            BY <3>1, <3>3, <2>4, <1>5
        <3>4. QED BY <3>2, <3>3
    <2>5. QED BY <2>1, <2>2, <2>3, <2>4 DEF IsColoredGraph
<1>7. IsPattern(q)
    BY <1>1, <1>3, <1>6 DEF IsPattern
<1>8. QED BY <1>3, <1>4, <1>5, <1>7 DEF q

\* The matches of the pattern with an edge more are those that have the edge.
LEMMA EdgeMatches ==
    ASSUME IsPattern(m_pattern), NEW pair, IsPair(pair), NEW i \in Indexes, IsColoredGraph(m_graph_list[i]), NEW s
    PROVE  IsImage(s, WithEdge(pair), m_graph_list[i]) <=>
                IsImage(s, m_pattern, m_graph_list[i]) /\ supports(i, s, pair)
<1> DEFINE g == m_graph_list[i]
           n == vertex_count(m_pattern)
           q == WithEdge(pair)
           a == pair[1]
           b == pair[2]
<1>1. /\ vertex_count(q) = n
      /\ \A v : get_vertex_color(q, v) = get_vertex_color(m_pattern, v)
      /\ \A u, w : is_edge(q, u, w) <=> \/ is_edge(m_pattern, u, w)
                                        \/ u = a /\ w = b
                                        \/ ~is_directed /\ u = b /\ w = a
    BY WithEdgeIs
<1>2. n \in Nat /\ Vertices(m_pattern) = 0 .. n - 1
    BY VerticesAre DEF IsPattern
<1>3. a \in 0 .. n - 1 /\ b \in 0 .. n - 1
    BY <1>2 DEF IsPair
<1> HIDE DEF n, q, a, b
<1>4. a + 1 \in 1 .. n /\ b + 1 \in 1 .. n /\ (a + 1) - 1 = a /\ (b + 1) - 1 = b
    BY <1>2, <1>3
<1>5. supports(i, s, pair) <=> is_edge(g, s[a + 1], s[b + 1])
    BY DEF supports, a, b
<1>6. ~is_directed => ~g.directed
    BY ListIsDirected
<1> HIDE DEF g
<1>7. ASSUME IsImage(s, q, g) PROVE IsImage(s, m_pattern, g) /\ supports(i, s, pair)
    <2>1. Len(s) = n
        BY <1>1, <1>7 DEF IsImage
    <2>2. IsImage(s, m_pattern, g)
        BY <1>1, <1>7 DEF IsImage, n
    <2>3. is_edge(q, (a + 1) - 1, (b + 1) - 1)
        BY <1>1, <1>4
    <2>4. is_edge(g, s[a + 1], s[b + 1])
        BY <2>1, <2>3, <1>4, <1>7 DEF IsImage
    <2>5. QED BY <2>2, <2>4, <1>5
<1>8. ASSUME IsImage(s, m_pattern, g), supports(i, s, pair) PROVE IsImage(s, q, g)
    <2>1. Len(s) = n
        BY <1>8 DEF IsImage, n
    <2>2. is_edge(g, s[a + 1], s[b + 1]) /\ (~is_directed => is_edge(g, s[b + 1], s[a + 1]))
        <3>1. IsColoredGraph(g)
            BY DEF g
        <3>2. QED BY <3>1, <1>5, <1>6, <1>8, EdgeEnds
    <2>3. ASSUME NEW j \in 1 .. n, NEW k \in 1 .. n, is_edge(q, j - 1, k - 1)
          PROVE  is_edge(g, s[j], s[k])
        <3>1. CASE is_edge(m_pattern, j - 1, k - 1)
            BY <3>1, <2>1, <1>8 DEF IsImage
        <3>2. CASE j - 1 = a /\ k - 1 = b
            <4>1. j = a + 1 /\ k = b + 1
                BY <3>2, <1>2
            <4>2. QED BY <4>1, <2>2
        <3>3. CASE ~is_directed /\ j - 1 = b /\ k - 1 = a
            <4>1. j = b + 1 /\ k = a + 1
                BY <3>3, <1>2
            <4>2. QED BY <4>1, <3>3, <2>2
        <3>4. QED BY <3>1, <3>2, <3>3, <2>3, <1>1
    <2>4. QED BY <2>1, <2>3, <1>1, <1>8 DEF IsImage, n
<1>9. QED BY <1>7, <1>8 DEF q, g

-----------------------------------------------------------------------------
(* One graph: its leaves are the matches, its tree is the tree of them.    *)

IsTreeOfMatches(g, p, leaves, t) ==
    /\ AreInOrder(leaves, vertex_count(p))
    /\ \A s : s \in LeavesIn(leaves) <=> IsImage(s, p, g)
    /\ IsTree(t)
    /\ DOMAIN t = OnWay(LeavesIn(leaves))

\* A tree is empty exactly if the pattern has no match.
LEMMA EmptyHasNoMatch ==
    ASSUME NEW g, NEW p, NEW leaves, NEW t, IsTreeOfMatches(g, p, leaves, t)
    PROVE  /\ is_empty(t) <=> LeavesIn(leaves) = {}
           /\ is_empty(t) <=> \A s : ~IsImage(s, p, g)
           /\ is_empty(t) => leaves = <<>> /\ Len(leaves) = 0 /\ 1 .. Len(leaves) = {}
<1>1. leaves \in Seq(Seq(Nat))
    BY DEF IsTreeOfMatches, AreInOrder, AreLeaves
<1>2. \A x \in LeavesIn(leaves) : x \in Seq(Nat)
    BY <1>1 DEF LeavesIn
<1>3. \A x \in LeavesIn(leaves) : get_node_by_depth(x, 0) \in OnWay(LeavesIn(leaves))
    <2>1. \A x \in Seq(Nat) : 0 \in 0 .. Len(x)
        OBVIOUS
    <2>2. QED BY <2>1, <1>2, OnWayIs
<1>4. LeavesIn(leaves) = {} => OnWay(LeavesIn(leaves)) = {}
    BY OnWayIs
<1>5. is_empty(t) <=> LeavesIn(leaves) = {}
    BY <1>3, <1>4 DEF is_empty, IsTreeOfMatches
<1>6. LeavesIn(leaves) = {} => Len(leaves) = 0
    <2>1. Len(leaves) \in Nat
        BY <1>1
    <2>2. Len(leaves) # 0 => 1 \in 1 .. Len(leaves)
        BY <2>1
    <2>3. QED BY <2>2 DEF LeavesIn
<1>7. Len(leaves) = 0 => leaves = <<>> /\ 1 .. Len(leaves) = {}
    BY <1>1, EmptySeq
<1>8. QED BY <1>5, <1>6, <1>7 DEF IsTreeOfMatches

\* No leaves are in order at any depth.
LEMMA NoneAreInOrder ==
    ASSUME NEW leaves, leaves = <<>>, NEW n \in Nat
    PROVE  AreInOrder(leaves, n)
<1>1. leaves \in Seq(Seq(Nat)) /\ Len(leaves) = 0 /\ 1 .. Len(leaves) = {}
    BY EmptySeq
<1>2. AreLeaves(leaves, n)
    BY <1>1 DEF AreLeaves
<1>3. \A d \in 0 .. n : TogetherAt(leaves, d)
    BY <1>1 DEF TogetherAt
<1>4. QED BY <1>2, <1>3 DEF AreInOrder

OneVertexIs(c) ==
    /\ IsPattern(OneVertex(c)) /\ vertex_count(OneVertex(c)) = 1
    /\ Vertices(OneVertex(c)) = {0} /\ get_vertex_color(OneVertex(c), 0) = c
    /\ \A u, w : ~is_edge(OneVertex(c), u, w)

\* The first pattern.
LEMMA FirstPattern == ASSUME NEW c PROVE OneVertexIs(c)
<1> DEFINE q == OneVertex(c)
<1>1. q = [color |-> [v \in {0} |-> c], edges |-> {}, directed |-> is_directed]
    BY DEF OneVertex
<1> HIDE DEF q
<1>2. /\ q.color = [v \in {0} |-> c] /\ q.edges = {} /\ q.directed = is_directed
      /\ q = [color |-> q.color, edges |-> q.edges, directed |-> is_directed]
    BY <1>1
<1>3. Vertices(q) = {0} /\ get_vertex_color(q, 0) = c /\ \A u, w : ~is_edge(q, u, w)
    BY <1>2 DEF Vertices, get_vertex_color, is_edge
<1>4. IsFiniteSet(Vertices(q)) /\ vertex_count(q) = 1
    BY <1>3, FS_Singleton DEF vertex_count
<1>5. Vertices(q) = 0 .. vertex_count(q) - 1
    BY <1>3, <1>4
<1>6. is_directed \in BOOLEAN
    BY DEF is_directed
<1>7. IsColoredGraph(q)
    BY <1>2, <1>3, <1>4, <1>5, <1>6 DEF IsColoredGraph
<1>8. IsPattern(q)
    BY <1>2, <1>3, <1>7 DEF IsPattern
<1>9. QED BY <1>3, <1>4, <1>8 DEF OneVertexIs, q

\* find_initial_matches and the first level of the tree.
LEMMA FirstTree ==
    ASSUME NEW i, NEW c, IsColoredGraph(m_graph_list[i])
    PROVE  IsTreeOfMatches(m_graph_list[i], OneVertex(c), added_nodes(Seeds(i, c)), SeededTree(i, c))
<1> DEFINE g == m_graph_list[i]
           q == OneVertex(c)
           new == added_nodes(Seeds(i, c))
<1>1. /\ AreInOrder(new, 1)
      /\ \A x : x \in LeavesIn(new) <=>
            \E v \in Vertices(g) : get_vertex_color(g, v) = c /\ x = Append(<<>>, v)
      /\ IsTree(SeededTree(i, c))
      /\ DOMAIN SeededTree(i, c) = OnWay(LeavesIn(new))
    BY SeedsAre
<1>2. /\ vertex_count(q) = 1 /\ get_vertex_color(q, 0) = c
      /\ \A u, w : ~is_edge(q, u, w)
    BY FirstPattern DEF OneVertexIs
<1>3. Vertices(g) \subseteq Nat
    BY VerticesAre
<1> HIDE DEF g, q, new
<1>4. ASSUME NEW v \in Vertices(g), get_vertex_color(g, v) = c PROVE IsImage(Append(<<>>, v), q, g)
    <2> DEFINE s == Append(<<>>, v)
    <2>1. v \in Nat /\ <<>> \in Seq(Nat) /\ Len(<<>>) = 0
        BY <1>3, EmptySeq
    <2>2. s \in Seq(Nat) /\ Len(s) = 1 /\ s[1] = v
        BY <2>1
    <2>3. \A j \in 1 .. Len(s) : j = 1 /\ j - 1 = 0
        BY <2>2
    <2> HIDE DEF s
    <2>4. QED BY <2>2, <2>3, <1>2, <1>4 DEF IsImage, s
<1>5. ASSUME NEW s, IsImage(s, q, g)
      PROVE  s[1] \in Vertices(g) /\ get_vertex_color(g, s[1]) = c /\ s = Append(<<>>, s[1])
    <2>1. s \in Seq(Nat) /\ Len(s) = 1
        BY <1>2, <1>5 DEF IsImage
    <2>2. 1 \in 1 .. Len(s) /\ 1 - 1 = 0
        BY <2>1
    <2>3. s[1] \in Vertices(g) /\ get_vertex_color(g, s[1]) = get_vertex_color(q, 1 - 1)
        BY <2>2, <1>5 DEF IsImage
    <2>4. s = Append(<<>>, s[1])
        <3>1. s[1] \in Nat /\ <<>> \in Seq(Nat) /\ Len(<<>>) = 0
            BY <2>1, <2>2, EmptySeq
        <3>2. Append(<<>>, s[1]) \in Seq(Nat) /\ Len(Append(<<>>, s[1])) = 1 /\ Append(<<>>, s[1])[1] = s[1]
            BY <3>1
        <3>3. \A j \in 1 .. 1 : s[j] = Append(<<>>, s[1])[j]
            BY <3>2
        <3>4. QED BY <2>1, <3>2, <3>3, SeqEqual
    <2>5. QED BY <2>2, <2>3, <2>4, <1>2
<1>6. \A x : x \in LeavesIn(new) <=> IsImage(x, q, g)
    <2>1. ASSUME NEW x, x \in LeavesIn(new) PROVE IsImage(x, q, g)
        <3>1. PICK v \in Vertices(g) : get_vertex_color(g, v) = c /\ x = Append(<<>>, v)
            BY <2>1, <1>1
        <3>2. QED BY <3>1, <1>4
    <2>2. ASSUME NEW x, IsImage(x, q, g) PROVE x \in LeavesIn(new)
        BY <2>2, <1>1, <1>5
    <2>3. QED BY <2>1, <2>2
<1>7. QED BY <1>1, <1>2, <1>6 DEF IsTreeOfMatches, g, q, new

\* extend_pattern_at_node_find_matches_in_s, for one graph.
LEMMA ExtendedTree ==
    ASSUME IsPattern(m_pattern), NEW key, IsKey(key), NEW i \in Indexes, IsColoredGraph(m_graph_list[i]),
           IsTreeOfMatches(m_graph_list[i], m_pattern, leaf_matches[i], m_match_trees[i])
    PROVE  LET pairs == collect_extension_candidates(i, key) IN
           IF is_empty(m_match_trees[i])
           THEN IsTreeOfMatches(m_graph_list[i], WithVertex(key), leaf_matches[i], m_match_trees[i])
           ELSE IsTreeOfMatches(m_graph_list[i], WithVertex(key), added_nodes(pairs),
                                update_tree_after_extension(m_match_trees[i], leaf_matches[i], pairs))
<1> DEFINE g == m_graph_list[i]
           n == vertex_count(m_pattern)
           q == WithVertex(key)
           leaves == leaf_matches[i]
           t == m_match_trees[i]
           pairs == collect_extension_candidates(i, key)
<1>1. n \in Nat /\ IsPattern(q) /\ vertex_count(q) = n + 1
    BY WithVertexIs
<1>2. /\ AreInOrder(leaves, n)
      /\ \A s : s \in LeavesIn(leaves) <=> IsImage(s, m_pattern, g)
      /\ IsTree(t) /\ DOMAIN t = OnWay(LeavesIn(leaves))
    BY DEF IsTreeOfMatches
<1>3. AreLeaves(leaves, n) /\ leaves \in Seq(Seq(Nat))
    BY <1>2 DEF AreInOrder, AreLeaves
<1>4. \A s : IsImage(s, q, g) <=> ExtendsOne(s, i, key)
    <2>1. ASSUME NEW s, IsImage(s, q, g)
          PROVE  \E leaf \in LeavesIn(leaves) : \E w \in OffPath(i, key, leaf) : s = Append(leaf, w)
        <3>1. /\ IsImage(Front(s), m_pattern, g) /\ Last(s) \in OffPath(i, key, Front(s))
              /\ s = Append(Front(s), Last(s))
            BY <2>1, ImageIsExtended
        <3>2. Front(s) \in LeavesIn(leaves)
            BY <3>1, <1>2
        <3>3. QED BY <3>1, <3>2
    <2>2. ASSUME NEW leaf \in LeavesIn(leaves), NEW w \in OffPath(i, key, leaf)
          PROVE  IsImage(Append(leaf, w), q, g)
        <3>1. IsImage(leaf, m_pattern, g)
            BY <1>2
        <3>2. QED BY <3>1, ExtendedIsImage
    <2>3. QED BY <2>1, <2>2 DEF ExtendsOne
<1>5. CASE is_empty(t)
    <2>1. leaves = <<>> /\ LeavesIn(leaves) = {}
        BY <1>5, EmptyHasNoMatch
    <2>2. n + 1 \in Nat
        BY <1>1
    <2>3. AreInOrder(leaves, vertex_count(q))
        BY <2>1, <2>2, <1>1, NoneAreInOrder
    <2>4. \A s : s \in LeavesIn(leaves) <=> IsImage(s, q, g)
        BY <2>1, <1>4 DEF ExtendsOne
    <2>5. IsTreeOfMatches(g, q, leaves, t)
        BY <2>3, <2>4, <1>2 DEF IsTreeOfMatches
    <2>6. QED BY <2>5, <1>5
<1>6. CASE ~is_empty(t)
    <2>1. PICK b : IsExtension(i, key, pairs, b)
        BY <1>3, CandidatesAre
    <2> HIDE DEF pairs
    <2>2. /\ AreInOrder(added_nodes(pairs), n + 1)
          /\ LeavesIn(added_nodes(pairs)) = Added(pairs, Len(pairs))
          /\ \A x : x \in LeavesIn(added_nodes(pairs)) <=> ExtendsOne(x, i, key)
        <3>1. AreInOrder(leaf_matches[i], n)
            BY <1>2
        <3> HIDE DEF n, g
        <3>2. AreInOrder(added_nodes(pairs), n + 1)
            BY <2>1, <3>1, NewLeavesAre
        <3>3. LeavesIn(added_nodes(pairs)) = Added(pairs, Len(pairs))
            BY <2>1, <3>1, NewLeavesAre
        <3>4. ASSUME NEW x
              PROVE  x \in LeavesIn(added_nodes(pairs)) <=> ExtendsOne(x, i, key)
            BY <2>1, <3>1, NewLeavesAre
        <3>5. QED BY <3>2, <3>3, <3>4
    <2>3. CanExtend(leaves, pairs, n)
        BY <2>1, <1>3, ExtensionFits
    <2>4. DOMAIN t = OnWay({leaves[j] : j \in 1 .. Len(leaves)})
        BY <1>2 DEF LeavesIn
    <2> HIDE DEF leaves, t, n
    <2>5. /\ IsTree(update_tree_after_extension(t, leaves, pairs))
          /\ DOMAIN update_tree_after_extension(t, leaves, pairs) = OnWay(Added(pairs, Len(pairs)))
        BY <2>3, <2>4, <1>2, ExtensionIsTree
    <2>6. IsTreeOfMatches(g, q, added_nodes(pairs), update_tree_after_extension(t, leaves, pairs))
        BY <2>2, <2>5, <1>1, <1>4 DEF IsTreeOfMatches
    <2>7. QED BY <2>6, <1>6 DEF pairs, leaves, t
<1>7. QED BY <1>5, <1>6

\* apply_edge_and_prune, for one graph.
LEMMA FilteredTree ==
    ASSUME IsPattern(m_pattern), NEW pair, IsPair(pair), NEW i \in Indexes, IsColoredGraph(m_graph_list[i]),
           IsTreeOfMatches(m_graph_list[i], m_pattern, leaf_matches[i], m_match_trees[i])
    PROVE  IsTreeOfMatches(m_graph_list[i], WithEdge(pair), remaining_leaves(i, pair),
                           filter_tree_matches_by_edge(i, pair))
<1> DEFINE g == m_graph_list[i]
           n == vertex_count(m_pattern)
           leaves == leaf_matches[i]
           t == m_match_trees[i]
           left == {leaf \in LeavesIn(leaves) : supports(i, leaf, pair)}
<1>1. /\ AreInOrder(leaves, n)
      /\ \A s : s \in LeavesIn(leaves) <=> IsImage(s, m_pattern, g)
      /\ IsTree(t) /\ DOMAIN t = OnWay(LeavesIn(leaves))
    BY DEF IsTreeOfMatches
<1>2. AreLeaves(leaves, n)
    BY <1>1 DEF AreInOrder
<1>3. LeavesAt(i, 1 .. Len(leaves)) = LeavesIn(leaves)
    BY DEF LeavesAt, LeavesIn
<1>4. /\ IsTree(filter_tree_matches_by_edge(i, pair))
      /\ DOMAIN filter_tree_matches_by_edge(i, pair) = OnWay(left)
    BY <1>1, <1>2, <1>3, FilterIsTree
<1>5. AreInOrder(remaining_leaves(i, pair), n) /\ LeavesIn(remaining_leaves(i, pair)) = left
    BY <1>1, KeptLeavesAre
<1>6. vertex_count(WithEdge(pair)) = n
    BY WithEdgeIs
<1>7. \A s : s \in left <=> IsImage(s, WithEdge(pair), g)
    BY <1>1, EdgeMatches
<1> HIDE DEF left
<1>8. QED BY <1>4, <1>5, <1>6, <1>7 DEF IsTreeOfMatches

-----------------------------------------------------------------------------
(* The invariant of a search.                                              *)

\* What holds during a call: leaves, trees and the alive graphs are those of the
\* pattern, and no match has an edge that was found dead.
Inside ==
    /\ IsPattern(m_pattern)
    /\ m_dead_edge_pairs \subseteq Vertices(m_pattern) \X Vertices(m_pattern)
    /\ DOMAIN m_match_trees = Indexes
    /\ m_alive_graph_indexes = {i \in Indexes : ~is_empty(m_match_trees[i])}
    /\ \A i \in Indexes :
            IsTreeOfMatches(m_graph_list[i], m_pattern, leaf_matches[i], m_match_trees[i])
    /\ \A pair \in m_dead_edge_pairs, i \in Indexes :
            \A leaf \in LeavesIn(leaf_matches[i]) : ~supports(i, leaf, pair)

Outside == m_match_trees = <<>> /\ leaf_matches = <<>> /\ m_alive_graph_indexes = {}

GrowthInv ==
    /\ job \in Jobs
    /\ {is_random, done_adding_vertices, failed_add_edge} \subseteq BOOLEAN
    /\ m_pattern = NoPattern => Outside
    /\ m_pattern # NoPattern => Inside

\* The graphs of a job.
LEMMA GraphsAre ==
    ASSUME job \in Jobs
    PROVE  IsFiniteSet(Indexes) /\ \A i \in Indexes : IsColoredGraph(m_graph_list[i])
<1>1. m_graph_list \in Seq(ToSet(m_graph_list)) /\ \A i \in Indexes : IsColoredGraph(m_graph_list[i])
    BY GrowthAssumption DEF Indexes, m_graph_list
<1>2. Indexes = 1 .. Len(m_graph_list) /\ Len(m_graph_list) \in Nat
    BY <1>1 DEF Indexes
<1>3. IsFiniteSet(1 .. Len(m_graph_list))
    BY <1>2, FS_Interval
<1>4. QED BY <1>1, <1>2, <1>3

\* A step of a call that leads to the next pattern.
LEMMA InsideNext ==
    ASSUME job' = job, NEW q, m_pattern' = q, IsPattern(q),
           m_dead_edge_pairs' \subseteq Vertices(q) \X Vertices(q),
           DOMAIN m_match_trees' = Indexes,
           m_alive_graph_indexes' = {i \in Indexes : ~is_empty(m_match_trees'[i])},
           \A i \in Indexes : IsTreeOfMatches(m_graph_list[i], q, leaf_matches'[i], m_match_trees'[i]),
           \A pair \in m_dead_edge_pairs', i \in Indexes :
                \A leaf \in LeavesIn(leaf_matches'[i]) : ~supports(i, leaf, pair)
    PROVE  Inside'
<1>1. m_graph_list' = m_graph_list /\ Indexes' = Indexes
    BY DEF Indexes, m_graph_list
<1>2. is_directed' = is_directed
    BY <1>1 DEF is_directed
<1>3. IsPattern(m_pattern)'
    BY <1>2 DEF IsPattern
<1>4. \A i, leaf, pair : supports(i, leaf, pair)' <=> supports(i, leaf, pair)
    BY <1>1 DEF supports
<1>5. (m_alive_graph_indexes = {i \in Indexes : ~is_empty(m_match_trees[i])})'
    BY <1>1
<1>6. (\A pair \in m_dead_edge_pairs, i \in Indexes : \A leaf \in LeavesIn(leaf_matches[i]) : ~supports(i, leaf, pair))'
    BY <1>1, <1>4
<1>7. (\A i \in Indexes : IsTreeOfMatches(m_graph_list[i], m_pattern, leaf_matches[i], m_match_trees[i]))'
    BY <1>1
<1>8. QED BY <1>1, <1>3, <1>5, <1>6, <1>7 DEF Inside

\* The graphs whose tree is not empty are the graphs with a match.
LEMMA AliveHaveMatches ==
    ASSUME job \in Jobs, NEW q, IsPattern(q), NEW leaves, NEW trees,
           \A i \in Indexes : IsTreeOfMatches(m_graph_list[i], q, leaves[i], trees[i])
    PROVE  {i \in Indexes : ~is_empty(trees[i])} =
                {i \in Indexes : Promise!MatchesIn(q, m_graph_list[i]) # {}}
<1> SUFFICES ASSUME NEW i \in Indexes
             PROVE  is_empty(trees[i]) <=> Promise!MatchesIn(q, m_graph_list[i]) = {}
    OBVIOUS
<1>1. IsColoredGraph(q) /\ IsColoredGraph(m_graph_list[i])
    BY GraphsAre DEF IsPattern
<1>2. \A s : s \in Promise!MatchesIn(q, m_graph_list[i]) <=> IsImage(s, q, m_graph_list[i])
    BY <1>1, MatchIsImage
<1>3. IsTreeOfMatches(m_graph_list[i], q, leaves[i], trees[i])
    OBVIOUS
<1>4. is_empty(trees[i]) <=> \A s : ~IsImage(s, q, m_graph_list[i])
    BY <1>3, EmptyHasNoMatch
<1>5. QED BY <1>2, <1>4

\* What a candidate to extend by can be.
LEMMA KeysAre ==
    ASSUME NEW g, NEW leaves, NEW n, AreLeaves(leaves, n), NEW key \in DOMAIN neighbour_counts(g, leaves)
    PROVE  key[2] \in 0 .. n - 1 /\ key[3] \in Directions(g.directed)
<1>1. leaves # <<>>
    <2>1. DOMAIN <<>> = {}
        OBVIOUS
    <2>2. QED BY <2>1 DEF neighbour_counts
<1>2. Len(leaves[1]) = n
    <2>1. leaves \in Seq(Seq(Nat)) /\ Len(leaves) \in Nat /\ Len(leaves) # 0
        BY <1>1, EmptySeq DEF AreLeaves
    <2>2. 1 \in 1 .. Len(leaves)
        BY <2>1
    <2>3. QED BY <2>2 DEF AreLeaves
<1>3. key \in {g.color[v] : v \in Vertices(g)} \X (0 .. Len(leaves[1]) - 1) \X Directions(g.directed)
    BY <1>1 DEF neighbour_counts
<1>4. QED BY <1>2, <1>3

\* What choose_next_vertex chooses can be joined to the pattern.
LEMMA CandidateIsKey ==
    ASSUME job \in Jobs, Inside, NEW key \in choose_next_vertex(vertex_counts)
    PROVE  IsKey(key)
<1>1. key \in build_candidates(vertex_counts)
    BY DEF choose_next_vertex
<1>2. PICK i \in DOMAIN vertex_counts : key \in DOMAIN vertex_counts[i]
    BY <1>1 DEF build_candidates
<1>3. i \in Indexes /\ key \in DOMAIN neighbour_counts(m_graph_list[i], leaf_matches[i])
    BY <1>2 DEF vertex_counts, Inside
<1>4. AreLeaves(leaf_matches[i], vertex_count(m_pattern))
    BY <1>3 DEF Inside, IsTreeOfMatches, AreInOrder
<1>5. key[2] \in 0 .. vertex_count(m_pattern) - 1 /\ key[3] \in Directions(m_graph_list[i].directed)
    BY <1>3, <1>4, KeysAre
<1>6. Vertices(m_pattern) = 0 .. vertex_count(m_pattern) - 1
    BY VerticesAre DEF Inside, IsPattern
<1>7. key[3] \in BOOLEAN /\ (key[3] => m_graph_list[i].directed)
    BY <1>5 DEF Directions
<1>8. QED BY <1>3, <1>5, <1>6, <1>7, ListIsDirected DEF IsKey

-----------------------------------------------------------------------------
(* The steps.                                                              *)

\* What is dead stays dead: a match of what a pattern grows into holds a match
\* of the pattern.
LEMMA DeadStaysDead ==
    ASSUME job \in Jobs, Inside, NEW key, IsKey(key), NEW i \in Indexes,
           NEW s, IsImage(s, WithVertex(key), m_graph_list[i]), NEW pair \in m_dead_edge_pairs
    PROVE  ~supports(i, s, pair)
<1> DEFINE n == vertex_count(m_pattern)
           g == m_graph_list[i]
           leaf == Front(s)
<1>0. IsPattern(m_pattern) /\ IsColoredGraph(g)
    BY GraphsAre DEF Inside
<1>1. IsImage(leaf, m_pattern, g) /\ s = Append(leaf, Last(s))
    BY <1>0, ImageIsExtended
<1>2. leaf \in LeavesIn(leaf_matches[i])
    <2>1. IsTreeOfMatches(g, m_pattern, leaf_matches[i], m_match_trees[i])
        BY DEF Inside
    <2> HIDE DEF leaf, g
    <2>2. QED BY <1>1, <2>1 DEF IsTreeOfMatches
<1>3. ~supports(i, leaf, pair)
    BY <1>2 DEF Inside
<1>4. n \in Nat /\ pair[1] + 1 \in 1 .. n /\ pair[2] + 1 \in 1 .. n
    <2>1. n \in Nat /\ Vertices(m_pattern) = 0 .. n - 1
        BY <1>0, VerticesAre DEF IsPattern
    <2>2. pair[1] \in Vertices(m_pattern) /\ pair[2] \in Vertices(m_pattern)
        BY DEF Inside
    <2> HIDE DEF n
    <2>3. QED BY <2>1, <2>2
<1>5. leaf \in Seq(Nat) /\ Len(leaf) = n
    BY <1>1 DEF IsImage
<1> HIDE DEF leaf, n, g
<1>6. s[pair[1] + 1] = leaf[pair[1] + 1] /\ s[pair[2] + 1] = leaf[pair[2] + 1]
    <2>1. \A x, k : k \in 1 .. Len(leaf) => Append(leaf, x)[k] = leaf[k]
        BY <1>5
    <2>2. QED BY <2>1, <1>1, <1>4, <1>5
<1>7. QED BY <1>3, <1>6 DEF supports

\* The leaves of a graph, as a set.
LEMMA LeavesSet ==
    ASSUME NEW leaves, NEW n, AreLeaves(leaves, n)
    PROVE  ToSet(leaves) = LeavesIn(leaves)
BY DEF AreLeaves, ToSet, LeavesIn

\* A pair that no graph scores is in no match.
LEMMA DeadIsUnsupported ==
    ASSUME job \in Jobs, Inside, NEW pair \in dead_candidates, NEW i \in Indexes,
           NEW leaf \in LeavesIn(leaf_matches[i])
    PROVE  ~supports(i, leaf, pair)
<1> DEFINE S == {k \in Indexes : ~is_empty(m_match_trees[k]) /\ is_edge_supported_by_graph(k, pair)}
<1>1. IsFiniteSet(S) /\ Cardinality(S) = 0
    <2>1. S \in SUBSET Indexes /\ IsFiniteSet(Indexes)
        BY GraphsAre
    <2>2. Cardinality(S) = 0
        BY DEF dead_candidates, score_edge_support
    <2> HIDE DEF S
    <2>3. QED BY <2>1, <2>2, FS_Subset
<1>2. S = {}
    <2> HIDE DEF S
    <2>1. QED BY <1>1, FS_EmptySet
<1>3. IsTreeOfMatches(m_graph_list[i], m_pattern, leaf_matches[i], m_match_trees[i])
    BY DEF Inside
<1>4. ~is_empty(m_match_trees[i])
    BY <1>3, EmptyHasNoMatch
<1>5. ~is_edge_supported_by_graph(i, pair)
    BY <1>2, <1>4
<1>6. ToSet(leaf_matches[i]) = LeavesIn(leaf_matches[i])
    BY <1>3, LeavesSet DEF IsTreeOfMatches, AreInOrder
<1>7. QED BY <1>5, <1>6 DEF is_edge_supported_by_graph

\* A candidate edge joins two vertices that no edge joins yet.
LEMMA CandidateIsPair ==
    ASSUME NEW pair \in candidate_edges
    PROVE  IsPair(pair) /\ ~is_edge(m_pattern, pair[1], pair[2])
BY DEF candidate_edges, IsPair

\* The start of a call.
LEMMA FindPatternKeeps ==
    ASSUME GrowthInv, NEW random \in BOOLEAN, NEW c, FindPattern(random, c)
    PROVE  GrowthInv' /\ Inside'
<1>1. job \in Jobs /\ job' = job /\ m_pattern' = OneVertex(c)
    BY DEF GrowthInv, FindPattern
<1>2. IsPattern(OneVertex(c)) /\ OneVertex(c) # NoPattern
    BY FirstPattern, PatternIsSome DEF OneVertexIs
<1>3. m_match_trees' = [i \in Indexes |-> SeededTree(i, c)]
    BY DEF FindPattern, seeded_trees, SeededTree
<1>4. leaf_matches' = [i \in Indexes |-> added_nodes(Seeds(i, c))]
    BY DEF FindPattern
<1>5. \A i \in Indexes :
            IsTreeOfMatches(m_graph_list[i], OneVertex(c), leaf_matches'[i], m_match_trees'[i])
    BY <1>1, <1>3, <1>4, GraphsAre, FirstTree
<1>6. m_dead_edge_pairs' = {} /\ m_alive_graph_indexes' = {i \in Indexes : ~is_empty(m_match_trees'[i])}
    BY DEF FindPattern
<1>7. DOMAIN m_match_trees' = Indexes
    BY <1>3
<1>8. Inside'
    BY <1>1, <1>2, <1>5, <1>6, <1>7, InsideNext
<1>9. is_random' \in BOOLEAN /\ done_adding_vertices' = FALSE /\ failed_add_edge' = FALSE
    BY DEF FindPattern
<1>10. QED BY <1>1, <1>2, <1>8, <1>9 DEF GrowthInv

\* A vertex is added.
LEMMA ExtendKeeps ==
    ASSUME job \in Jobs, Inside, NEW key, IsKey(key), ExtendAt(key), job' = job,
           m_dead_edge_pairs' = m_dead_edge_pairs
    PROVE  Inside' /\ m_pattern' = WithVertex(key) /\ m_pattern' # NoPattern
<1>1. IsPattern(m_pattern)
    BY DEF Inside
<1>2. IsPattern(WithVertex(key)) /\ Vertices(m_pattern) \subseteq Vertices(WithVertex(key))
    <2>1. LET n == vertex_count(m_pattern) IN
            /\ n \in Nat /\ Vertices(m_pattern) = 0 .. n - 1
            /\ IsPattern(WithVertex(key)) /\ Vertices(WithVertex(key)) = 0 .. n
        BY <1>1, WithVertexIs
    <2>2. \A n \in Nat : 0 .. n - 1 \subseteq 0 .. n
        OBVIOUS
    <2>3. QED BY <2>1, <2>2
<1>3. m_pattern' = WithVertex(key) /\ m_pattern' # NoPattern
    BY <1>2, PatternIsSome DEF ExtendAt
<1>4. ASSUME NEW i \in Indexes
      PROVE  /\ IsTreeOfMatches(m_graph_list[i], WithVertex(key), leaf_matches'[i], m_match_trees'[i])
             /\ is_empty(m_match_trees[i]) => is_empty(m_match_trees'[i])
    <2>1. IsTreeOfMatches(m_graph_list[i], m_pattern, leaf_matches[i], m_match_trees[i])
        BY DEF Inside
    <2>2. IsColoredGraph(m_graph_list[i])
        BY GraphsAre
    <2>3. CASE is_empty(m_match_trees[i])
        <3>1. leaf_matches'[i] = leaf_matches[i] /\ m_match_trees'[i] = m_match_trees[i]
            BY <2>3 DEF ExtendAt
        <3>2. IsTreeOfMatches(m_graph_list[i], WithVertex(key), leaf_matches[i], m_match_trees[i])
            BY <1>1, <2>1, <2>2, <2>3, ExtendedTree
        <3>3. QED BY <3>1, <3>2
    <2>4. CASE ~is_empty(m_match_trees[i])
        <3> DEFINE pairs == collect_extension_candidates(i, key)
        <3>1. leaf_matches'[i] = added_nodes(pairs)
            BY <2>4 DEF ExtendAt
        <3>2. m_match_trees'[i] = update_tree_after_extension(m_match_trees[i], leaf_matches[i], pairs)
            BY <2>4 DEF ExtendAt
        <3>3. IsTreeOfMatches(m_graph_list[i], WithVertex(key), added_nodes(pairs),
                              update_tree_after_extension(m_match_trees[i], leaf_matches[i], pairs))
            BY <1>1, <2>1, <2>2, <2>4, ExtendedTree
        <3>4. QED BY <2>4, <3>1, <3>2, <3>3
    <2>5. QED BY <2>3, <2>4
<1>5. ASSUME NEW pair \in m_dead_edge_pairs', NEW i \in Indexes, NEW s \in LeavesIn(leaf_matches'[i])
      PROVE  ~supports(i, s, pair)
    <2>1. IsImage(s, WithVertex(key), m_graph_list[i])
        BY <1>4 DEF IsTreeOfMatches
    <2>2. QED BY <2>1, DeadStaysDead
<1>6. DOMAIN m_match_trees' = Indexes
    BY DEF ExtendAt
<1>7. m_alive_graph_indexes' = {i \in Indexes : ~is_empty(m_match_trees'[i])}
    <2>1. m_alive_graph_indexes = {i \in Indexes : ~is_empty(m_match_trees[i])}
        BY DEF Inside
    <2>2. m_alive_graph_indexes' = {i \in m_alive_graph_indexes : ~is_empty(m_match_trees'[i])}
        BY DEF ExtendAt
    <2>3. QED BY <2>1, <2>2, <1>4
<1>8. m_dead_edge_pairs' \subseteq Vertices(WithVertex(key)) \X Vertices(WithVertex(key))
    BY <1>2 DEF Inside
<1>9. QED BY <1>2, <1>3, <1>4, <1>5, <1>6, <1>7, <1>8, InsideNext

\* What was found dead in this turn joins what is dead already.
LEMMA DeadTogether ==
    ASSUME job \in Jobs, Inside, m_dead_edge_pairs' = m_dead_edge_pairs \cup dead_candidates
    PROVE  /\ m_dead_edge_pairs' \subseteq Vertices(m_pattern) \X Vertices(m_pattern)
           /\ \A pair \in m_dead_edge_pairs', i \in Indexes :
                    \A leaf \in LeavesIn(leaf_matches[i]) : ~supports(i, leaf, pair)
<1>1. dead_candidates \subseteq Vertices(m_pattern) \X Vertices(m_pattern)
    BY CandidateIsPair DEF dead_candidates, IsPair
<1>2. m_dead_edge_pairs \subseteq Vertices(m_pattern) \X Vertices(m_pattern)
    BY DEF Inside
<1>3. ASSUME NEW pair \in m_dead_edge_pairs', NEW i \in Indexes, NEW leaf \in LeavesIn(leaf_matches[i])
      PROVE  ~supports(i, leaf, pair)
    <2>1. CASE pair \in dead_candidates
        BY <2>1, DeadIsUnsupported
    <2>2. CASE pair \in m_dead_edge_pairs
        BY <2>2 DEF Inside
    <2>3. QED BY <2>1, <2>2
<1>4. QED BY <1>1, <1>2, <1>3

\* An edge is added.
LEMMA PruneKeeps ==
    ASSUME job \in Jobs, Inside, NEW pair, IsPair(pair), apply_edge_and_prune(pair), job' = job,
           m_dead_edge_pairs' = m_dead_edge_pairs \cup dead_candidates
    PROVE  Inside' /\ m_pattern' = WithEdge(pair) /\ m_pattern' # NoPattern
<1>1. IsPattern(m_pattern)
    BY DEF Inside
<1>2. IsPattern(WithEdge(pair)) /\ Vertices(WithEdge(pair)) = Vertices(m_pattern)
    BY <1>1, WithEdgeIs
<1>3. m_pattern' = WithEdge(pair) /\ m_pattern' # NoPattern
    BY <1>2, PatternIsSome DEF apply_edge_and_prune, WithEdge
<1>4. ASSUME NEW i \in Indexes
      PROVE  /\ IsTreeOfMatches(m_graph_list[i], WithEdge(pair), leaf_matches'[i], m_match_trees'[i])
             /\ \A s \in LeavesIn(leaf_matches'[i]) : s \in LeavesIn(leaf_matches[i])
             /\ is_empty(m_match_trees[i]) => is_empty(m_match_trees'[i])
    <2>1. IsTreeOfMatches(m_graph_list[i], m_pattern, leaf_matches[i], m_match_trees[i])
        BY DEF Inside
    <2>2. IsColoredGraph(m_graph_list[i])
        BY GraphsAre
    <2>3. leaf_matches'[i] = remaining_leaves(i, pair)
        BY DEF apply_edge_and_prune
    <2>4. m_match_trees'[i] = filter_tree_matches_by_edge(i, pair)
        BY DEF apply_edge_and_prune
    <2>5. IsTreeOfMatches(m_graph_list[i], WithEdge(pair), leaf_matches'[i], m_match_trees'[i])
        BY <1>1, <2>1, <2>2, <2>3, <2>4, FilteredTree
    <2>6. \A s \in LeavesIn(leaf_matches'[i]) : s \in LeavesIn(leaf_matches[i])
        <3>1. AreInOrder(leaf_matches[i], vertex_count(m_pattern))
            BY <2>1 DEF IsTreeOfMatches
        <3>2. QED BY <3>1, <2>3, KeptLeavesAre
    <2>7. ASSUME is_empty(m_match_trees[i]) PROVE is_empty(m_match_trees'[i])
        <3>1. LeavesIn(leaf_matches[i]) = {}
            BY <2>1, <2>7, EmptyHasNoMatch
        <3>2. LeavesIn(leaf_matches'[i]) = {}
            BY <2>6, <3>1
        <3>3. QED BY <2>5, <3>2, EmptyHasNoMatch
    <2>8. QED BY <2>5, <2>6, <2>7
<1>5. ASSUME NEW dead \in m_dead_edge_pairs', NEW i \in Indexes, NEW s \in LeavesIn(leaf_matches'[i])
      PROVE  ~supports(i, s, dead)
    BY <1>4, DeadTogether
<1>6. DOMAIN m_match_trees' = Indexes
    BY DEF apply_edge_and_prune
<1>7. m_alive_graph_indexes' = {i \in Indexes : ~is_empty(m_match_trees'[i])}
    <2>1. m_alive_graph_indexes = {i \in Indexes : ~is_empty(m_match_trees[i])}
        BY DEF Inside
    <2>2. m_alive_graph_indexes' = {i \in m_alive_graph_indexes : ~is_empty(m_match_trees'[i])}
        BY DEF apply_edge_and_prune
    <2>3. QED BY <2>1, <2>2, <1>4
<1>8. m_dead_edge_pairs' \subseteq Vertices(WithEdge(pair)) \X Vertices(WithEdge(pair))
    BY <1>2, DeadTogether
<1>9. QED BY <1>2, <1>3, <1>4, <1>5, <1>6, <1>7, <1>8, InsideNext

\* A turn that adds no edge.
LEMMA NoEdgeKeeps ==
    ASSUME job \in Jobs, Inside, m_pattern' = m_pattern, job' = job,
           m_match_trees' = m_match_trees, leaf_matches' = leaf_matches,
           m_alive_graph_indexes' = m_alive_graph_indexes,
           m_dead_edge_pairs' = m_dead_edge_pairs \cup dead_candidates
    PROVE  Inside'
<1>1. /\ m_dead_edge_pairs' \subseteq Vertices(m_pattern) \X Vertices(m_pattern)
      /\ \A pair \in m_dead_edge_pairs', i \in Indexes :
            \A leaf \in LeavesIn(leaf_matches'[i]) : ~supports(i, leaf, pair)
    BY DeadTogether
<1>2. IsPattern(m_pattern) /\ DOMAIN m_match_trees' = Indexes
    BY DEF Inside
<1>3. m_alive_graph_indexes' = {i \in Indexes : ~is_empty(m_match_trees'[i])}
    BY DEF Inside
<1>4. \A i \in Indexes :
        IsTreeOfMatches(m_graph_list[i], m_pattern, leaf_matches'[i], m_match_trees'[i])
    BY DEF Inside
<1>5. QED BY <1>1, <1>2, <1>3, <1>4, InsideNext

\* A step that leaves the search alone.
LEMMA UntouchedKeeps ==
    ASSUME GrowthInv, UNCHANGED <<job, m_pattern, m_match_trees, leaf_matches, m_alive_graph_indexes,
                                  m_dead_edge_pairs>>,
           {is_random', done_adding_vertices', failed_add_edge'} \subseteq BOOLEAN
    PROVE  GrowthInv'
<1>1. m_graph_list' = m_graph_list /\ Indexes' = Indexes /\ (is_directed' <=> is_directed)
    BY DEF Indexes, m_graph_list, is_directed
<1>2. ASSUME m_pattern # NoPattern PROVE Inside'
    <2>1. job \in Jobs /\ Inside
        BY <1>2 DEF GrowthInv
    <2>2. IsPattern(m_pattern) /\ DOMAIN m_match_trees' = Indexes
        BY <2>1 DEF Inside
    <2>3. m_alive_graph_indexes' = {i \in Indexes : ~is_empty(m_match_trees'[i])}
        BY <2>1 DEF Inside
    <2>4. \A i \in Indexes :
            IsTreeOfMatches(m_graph_list[i], m_pattern, leaf_matches'[i], m_match_trees'[i])
        BY <2>1 DEF Inside
    <2>5. /\ m_dead_edge_pairs' \subseteq Vertices(m_pattern) \X Vertices(m_pattern)
          /\ \A pair \in m_dead_edge_pairs', i \in Indexes :
                \A leaf \in LeavesIn(leaf_matches'[i]) : ~supports(i, leaf, pair)
        BY <2>1 DEF Inside
    <2>6. QED BY <2>2, <2>3, <2>4, <2>5, InsideNext
<1>3. m_pattern = NoPattern => Outside'
    BY DEF GrowthInv, Outside
<1>4. NoPattern' = NoPattern
    BY DEF NoPattern
<1>5. job' \in Jobs
    BY DEF GrowthInv
<1>6. QED BY <1>2, <1>3, <1>4, <1>5 DEF GrowthInv

\* The invariant holds of a new finder.
LEMMA InitIsGrowth == Init => GrowthInv
BY DEF Init, GrowthInv, Outside

\* Every step of the finder keeps it.
LEMMA GrowthStep == GrowthInv /\ [Next]_vars => GrowthInv'
<1> SUFFICES ASSUME GrowthInv, [Next]_vars PROVE GrowthInv'
    OBVIOUS
<1>0. /\ job \in Jobs
      /\ is_random \in BOOLEAN /\ done_adding_vertices \in BOOLEAN /\ failed_add_edge \in BOOLEAN
      /\ m_pattern = NoPattern => Outside
      /\ m_pattern # NoPattern => Inside
    BY DEF GrowthInv
<1>1. CASE \E random \in BOOLEAN, c \in Colors : FindPattern(random, c)
    BY <1>1, FindPatternKeeps
<1>2. CASE FindPatternThrows
    BY <1>0, <1>2, UntouchedKeeps DEF FindPatternThrows
<1>3. CASE AddVertex
    <2>1. Inside /\ job' = job /\ m_dead_edge_pairs' = m_dead_edge_pairs
        BY <1>0, <1>3 DEF AddVertex, Growing
    <2>2. PICK key \in choose_next_vertex(vertex_counts) : ExtendAt(key)
        BY <1>3 DEF AddVertex
    <2>3. IsKey(key)
        BY <1>0, <2>1, CandidateIsKey
    <2>4. Inside' /\ m_pattern' # NoPattern
        BY <1>0, <2>1, <2>2, <2>3, ExtendKeeps
    <2>5. is_random' = is_random /\ done_adding_vertices' = done_adding_vertices /\ failed_add_edge' = FALSE
        BY <1>3 DEF AddVertex
    <2>6. QED BY <1>0, <2>1, <2>4, <2>5 DEF GrowthInv
<1>4. CASE NoVertexToAdd
    BY <1>0, <1>4, UntouchedKeeps DEF NoVertexToAdd
<1>5. CASE AddEdge
    <2>1. Inside /\ job' = job /\ m_dead_edge_pairs' = m_dead_edge_pairs \cup dead_candidates
        BY <1>0, <1>5 DEF AddEdge, Growing
    <2>2. PICK pair \in best_candidate_edges : apply_edge_and_prune(pair)
        BY <1>5 DEF AddEdge
    <2>3. pair \in candidate_edges
        BY DEF best_candidate_edges
    <2>4. Inside' /\ m_pattern' # NoPattern
        BY <1>0, <2>1, <2>2, <2>3, CandidateIsPair, PruneKeeps
    <2>5. is_random' = is_random /\ done_adding_vertices' = done_adding_vertices /\ failed_add_edge' = FALSE
        BY <1>5 DEF AddEdge
    <2>6. QED BY <1>0, <2>1, <2>4, <2>5 DEF GrowthInv
<1>6. CASE NoEdgeToAdd
    <2>1. Inside /\ job' = job /\ m_dead_edge_pairs' = m_dead_edge_pairs \cup dead_candidates
        BY <1>0, <1>6 DEF NoEdgeToAdd, Growing
    <2>2. /\ m_pattern' = m_pattern /\ m_match_trees' = m_match_trees /\ leaf_matches' = leaf_matches
          /\ m_alive_graph_indexes' = m_alive_graph_indexes
        BY <1>6 DEF NoEdgeToAdd
    <2>3. Inside' /\ m_pattern' # NoPattern
        BY <1>0, <1>6, <2>1, <2>2, NoEdgeKeeps DEF NoEdgeToAdd, Growing
    <2>4. is_random' = is_random /\ done_adding_vertices' = done_adding_vertices /\ failed_add_edge' = TRUE
        BY <1>6 DEF NoEdgeToAdd
    <2>5. QED BY <1>0, <2>1, <2>3, <2>4 DEF GrowthInv
<1>7. CASE Return
    <2>1. job' = job /\ m_pattern' = NoPattern /\ Outside'
        BY <1>7 DEF Return, Outside
    <2>2. is_random' = is_random /\ done_adding_vertices' = FALSE /\ failed_add_edge' = FALSE
        BY <1>7 DEF Return
    <2>3. QED BY <1>0, <2>1, <2>2 DEF GrowthInv, NoPattern
<1>8. CASE UNCHANGED vars
    BY <1>0, <1>8, UntouchedKeeps DEF vars
<1>9. QED BY <1>1, <1>2, <1>3, <1>4, <1>5, <1>6, <1>7, <1>8 DEF Next, LoopStep

\* The invariant holds throughout: at every turn of the loop the leaves of a
\* graph's tree are the pattern's matches in it.
THEOREM AlwaysGrowthInv == Spec => []GrowthInv
BY InitIsGrowth, GrowthStep, PTL DEF Spec

-----------------------------------------------------------------------------
(* What the invariant gives.                                               *)

\* The trees and the lists of leaves of a call.
LEMMA InsideType ==
    ASSUME job \in Jobs, Inside, NEW i \in Indexes
    PROVE  leaf_matches[i] \in Seq(Seq(Vertices(m_graph_list[i])))
<1> DEFINE g == m_graph_list[i]
           leaves == leaf_matches[i]
           V == Vertices(g)
<1>1. IsTreeOfMatches(g, m_pattern, leaves, m_match_trees[i])
    BY DEF Inside
<1>2. leaves \in Seq(Seq(Nat)) /\ \A s \in LeavesIn(leaves) : IsImage(s, m_pattern, g)
    BY <1>1 DEF IsTreeOfMatches, AreInOrder, AreLeaves
<1> HIDE DEF leaves, g
<1>3. ASSUME NEW j \in 1 .. Len(leaves) PROVE leaves[j] \in Seq(V)
    <2>1. leaves[j] \in LeavesIn(leaves)
        BY DEF LeavesIn
    <2>2. leaves[j] \in Seq(Nat) /\ \A k \in 1 .. Len(leaves[j]) : leaves[j][k] \in V
        BY <2>1, <1>2 DEF IsImage
    <2> HIDE DEF V
    <2>3. QED BY <2>2
<1> HIDE DEF V
<1>4. leaves \in Seq(Seq(V))
    <2> DEFINE U == Seq(V)
    <2>1. Len(leaves) \in Nat /\ leaves = [j \in 1 .. Len(leaves) |-> leaves[j]]
        BY <1>2
    <2>2. \A j \in 1 .. Len(leaves) : leaves[j] \in U
        BY <1>3
    <2> HIDE DEF U
    <2>3. leaves \in Seq(U)
        BY <2>1, <2>2
    <2>4. QED BY <2>3 DEF U
<1>5. QED BY <1>4 DEF leaves, g, V

\* The invariant gives the types.
LEMMA GrowthTypes == GrowthInv => TypeOK
<1> SUFFICES ASSUME GrowthInv PROVE TypeOK
    OBVIOUS
<1>1. job \in Jobs /\ {is_random, done_adding_vertices, failed_add_edge} \subseteq BOOLEAN
    BY DEF GrowthInv
<1>2. CASE m_pattern = NoPattern
    <2>1. Outside
        BY <1>2 DEF GrowthInv
    <2>2. QED BY <1>1, <1>2, <2>1 DEF TypeOK, Outside
<1>3. CASE m_pattern # NoPattern
    <2>1. Inside
        BY <1>3 DEF GrowthInv
    <2>2. /\ IsColoredGraph(m_pattern)
          /\ m_dead_edge_pairs \subseteq Vertices(m_pattern) \X Vertices(m_pattern)
          /\ DOMAIN m_match_trees = Indexes
          /\ m_alive_graph_indexes \subseteq Indexes
        BY <2>1 DEF Inside, IsPattern
    <2>3. \A i \in Indexes : leaf_matches[i] \in Seq(Seq(Vertices(m_graph_list[i])))
        BY <1>1, <2>1, InsideType
    <2>4. QED BY <1>1, <1>3, <2>2, <2>3 DEF TypeOK
<1>4. QED BY <1>2, <1>3

\* The leaves of a graph are the matches of the pattern, each once.
LEMMA GrowthMatches == GrowthInv => LeavesAreMatches
<1> SUFFICES ASSUME GrowthInv, m_pattern # NoPattern, NEW i \in Indexes
             PROVE  /\ ToSet(leaf_matches[i]) = Promise!MatchesIn(m_pattern, m_graph_list[i])
                    /\ Len(leaf_matches[i]) = Cardinality(ToSet(leaf_matches[i]))
    BY DEF LeavesAreMatches
<1> DEFINE g == m_graph_list[i]
           leaves == leaf_matches[i]
           n == vertex_count(m_pattern)
<1>1. job \in Jobs /\ Inside
    BY DEF GrowthInv
<1>2. IsTreeOfMatches(g, m_pattern, leaves, m_match_trees[i]) /\ IsColoredGraph(m_pattern) /\ IsColoredGraph(g)
    BY <1>1, GraphsAre DEF Inside, IsPattern
<1>3. AreLeaves(leaves, n) /\ \A s : s \in LeavesIn(leaves) <=> IsImage(s, m_pattern, g)
    BY <1>2 DEF IsTreeOfMatches, AreInOrder
<1> HIDE DEF g, leaves, n
<1>4. ToSet(leaves) = LeavesIn(leaves)
    BY <1>3, LeavesSet
<1>5. ToSet(leaves) = Promise!MatchesIn(m_pattern, g)
    <2>1. \A s : s \in Promise!MatchesIn(m_pattern, g) <=> IsImage(s, m_pattern, g)
        BY <1>2, MatchIsImage
    <2>2. QED BY <2>1, <1>3, <1>4
<1>6. Len(leaves) = Cardinality(ToSet(leaves))
    <2> DEFINE N == Len(leaves)
               S == ToSet(leaves)
               f == [j \in 1 .. N |-> leaves[j]]
    <2>1. N \in Nat /\ S = {leaves[j] : j \in 1 .. N}
        BY <1>3, <1>4 DEF AreLeaves, LeavesIn
    <2>2. \A j, k \in 1 .. N : leaves[j] = leaves[k] => j = k
        BY <1>3 DEF AreLeaves
    <2>3. \A j, k \in 1 .. N : f[j] = f[k] => j = k
        BY <2>2
    <2>4. f \in [1 .. N -> S] /\ \A s \in S : \E j \in 1 .. N : f[j] = s
        BY <2>1
    <2> HIDE DEF N, S, f
    <2>5. f \in Bijection(1 .. N, S)
        BY <2>3, <2>4 DEF Bijection, Injection, Surjection, IsInjective
    <2>6. ExistsBijection(1 .. N, S)
        BY <2>5 DEF ExistsBijection
    <2>7. Cardinality(S) = N
        BY <2>1, <2>6, FS_CountingElements
    <2>8. QED BY <2>7 DEF N, S
<1>7. QED BY <1>5, <1>6 DEF g, leaves

\* Rings closed, every node above a leaf, none lost.
LEMMA GrowthLinks == GrowthInv => TreesAreLinked
<1> SUFFICES ASSUME GrowthInv, m_pattern # NoPattern, NEW i \in Indexes
             PROVE  /\ RingsAreClosed(m_match_trees[i])
                    /\ NodesLeadToLeaves(m_match_trees[i], leaf_matches[i])
    BY DEF TreesAreLinked
<1>1. Inside
    BY DEF GrowthInv
<1>2. IsTreeOfMatches(m_graph_list[i], m_pattern, leaf_matches[i], m_match_trees[i])
    BY <1>1 DEF Inside
<1>3. IsTree(m_match_trees[i]) /\ DOMAIN m_match_trees[i] = OnWay(LeavesIn(leaf_matches[i]))
    BY <1>2 DEF IsTreeOfMatches
<1>4. ToSet(leaf_matches[i]) = LeavesIn(leaf_matches[i])
    BY <1>2, LeavesSet DEF IsTreeOfMatches, AreInOrder
<1>5. QED BY <1>3, <1>4, TreeIsClosed DEF NodesLeadToLeaves, OnWay

\* No match has an edge found dead.
LEMMA GrowthDead == GrowthInv => DeadPairsAreUnsupported
<1> SUFFICES ASSUME GrowthInv, m_pattern # NoPattern, NEW pair \in m_dead_edge_pairs, NEW i \in Indexes
             PROVE  ~is_edge_supported_by_graph(i, pair)
    BY DEF DeadPairsAreUnsupported
<1>1. Inside
    BY DEF GrowthInv
<1>2. IsTreeOfMatches(m_graph_list[i], m_pattern, leaf_matches[i], m_match_trees[i])
    BY <1>1 DEF Inside
<1>3. ToSet(leaf_matches[i]) = LeavesIn(leaf_matches[i])
    BY <1>2, LeavesSet DEF IsTreeOfMatches, AreInOrder
<1>4. \A leaf \in LeavesIn(leaf_matches[i]) : ~supports(i, leaf, pair)
    BY <1>1 DEF Inside
<1>5. QED BY <1>3, <1>4 DEF is_edge_supported_by_graph

\* TypeOK holds for any list of graphs and any threshold.
THEOREM GrowthTypeCorrect == Spec => []TypeOK
BY AlwaysGrowthInv, GrowthTypes, PTL

\* The leaves kept for a graph are exactly the pattern's matches, each once.
THEOREM LeavesStayMatches == Spec => []LeavesAreMatches
BY AlwaysGrowthInv, GrowthMatches, PTL

\* Growth, cascading removal and pruning keep every link of every tree right.
THEOREM TreesStayLinked == Spec => []TreesAreLinked
BY AlwaysGrowthInv, GrowthLinks, PTL

\* A pair once found dead never becomes worth scoring.
THEOREM DeadPairsStayDead == Spec => []DeadPairsAreUnsupported
BY AlwaysGrowthInv, GrowthDead, PTL

-----------------------------------------------------------------------------
(* What the finder promises.                                               *)

\* The operators of the promise are those of the graphs.
LEMMA PromiseGraphs ==
    ASSUME NEW g
    PROVE  /\ Promise!Vertices(g) = Vertices(g)
           /\ Promise!vertex_count(g) = vertex_count(g)
           /\ \A v : Promise!get_vertex_color(g, v) = get_vertex_color(g, v)
BY DEF Promise!Vertices, Vertices, Promise!vertex_count, vertex_count, Promise!get_vertex_color, get_vertex_color,
       Promise!Cardinality, Cardinality

\* More edges, named one by one.
LEMMA EdgesGrow ==
    ASSUME NEW p, IsColoredGraph(p), NEW q, \A u, w : is_edge(p, u, w) => is_edge(q, u, w)
    PROVE  p.edges \subseteq q.edges
BY DEF IsColoredGraph, is_edge

\* A vertex more is growth, and so is an edge.
LEMMA VertexIsGrowth ==
    ASSUME IsPattern(m_pattern), NEW key, IsKey(key)
    PROVE  Promise!IsGrowth(m_pattern, WithVertex(key))
<1> DEFINE n == vertex_count(m_pattern)
           q == WithVertex(key)
<1>1. /\ n \in Nat /\ Vertices(m_pattern) = 0 .. n - 1 /\ Vertices(q) = 0 .. n /\ vertex_count(q) = n + 1
      /\ \A v \in 0 .. n - 1 : get_vertex_color(q, v) = get_vertex_color(m_pattern, v)
      /\ \A u, w : is_edge(m_pattern, u, w) => is_edge(q, u, w)
    BY WithVertexIs
<1>2. m_pattern.edges \subseteq q.edges
    <2> HIDE DEF q
    <2>1. QED BY <1>1, EdgesGrow DEF IsPattern
<1>3. m_pattern # q
    <2>1. vertex_count(m_pattern) = n
        OBVIOUS
    <2> HIDE DEF q, n
    <2>2. QED BY <1>1, <2>1
<1>4. Vertices(m_pattern) \subseteq Vertices(q)
    <2> HIDE DEF q, n
    <2>1. 0 .. n - 1 \subseteq 0 .. n
        BY <1>1
    <2>2. QED BY <1>1, <2>1
<1>5. \A v \in Vertices(m_pattern) : get_vertex_color(q, v) = get_vertex_color(m_pattern, v)
    BY <1>1
<1> HIDE DEF q, n
<1>6. Promise!IsGrowth(m_pattern, q)
    BY <1>2, <1>3, <1>4, <1>5, PromiseGraphs DEF Promise!IsGrowth
<1>7. QED BY <1>6 DEF q

\* A pattern with an edge more is another one that holds the first.
LEMMA EdgeIsGrowth ==
    ASSUME IsPattern(m_pattern), NEW pair, IsPair(pair), ~is_edge(m_pattern, pair[1], pair[2])
    PROVE  Promise!IsGrowth(m_pattern, WithEdge(pair))
<1> DEFINE q == WithEdge(pair)
<1>1. /\ Vertices(q) = Vertices(m_pattern)
      /\ \A v : get_vertex_color(q, v) = get_vertex_color(m_pattern, v)
      /\ \A u, w : is_edge(m_pattern, u, w) => is_edge(q, u, w)
      /\ is_edge(q, pair[1], pair[2])
    BY WithEdgeIs
<1> HIDE DEF q
<1>2. m_pattern.edges \subseteq q.edges
    BY <1>1, EdgesGrow DEF IsPattern
<1>3. m_pattern # q
    BY <1>1
<1>4. Promise!IsGrowth(m_pattern, q)
    BY <1>1, <1>2, <1>3, PromiseGraphs DEF Promise!IsGrowth
<1>5. QED BY <1>4 DEF q

\* The alive graphs after a step are those with a match of the next pattern.
LEMMA AliveNext ==
    ASSUME job \in Jobs, job' = job, Inside'
    PROVE  m_alive_graph_indexes' = Promise!GraphsWith(m_pattern')
<1>1. m_graph_list' = m_graph_list /\ Indexes' = Indexes /\ (is_directed' <=> is_directed)
    BY DEF Indexes, m_graph_list, is_directed
<1>2. IsPattern(m_pattern')
    <2>1. IsPattern(m_pattern)'
        BY DEF Inside
    <2>2. QED BY <1>1, <2>1 DEF IsPattern
<1>3. \A i \in Indexes :
        IsTreeOfMatches(m_graph_list[i], m_pattern', leaf_matches'[i], m_match_trees'[i])
    BY <1>1 DEF Inside
<1>4. m_alive_graph_indexes' = {i \in Indexes : ~is_empty(m_match_trees'[i])}
    BY <1>1 DEF Inside
<1>5. m_alive_graph_indexes' = {i \in Indexes : Promise!MatchesIn(m_pattern', m_graph_list[i]) # {}}
    BY <1>2, <1>3, <1>4, AliveHaveMatches
<1>6. Promise!GraphsWith(m_pattern') = {i \in Indexes : Promise!MatchesIn(m_pattern', m_graph_list[i]) # {}}
    BY DEF Promise!GraphsWith, Indexes, m_graph_list
<1>7. QED BY <1>5, <1>6

\* A turn of the loop that finds something is Grow, the others change nothing
\* the promise speaks of.
LEMMA PromiseStep ==
    GrowthInv /\ [Next]_vars => [Promise!Next]_<<job.graphs, m_pattern, m_alive_graph_indexes>>
<1> SUFFICES ASSUME GrowthInv, [Next]_vars
             PROVE  [Promise!Next]_<<job.graphs, m_pattern, m_alive_graph_indexes>>
    OBVIOUS
<1>0. job \in Jobs /\ (m_pattern # NoPattern => Inside)
    BY DEF GrowthInv
<1>1. ASSUME NEW random \in BOOLEAN, NEW c \in Colors, FindPattern(random, c) PROVE Promise!Next
    <2>1. job' = job /\ m_pattern = NoPattern /\ m_pattern' = OneVertex(c)
        BY <1>1 DEF FindPattern
    <2>2. m_pattern' # NoPattern /\ vertex_count(m_pattern') = 1
        BY <2>1, FirstPattern, PatternIsSome DEF OneVertexIs
    <2>3. Inside'
        BY <1>1, FindPatternKeeps
    <2>4. m_alive_graph_indexes' = Promise!GraphsWith(m_pattern')
        BY <1>0, <2>1, <2>3, AliveNext
    <2>5. Promise!Begin
        BY <2>1, <2>2, <2>4, PromiseGraphs DEF Promise!Begin, NoPattern
    <2>6. QED BY <2>1, <2>5 DEF Promise!Next
<1>2. CASE FindPatternThrows
    BY <1>2 DEF FindPatternThrows
<1>3. CASE AddVertex
    <2>1. Inside /\ job' = job /\ m_dead_edge_pairs' = m_dead_edge_pairs /\ m_pattern # NoPattern
        BY <1>0, <1>3 DEF AddVertex, Growing
    <2>2. PICK key \in choose_next_vertex(vertex_counts) : ExtendAt(key)
        BY <1>3 DEF AddVertex
    <2>3. IsKey(key)
        BY <1>0, <2>1, CandidateIsKey
    <2>4. Inside' /\ m_pattern' # NoPattern /\ m_pattern' = WithVertex(key)
        BY <1>0, <2>1, <2>2, <2>3, ExtendKeeps
    <2>5. Promise!IsGrowth(m_pattern, m_pattern')
        BY <2>1, <2>3, <2>4, VertexIsGrowth DEF Inside
    <2>6. m_alive_graph_indexes' = Promise!GraphsWith(m_pattern')
        BY <1>0, <2>1, <2>4, AliveNext
    <2>7. Promise!Grow
        BY <2>1, <2>4, <2>5, <2>6 DEF Promise!Grow, NoPattern
    <2>8. QED BY <2>1, <2>7 DEF Promise!Next
<1>4. CASE NoVertexToAdd
    BY <1>4 DEF NoVertexToAdd
<1>5. CASE AddEdge
    <2>1. /\ Inside /\ job' = job /\ m_dead_edge_pairs' = m_dead_edge_pairs \cup dead_candidates
          /\ m_pattern # NoPattern
        BY <1>0, <1>5 DEF AddEdge, Growing
    <2>2. PICK pair \in best_candidate_edges : apply_edge_and_prune(pair)
        BY <1>5 DEF AddEdge
    <2>3. pair \in candidate_edges
        BY DEF best_candidate_edges
    <2>4. Inside' /\ m_pattern' # NoPattern /\ m_pattern' = WithEdge(pair)
        BY <1>0, <2>1, <2>2, <2>3, CandidateIsPair, PruneKeeps
    <2>5. Promise!IsGrowth(m_pattern, m_pattern')
        BY <2>1, <2>3, <2>4, CandidateIsPair, EdgeIsGrowth DEF Inside
    <2>6. m_alive_graph_indexes' = Promise!GraphsWith(m_pattern')
        BY <1>0, <2>1, <2>4, AliveNext
    <2>7. Promise!Grow
        BY <2>1, <2>4, <2>5, <2>6 DEF Promise!Grow, NoPattern
    <2>8. QED BY <2>1, <2>7 DEF Promise!Next
<1>6. CASE NoEdgeToAdd
    BY <1>6 DEF NoEdgeToAdd
<1>7. CASE Return
    <2>1. job' = job /\ m_pattern # NoPattern /\ m_pattern' = NoPattern /\ m_alive_graph_indexes' = {}
        BY <1>7 DEF Return
    <2>2. Promise!End
        BY <2>1 DEF Promise!End, NoPattern
    <2>3. QED BY <2>1, <2>2 DEF Promise!Next
<1>8. CASE UNCHANGED vars
    BY <1>8 DEF vars
<1>9. QED BY <1>1, <1>2, <1>3, <1>4, <1>5, <1>6, <1>7, <1>8 DEF Next, LoopStep

\* A new finder has no pattern and no graph.
LEMMA PromiseInit == Init => Promise!Init
BY DEF Init, Promise!Init, NoPattern

\* The finder keeps PatternSearch: a pattern only grows, and its alive graphs are
\* the graphs it occurs in, no more and no fewer.
THEOREM GrowthKeepsPromise == Spec => ImplementsPatternSearch
<1>1. Spec => [][Promise!Next]_<<job.graphs, m_pattern, m_alive_graph_indexes>>
    BY AlwaysGrowthInv, PromiseStep, PTL DEF Spec
<1>2. Spec => Promise!Init
    BY PromiseInit DEF Spec
<1>3. QED BY <1>1, <1>2, PTL DEF ImplementsPatternSearch, Promise!Spec

-----------------------------------------------------------------------------
(* Counting what a pattern can be extended by.                             *)

Entries == Seq(Nat) \X SUBSET Nat

\* A leaf without repeated vertices.
IsInjectiveList(leaf) == \A j, k \in 1 .. Len(leaf) : leaf[j] = leaf[k] => j = k

\* The path of one leaf becomes that of the next.
LEMMA PathMovesOn ==
    ASSUME NEW n \in Nat, NEW prev \in Seq(Nat), NEW curr \in Seq(Nat), Len(prev) = n, Len(curr) = n,
           IsInjectiveList(prev)
    PROVE  update_path_to_next_leaf(prev, curr, path_vertices(prev)) = path_vertices(curr)
<1> DEFINE parted == {j \in DOMAIN curr : get_node_by_depth(prev, j) # get_node_by_depth(curr, j)}
           out == {prev[j] : j \in parted}
           in == {curr[j] : j \in parted}
<1>1. DOMAIN curr = 1 .. n /\ DOMAIN prev = 1 .. n
    OBVIOUS
<1>2. ASSUME NEW j \in 1 .. n, j \notin parted PROVE prev[j] = curr[j]
    <2>1. get_node_by_depth(prev, j) = get_node_by_depth(curr, j)
        BY <1>1, <1>2
    <2>2. j \in 0 .. Len(prev) /\ j \in 0 .. Len(curr) /\ j \in 1 .. j
        OBVIOUS
    <2>3. get_node_by_depth(prev, j)[j] = prev[j] /\ get_node_by_depth(curr, j)[j] = curr[j]
        BY <2>2, DepthFacts
    <2>4. QED BY <2>1, <2>3
<1>3. parted \subseteq 1 .. n
    BY <1>1
<1>4. update_path_to_next_leaf(prev, curr, path_vertices(prev)) = (path_vertices(prev) \ out) \cup in
    BY DEF update_path_to_next_leaf
<1> HIDE DEF parted
<1>5. ASSUME NEW x \in path_vertices(curr) PROVE x \in (path_vertices(prev) \ out) \cup in
    <2>1. PICK j \in 1 .. n : x = curr[j]
        BY <1>1 DEF path_vertices
    <2>2. CASE j \in parted
        BY <2>1, <2>2
    <2>3. CASE j \notin parted
        <3>1. x = prev[j]
            BY <1>2, <2>1, <2>3
        <3>2. x \in path_vertices(prev)
            BY <1>1, <3>1 DEF path_vertices
        <3>3. x \notin out
            BY <1>3, <2>3, <3>1 DEF IsInjectiveList
        <3>4. QED BY <3>2, <3>3
    <2>4. QED BY <2>2, <2>3
<1>6. ASSUME NEW x \in (path_vertices(prev) \ out) \cup in PROVE x \in path_vertices(curr)
    <2>1. CASE x \in in
        BY <1>1, <1>3, <2>1 DEF path_vertices
    <2>2. CASE x \in path_vertices(prev) \ out
        <3>1. PICK j \in 1 .. n : x = prev[j]
            BY <1>1, <2>2 DEF path_vertices
        <3>2. j \notin parted
            BY <2>2, <3>1
        <3>3. x = curr[j]
            BY <1>2, <3>1, <3>2
        <3>4. QED BY <1>1, <3>3 DEF path_vertices
    <2>3. QED BY <1>6, <2>1, <2>2
<1>7. QED BY <1>4, <1>5, <1>6

\* Leaves of one depth, none with a vertex twice, and there is one.
AreCounted(leaves, n) ==
    /\ AreLeaves(leaves, n) /\ Len(leaves) > 0 /\ n > 0
    /\ \A j \in 1 .. Len(leaves) : IsInjectiveList(leaves[j])

\* The running path of every leaf is its own.
LEMMA LeafFrontierIs ==
    ASSUME NEW leaves, NEW n, AreCounted(leaves, n)
    PROVE  build_leaf_frontier_paths(leaves) =
                [j \in 1 .. Len(leaves) |-> <<leaves[j], path_vertices(leaves[j])>>]
<1> DEFINE m == Len(leaves)
           IsThis(f) == f = [j \in DOMAIN leaves |->
                                IF j = 1 THEN path_vertices(leaves[1])
                                ELSE update_path_to_next_leaf(leaves[j - 1], leaves[j], f[j - 1])]
           running == CHOOSE f : IsThis(f)
           W == [j \in 1 .. m |-> path_vertices(leaves[j])]
<1>1. /\ n \in Nat /\ m \in Nat /\ m > 0 /\ DOMAIN leaves = 1 .. m
      /\ \A j \in 1 .. m : leaves[j] \in Seq(Nat) /\ Len(leaves[j]) = n /\ IsInjectiveList(leaves[j])
    BY DEF AreCounted, AreLeaves
<1>2. build_leaf_frontier_paths(leaves) = [j \in DOMAIN leaves |-> <<leaves[j], running[j]>>]
    BY DEF build_leaf_frontier_paths
<1>3. ASSUME NEW j \in 1 .. m, j # 1
      PROVE  /\ j - 1 \in 1 .. m
             /\ update_path_to_next_leaf(leaves[j - 1], leaves[j], path_vertices(leaves[j - 1])) =
                    path_vertices(leaves[j])
    <2>1. j - 1 \in 1 .. m
        BY <1>1, <1>3
    <2>2. QED BY <2>1, <1>1, PathMovesOn
<1> HIDE DEF m
<1>4. IsThis(W)
    <2>1. \A j \in 1 .. m : path_vertices(leaves[j]) =
                IF j = 1 THEN path_vertices(leaves[1])
                ELSE update_path_to_next_leaf(leaves[j - 1], leaves[j], W[j - 1])
        <3>1. ASSUME NEW j \in 1 .. m, j # 1
              PROVE  path_vertices(leaves[j]) = update_path_to_next_leaf(leaves[j - 1], leaves[j], W[j - 1])
            <4>1. W[j - 1] = path_vertices(leaves[j - 1])
                BY <1>3, <3>1
            <4>2. QED BY <1>3, <3>1, <4>1
        <3>2. QED BY <3>1
    <2>2. QED BY <2>1, <1>1
<1>5. IsThis(running)
    <2> HIDE DEF IsThis, W
    <2>1. QED BY <1>4
<1> HIDE DEF running
<1>60. \A j \in 1 .. m : running[j] = IF j = 1 THEN path_vertices(leaves[1])
                                ELSE update_path_to_next_leaf(leaves[j - 1], leaves[j], running[j - 1])
    BY <1>1, <1>5
<1>6. \A j \in 1 .. m : running[j] = path_vertices(leaves[j])
    <2> DEFINE P == {k \in Nat : k + 1 \in 1 .. m => running[k + 1] = path_vertices(leaves[k + 1])}
    <2>1. 0 \in P
        BY <1>60
    <2>2. ASSUME NEW k \in Nat, k \in P PROVE k + 1 \in P
        <3> SUFFICES ASSUME (k + 1) + 1 \in 1 .. m
                     PROVE  running[(k + 1) + 1] = path_vertices(leaves[(k + 1) + 1])
            OBVIOUS
        <3> DEFINE j == (k + 1) + 1
        <3>1. j \in 1 .. m /\ j # 1 /\ j - 1 = k + 1 /\ k + 1 \in 1 .. m
            BY <1>1
        <3>2. running[k + 1] = path_vertices(leaves[k + 1])
            BY <2>2, <3>1
        <3> HIDE DEF j, P
        <3>3. running[j] = update_path_to_next_leaf(leaves[j - 1], leaves[j], running[j - 1])
            BY <1>60, <3>1
        <3>4. running[j] = path_vertices(leaves[j])
            BY <1>3, <3>1, <3>2, <3>3
        <3>5. QED BY <3>4 DEF j
    <2> HIDE DEF P
    <2>3. \A k \in Nat : k \in P
        BY <2>1, <2>2, NumberInduction
    <2>4. ASSUME NEW j \in 1 .. m PROVE running[j] = path_vertices(leaves[j])
        <3>1. j - 1 \in Nat /\ (j - 1) + 1 = j
            BY <1>1
        <3>2. j - 1 \in P
            BY <2>3, <3>1
        <3>3. QED BY <3>1, <3>2 DEF P
    <2>5. QED BY <2>4
<1>7. QED BY <1>1, <1>2, <1>6 DEF m

\* An entry of a frontier at depth d: a node on the way to a leaf, with the
\* vertices that every leaf below it has on its path.
StandsFor(entry, leaves, d) ==
    /\ \E leaf \in LeavesIn(leaves) : get_node_by_depth(leaf, d) = entry[1]
    /\ \A w : w \notin entry[2] =>
            \E leaf \in LeavesIn(leaves) : get_node_by_depth(leaf, d) = entry[1] /\ w \notin path_vertices(leaf)

\* An entry that a leaf is below.
IsAbove(entry, leaf, d) == get_node_by_depth(leaf, d) = entry[1] /\ entry[2] \subseteq path_vertices(leaf)

IsFrontier(F, leaves, d) ==
    /\ F \in Seq(Entries)
    /\ \A q \in 1 .. Len(F) : StandsFor(F[q], leaves, d)
    /\ \A leaf \in LeavesIn(leaves) : \E q \in 1 .. Len(F) : IsAbove(F[q], leaf, d)

\* What the first k entries of F are merged to.
ComesFrom(entry, F, k) ==
    /\ \E j \in 1 .. k : Front(F[j][1]) = entry[1]
    /\ \A w : w \notin entry[2] => \E j \in 1 .. k : Front(F[j][1]) = entry[1] /\ w \notin F[j][2]

GoesTo(entry, up) == \E q \in 1 .. Len(up) : up[q][1] = Front(entry[1]) /\ up[q][2] \subseteq entry[2]

IsMerged(up, F, k) ==
    /\ up \in Seq(Entries)
    /\ \A q \in 1 .. Len(up) : ComesFrom(up[q], F, k)
    /\ \A j \in 1 .. k : GoesTo(F[j], up)

MergedTo(F, k) == {up \in Seq(Entries) : IsMerged(up, F, k)}

MergeOne(up, entry) ==
    IF up # <<>> /\ Last(up)[1] = Front(entry[1])
    THEN Append(Front(up), <<Front(entry[1]), Last(up)[2] \cap entry[2]>>)
    ELSE Append(up, <<Front(entry[1]), entry[2]>>)

\* A sequence with its last element replaced.
IsReplaced(r, s, x) ==
    /\ Len(r) = Len(s) /\ Len(s) > 0
    /\ r[Len(s)] = x /\ Last(s) = s[Len(s)]
    /\ \A q \in 1 .. Len(s) - 1 : r[q] = s[q]

\* Append and Front replace it.
LEMMA LastReplaced ==
    ASSUME NEW T, NEW s \in Seq(T), s # <<>>, NEW x \in T
    PROVE  Append(Front(s), x) \in Seq(T) /\ IsReplaced(Append(Front(s), x), s, x)
<1>1. Len(s) \in Nat /\ Len(s) # 0
    BY EmptySeq
<1>2. Front(s) \in Seq(T) /\ Len(Front(s)) = Len(s) - 1 /\ \A q \in 1 .. Len(s) - 1 : Front(s)[q] = s[q]
    <2> DEFINE m == Len(s) - 1
    <2>1. m \in Nat /\ m <= Len(s) /\ \A q \in 1 .. m : s[q] \in T
        BY <1>1
    <2>2. Front(s) = SubSeq(s, 1, m)
        BY DEF Front
    <2>20. m \in 1 - 1 .. Len(s) /\ 1 \in 1 .. Len(s) + 1 /\ m - 1 + 1 = m
        BY <1>1, <2>1
    <2> HIDE DEF m
    <2>21. /\ SubSeq(s, 1, m) \in Seq(T) /\ Len(SubSeq(s, 1, m)) = m - 1 + 1
           /\ \A q \in 1 .. m - 1 + 1 : SubSeq(s, 1, m)[q] = s[1 + q - 1]
        BY <2>20, SubSeqProperties
    <2>3. \A q \in 1 .. m : SubSeq(s, 1, m)[q] = s[q]
        <3>1. \A q \in 1 .. m : 1 + q - 1 = q
            BY <2>1
        <3>2. QED BY <3>1, <2>20, <2>21
    <2>4. QED BY <2>2, <2>20, <2>21, <2>3 DEF m
<1>3. Last(s) = s[Len(s)]
    BY DEF Last
<1> DEFINE f == Front(s)
           r == Append(f, x)
<1> HIDE DEF f
<1>4. f \in Seq(T) /\ Len(f) = Len(s) - 1 /\ \A q \in 1 .. Len(s) - 1 : f[q] = s[q]
    BY <1>2 DEF f
<1>5. r \in Seq(T) /\ Len(r) = Len(s) /\ r[Len(s)] = x /\ \A q \in 1 .. Len(s) - 1 : r[q] = f[q]
    BY <1>1, <1>4
<1>6. IsReplaced(r, s, x)
    BY <1>1, <1>3, <1>4, <1>5 DEF IsReplaced
<1>7. QED BY <1>5, <1>6 DEF f

\* Less is asked of what is merged from more.
LEMMA ComesFromMore ==
    ASSUME NEW F, NEW k \in Nat, NEW l \in Nat, k <= l, NEW entry, ComesFrom(entry, F, k)
    PROVE  ComesFrom(entry, F, l)
<1>1. \A j \in 1 .. k : j \in 1 .. l
    OBVIOUS
<1>2. QED BY <1>1 DEF ComesFrom

\* One entry more is merged in.
LEMMA MergeOneMore ==
    ASSUME NEW F \in Seq(Entries), NEW k \in 1 .. Len(F), NEW up, IsMerged(up, F, k - 1),
           \A j \in 1 .. Len(F) : F[j][1] # <<>>
    PROVE  IsMerged(MergeOne(up, F[k]), F, k)
<1> DEFINE e == F[k]
           parent == Front(e[1])
           path == e[2]
           new == MergeOne(up, e)
<1>1. e \in Entries /\ e[1] \in Seq(Nat) /\ e[1] # <<>> /\ path \subseteq Nat
    BY DEF Entries
<1>2. parent \in Seq(Nat)
    BY <1>1, NodeFacts
<1>3. k \in 1 .. k /\ k \in Nat /\ k - 1 \in Nat /\ \A j \in 1 .. k : j = k \/ j \in 1 .. k - 1
    OBVIOUS
<1>4. /\ up \in Seq(Entries)
      /\ \A q \in 1 .. Len(up) : ComesFrom(up[q], F, k - 1)
      /\ \A j \in 1 .. k - 1 : GoesTo(F[j], up)
    BY DEF IsMerged
<1>5. \A q \in 1 .. Len(up) : ComesFrom(up[q], F, k)
    BY <1>3, <1>4, ComesFromMore
<1>6. CASE up # <<>> /\ Last(up)[1] = parent
    <2> DEFINE l == Len(up)
               x == <<parent, Last(up)[2] \cap path>>
    <2>1. x \in Entries
        BY <1>1, <1>2 DEF Entries
    <2>2. new = Append(Front(up), x)
        BY <1>6 DEF MergeOne
    <2> HIDE DEF x
    <2>30. up \in Seq(Entries) /\ up # <<>> /\ l \in Nat
        BY <1>4, <1>6
    <2> HIDE DEF new
    <2>31. new \in Seq(Entries) /\ IsReplaced(new, up, x)
        BY <2>1, <2>2, <2>30, LastReplaced
    <2>3. /\ new \in Seq(Entries) /\ Len(new) = l /\ l \in Nat /\ l > 0
          /\ new[l] = x /\ Last(up) = up[l]
          /\ \A q \in 1 .. l - 1 : new[q] = up[q]
        BY <2>30, <2>31 DEF IsReplaced
    <2>4. x[1] = parent /\ x[2] = up[l][2] \cap path /\ up[l][1] = parent
        BY <1>6, <2>3 DEF x
    <2> HIDE DEF new, l
    <2>5. \A q \in 1 .. l : q = l \/ q \in 1 .. l - 1
        BY <2>3
    <2>50. l \in 1 .. l /\ \A q \in 1 .. l - 1 : q \in 1 .. l
        BY <2>3
    <2>6. ComesFrom(x, F, k)
        <3>1. \E j \in 1 .. k : Front(F[j][1]) = x[1]
            BY <1>3, <2>4
        <3>2. ASSUME NEW w, w \notin x[2] PROVE \E j \in 1 .. k : Front(F[j][1]) = x[1] /\ w \notin F[j][2]
            <4>1. CASE w \notin path
                BY <1>3, <2>4, <4>1
            <4>2. CASE w \notin up[l][2]
                <5>1. ComesFrom(up[l], F, k)
                    BY <1>5, <2>50 DEF l
                <5>2. QED BY <5>1, <4>2, <2>4 DEF ComesFrom
            <4>3. QED BY <3>2, <4>1, <4>2, <2>4
        <3>3. QED BY <3>1, <3>2 DEF ComesFrom
    <2>7. \A q \in 1 .. Len(new) : ComesFrom(new[q], F, k)
        BY <1>5, <2>3, <2>5, <2>50, <2>6 DEF l
    <2>8. ASSUME NEW j \in 1 .. k PROVE GoesTo(F[j], new)
        <3>1. CASE j = k
            <4>1. new[l][1] = Front(F[j][1]) /\ new[l][2] \subseteq F[j][2]
                BY <2>3, <2>4, <3>1
            <4>2. QED BY <4>1, <2>3, <2>50 DEF GoesTo
        <3>2. CASE j \in 1 .. k - 1
            <4>1. PICK q \in 1 .. l : up[q][1] = Front(F[j][1]) /\ up[q][2] \subseteq F[j][2]
                BY <1>4, <3>2 DEF GoesTo, l
            <4>2. new[q][1] = up[q][1] /\ new[q][2] \subseteq up[q][2]
                BY <2>3, <2>4, <2>5
            <4>3. QED BY <4>1, <4>2, <2>3 DEF GoesTo
        <3>3. QED BY <1>3, <3>1, <3>2
    <2>9. IsMerged(new, F, k)
        BY <2>3, <2>7, <2>8 DEF IsMerged
    <2>10. QED BY <2>9 DEF new
<1>7. CASE ~(up # <<>> /\ Last(up)[1] = parent)
    <2> DEFINE l == Len(up)
               x == <<parent, path>>
    <2>1. x \in Entries
        BY <1>1, <1>2 DEF Entries
    <2>2. new = Append(up, x)
        BY <1>7 DEF MergeOne
    <2> HIDE DEF x
    <2>3. /\ new \in Seq(Entries) /\ Len(new) = l + 1 /\ l \in Nat
          /\ new[l + 1] = x /\ \A q \in 1 .. l : new[q] = up[q]
        BY <1>4, <2>1, <2>2
    <2>4. x[1] = parent /\ x[2] = path
        BY DEF x
    <2> HIDE DEF new, l
    <2>5. l + 1 \in 1 .. l + 1 /\ \A q \in 1 .. l + 1 : q = l + 1 \/ q \in 1 .. l
        BY <2>3
    <2>50. \A q \in 1 .. l : q \in 1 .. l + 1
        BY <2>3
    <2>6. ComesFrom(x, F, k)
        BY <1>3, <2>4 DEF ComesFrom
    <2>7. \A q \in 1 .. Len(new) : ComesFrom(new[q], F, k)
        BY <1>5, <2>3, <2>5, <2>6 DEF l
    <2>8. ASSUME NEW j \in 1 .. k PROVE GoesTo(F[j], new)
        <3>1. CASE j = k
            BY <2>3, <2>4, <2>5, <3>1 DEF GoesTo
        <3>2. CASE j \in 1 .. k - 1
            <4>1. PICK q \in 1 .. l : up[q][1] = Front(F[j][1]) /\ up[q][2] \subseteq F[j][2]
                BY <1>4, <3>2 DEF GoesTo, l
            <4>2. QED BY <4>1, <2>3, <2>50 DEF GoesTo
        <3>3. QED BY <1>3, <3>1, <3>2
    <2>9. IsMerged(new, F, k)
        BY <2>3, <2>7, <2>8 DEF IsMerged
    <2>10. QED BY <2>9 DEF new
<1>8. QED BY <1>6, <1>7

\* To be one that is merged so far.
LEMMA MergedToIs ==
    ASSUME NEW F, NEW k, NEW up
    PROVE  up \in MergedTo(F, k) <=> IsMerged(up, F, k)
BY DEF MergedTo, IsMerged

\* Neighbours with one parent are merged, from the first to the last.
LEMMA AdvanceIsMerged ==
    ASSUME NEW F \in Seq(Entries), \A j \in 1 .. Len(F) : F[j][1] # <<>>
    PROVE  IsMerged(advance_frontier_to_parents(F), F, Len(F))
<1> DEFINE m == Len(F)
           X == [k \in 0 .. m |-> MergedTo(F, k)]
           step == [k \in 1 .. m |-> [up \in X[k - 1] |-> MergeOne(up, F[k])]]
           IsThis(f) == f = [k \in 0 .. m |->
                               IF k = 0 THEN <<>>
                               ELSE LET up     == f[k - 1]
                                        parent == Front(F[k][1])
                                        path   == F[k][2] IN
                                    IF up # <<>> /\ Last(up)[1] = parent
                                    THEN Append(Front(up), <<parent, Last(up)[2] \cap path>>)
                                    ELSE Append(up, <<parent, path>>)]
           Follows(f) == f = [k \in 0 .. m |-> IF k = 0 THEN <<>> ELSE MergeOne(f[k - 1], F[k])]
           merged == CHOOSE f : IsThis(f)
<1>0. m \in Nat
    OBVIOUS
<1>1. advance_frontier_to_parents(F) = merged[m]
    BY DEF advance_frontier_to_parents
<1>2. \A f : IsThis(f) <=> Follows(f)
    BY DEF MergeOne
<1>3. \A k \in 0 .. m : X[k] = MergedTo(F, k)
    OBVIOUS
<1>30. 0 \in 0 .. m /\ m \in 0 .. m /\ \A k \in 1 .. m : k \in 0 .. m /\ k - 1 \in 0 .. m /\ k # 0
    BY <1>0
<1>5. <<>> \in X[0]
    <2>1. <<>> \in Seq(Entries) /\ Len(<<>>) = 0 /\ 1 .. 0 = {}
        BY EmptySeq
    <2>2. IsMerged(<<>>, F, 0)
        BY <2>1 DEF IsMerged
    <2>3. <<>> \in MergedTo(F, 0)
        BY <2>2, MergedToIs
    <2>4. QED BY <2>3, <1>3, <1>30
<1>6. ASSUME NEW k \in 1 .. m, NEW up \in X[k - 1] PROVE MergeOne(up, F[k]) \in X[k]
    <2>1. IsMerged(up, F, k - 1)
        BY <1>3, <1>30, <1>6, MergedToIs
    <2>2. IsMerged(MergeOne(up, F[k]), F, k)
        BY <2>1, MergeOneMore
    <2>3. MergeOne(up, F[k]) \in MergedTo(F, k)
        BY <2>2, MergedToIs
    <2>4. QED BY <2>3, <1>3, <1>30
<1> HIDE DEF X
<1>7. \A k \in 1 .. m : \A up \in X[k - 1] : step[k][up] = MergeOne(up, F[k])
    OBVIOUS
<1>70. \A k \in 1 .. m : \A up \in X[k - 1] : step[k][up] \in X[k]
    BY <1>6, <1>7
<1> HIDE DEF step, m, IsThis
<1>8. \E f : Follows(f)
    <2>1. PICK f : IsRunThrough(f, X, <<>>, step, m)
        BY <1>0, <1>5, <1>70, RunFound
    <2>2. /\ f = [k \in 0 .. m |-> f[k]] /\ f[0] = <<>>
          /\ \A k \in 1 .. m : f[k] = MergeOne(f[k - 1], F[k])
        BY <2>1, <1>7 DEF IsRunThrough
    <2>3. \A k \in 0 .. m : k # 0 => k \in 1 .. m
        BY <1>0
    <2>4. Follows(f)
        BY <2>2, <2>3
    <2>5. QED BY <2>4
<1>9. Follows(merged)
    <2> HIDE DEF Follows
    <2>1. QED BY <1>2, <1>8
<1> HIDE DEF merged
<1>10. merged[0] = <<>> /\ \A k \in 1 .. m : merged[k] = MergeOne(merged[k - 1], F[k])
    BY <1>9, <1>30
<1>11. \A k \in 1 .. m : merged[k - 1] \in X[k - 1] => merged[k] \in X[k]
    BY <1>10, <1>6
<1>110. merged[0] \in X[0]
    BY <1>5, <1>10
<1>12. \A k \in 0 .. m : merged[k] \in X[k]
    BY <1>0, <1>11, <1>110, RunStays
<1>13. merged[m] \in MergedTo(F, m)
    BY <1>3, <1>12, <1>30
<1>14. QED BY <1>1, <1>13, MergedToIs DEF m

\* The frontier of the parents.
LEMMA ParentFrontier ==
    ASSUME NEW leaves, NEW n, AreCounted(leaves, n), NEW d \in 1 .. n - 1,
           NEW F, IsFrontier(F, leaves, d + 1)
    PROVE  IsFrontier(advance_frontier_to_parents(F), leaves, d)
<1> DEFINE up == advance_frontier_to_parents(F)
           m == Len(F)
<1>0. /\ n \in Nat /\ d \in Nat /\ d \in 0 .. n /\ d + 1 \in 0 .. n /\ d + 1 > 0 /\ (d + 1) - 1 = d
      /\ \A leaf \in LeavesIn(leaves) : leaf \in Seq(Nat) /\ Len(leaf) = n
    BY DEF AreCounted, AreLeaves, LeavesIn
<1>1. /\ F \in Seq(Entries) /\ m \in Nat
      /\ \A q \in 1 .. m : StandsFor(F[q], leaves, d + 1)
      /\ \A leaf \in LeavesIn(leaves) : \E q \in 1 .. m : IsAbove(F[q], leaf, d + 1)
    BY DEF IsFrontier
<1>2. ASSUME NEW leaf \in LeavesIn(leaves)
      PROVE  /\ get_node_by_depth(leaf, d + 1) # <<>>
             /\ Front(get_node_by_depth(leaf, d + 1)) = get_node_by_depth(leaf, d)
    <2>1. leaf \in Seq(Nat) /\ Len(leaf) = n
        BY <1>0
    <2>2. QED BY <2>1, <1>0, DepthFacts
<1>3. \A j \in 1 .. m : F[j][1] # <<>>
    BY <1>1, <1>2 DEF StandsFor
<1>4. IsMerged(up, F, m)
    BY <1>1, <1>3, AdvanceIsMerged
<1> HIDE DEF up, m
<1>5. ASSUME NEW q \in 1 .. Len(up) PROVE StandsFor(up[q], leaves, d)
    <2>1. ComesFrom(up[q], F, m)
        BY <1>4 DEF IsMerged
    <2>2. \E leaf \in LeavesIn(leaves) : get_node_by_depth(leaf, d) = up[q][1]
        <3>1. PICK j \in 1 .. m : Front(F[j][1]) = up[q][1]
            BY <2>1 DEF ComesFrom
        <3>2. PICK leaf \in LeavesIn(leaves) : get_node_by_depth(leaf, d + 1) = F[j][1]
            BY <1>1, <3>1 DEF StandsFor
        <3>3. QED BY <3>1, <3>2, <1>2
    <2>3. ASSUME NEW w, w \notin up[q][2]
          PROVE  \E leaf \in LeavesIn(leaves) : get_node_by_depth(leaf, d) = up[q][1] /\ w \notin path_vertices(leaf)
        <3>1. PICK j \in 1 .. m : Front(F[j][1]) = up[q][1] /\ w \notin F[j][2]
            BY <2>1, <2>3 DEF ComesFrom
        <3>2. PICK leaf \in LeavesIn(leaves) : get_node_by_depth(leaf, d + 1) = F[j][1] /\ w \notin path_vertices(leaf)
            BY <1>1, <3>1 DEF StandsFor
        <3>3. QED BY <3>1, <3>2, <1>2
    <2>4. QED BY <2>2, <2>3 DEF StandsFor
<1>6. ASSUME NEW leaf \in LeavesIn(leaves) PROVE \E q \in 1 .. Len(up) : IsAbove(up[q], leaf, d)
    <2>1. PICK j \in 1 .. m : IsAbove(F[j], leaf, d + 1)
        BY <1>1
    <2>2. GoesTo(F[j], up)
        BY <1>4 DEF IsMerged
    <2>3. PICK q \in 1 .. Len(up) : up[q][1] = Front(F[j][1]) /\ up[q][2] \subseteq F[j][2]
        BY <2>2 DEF GoesTo
    <2>4. IsAbove(up[q], leaf, d)
        BY <2>1, <2>3, <1>2 DEF IsAbove
    <2>5. QED BY <2>4
<1>7. IsFrontier(up, leaves, d)
    BY <1>4, <1>5, <1>6 DEF IsFrontier, IsMerged
<1>8. QED BY <1>7 DEF up

\* The frontier of the leaves.
LEMMA LeafFrontier ==
    ASSUME NEW leaves, NEW n, AreCounted(leaves, n)
    PROVE  IsFrontier(build_leaf_frontier_paths(leaves), leaves, n)
<1> DEFINE m == Len(leaves)
           F == [j \in 1 .. m |-> <<leaves[j], path_vertices(leaves[j])>>]
<1>1. /\ n \in Nat /\ m \in Nat
      /\ \A j \in 1 .. m : leaves[j] \in Seq(Nat) /\ Len(leaves[j]) = n
    BY DEF AreCounted, AreLeaves
<1>2. \A j \in 1 .. m : path_vertices(leaves[j]) \subseteq Nat /\ get_node_by_depth(leaves[j], n) = leaves[j]
    <2> SUFFICES ASSUME NEW j \in 1 .. m
                 PROVE  path_vertices(leaves[j]) \subseteq Nat /\ get_node_by_depth(leaves[j], n) = leaves[j]
        OBVIOUS
    <2>1. leaves[j] \in Seq(Nat) /\ Len(leaves[j]) = n /\ n \in 0 .. n
        BY <1>1
    <2>2. path_vertices(leaves[j]) \subseteq Nat
        BY <2>1 DEF path_vertices
    <2>3. QED BY <2>1, <2>2, DepthFacts
<1> HIDE DEF m
<1>3. \A j \in 1 .. m : F[j][1] = leaves[j] /\ F[j][2] = path_vertices(leaves[j]) /\ F[j] \in Entries
    BY <1>1, <1>2 DEF Entries
<1>4. F \in Seq(Entries) /\ Len(F) = m
    BY <1>1, <1>3
<1>40. F = build_leaf_frontier_paths(leaves)
    BY LeafFrontierIs DEF m
<1> HIDE DEF F
<1>5. \A j \in 1 .. m : leaves[j] \in LeavesIn(leaves)
    BY DEF LeavesIn, m
<1>6. \A q \in 1 .. Len(F) : StandsFor(F[q], leaves, n)
    BY <1>2, <1>3, <1>4, <1>5 DEF StandsFor
<1>7. ASSUME NEW leaf \in LeavesIn(leaves) PROVE \E q \in 1 .. Len(F) : IsAbove(F[q], leaf, n)
    <2>1. PICK j \in 1 .. m : leaf = leaves[j]
        BY DEF LeavesIn, m
    <2>2. IsAbove(F[j], leaf, n)
        BY <2>1, <1>2, <1>3 DEF IsAbove
    <2>3. QED BY <2>2, <1>4
<1>8. IsFrontier(F, leaves, n)
    BY <1>4, <1>6, <1>7 DEF IsFrontier
<1>9. QED BY <1>8, <1>40

FrontiersOf(leaves, d) == {F \in Seq(Entries) : IsFrontier(F, leaves, d)}

\* To be such a frontier.
LEMMA FrontiersOfIs ==
    ASSUME NEW leaves, NEW d, NEW F
    PROVE  F \in FrontiersOf(leaves, d) <=> IsFrontier(F, leaves, d)
BY DEF FrontiersOf, IsFrontier

\* Every depth has the frontier of its nodes.
LEMMA FrontiersAre ==
    ASSUME NEW leaves, NEW n, AreCounted(leaves, n)
    PROVE  \A d \in 1 .. n : IsFrontier(frontiers(leaves)[d], leaves, d)
<1> DEFINE base == build_leaf_frontier_paths(leaves)
           IsThis(f) == f = [d \in 1 .. Len(leaves[1]) |->
                               IF d = Len(leaves[1]) THEN build_leaf_frontier_paths(leaves)
                               ELSE advance_frontier_to_parents(f[d + 1])]
           Follows(f) == f = [d \in 1 .. n |->
                               IF d = n THEN base ELSE advance_frontier_to_parents(f[d + 1])]
           at == CHOOSE f : IsThis(f)
           m == n - 1
           X == [k \in 0 .. m |-> FrontiersOf(leaves, n - k)]
           step == [k \in 1 .. m |-> [F \in X[k - 1] |-> advance_frontier_to_parents(F)]]
<1>0. n \in Nat /\ n > 0 /\ m \in Nat /\ n = m + 1 /\ Len(leaves[1]) = n
    <2>1. n \in Nat /\ n > 0 /\ Len(leaves) > 0 /\ leaves \in Seq(Seq(Nat))
        BY DEF AreCounted, AreLeaves
    <2>2. 1 \in 1 .. Len(leaves)
        BY <2>1
    <2>3. Len(leaves[1]) = n
        BY <2>2 DEF AreCounted, AreLeaves
    <2>4. QED BY <2>1, <2>3
<1>1. frontiers(leaves) = at
    BY DEF frontiers
<1>2. \A f : IsThis(f) <=> Follows(f)
    BY <1>0
<1>3. \A k \in 0 .. m : X[k] = FrontiersOf(leaves, n - k)
    OBVIOUS
<1> HIDE DEF X, m
<1>30. 0 \in 0 .. m /\ m \in 0 .. m /\ \A k \in 1 .. m : k \in 0 .. m /\ k - 1 \in 0 .. m /\ k # 0
    BY <1>0
<1>5. base \in X[0]
    <2>1. n - 0 = n
        BY <1>0
    <2>2. base \in FrontiersOf(leaves, n)
        BY LeafFrontier, FrontiersOfIs
    <2>3. QED BY <2>1, <2>2, <1>3, <1>30
<1> HIDE DEF base
<1>6. ASSUME NEW k \in 1 .. m, NEW F \in X[k - 1] PROVE advance_frontier_to_parents(F) \in X[k]
    <2> DEFINE d == n - k
    <2>1. d \in 1 .. n - 1 /\ n - (k - 1) = d + 1
        BY <1>0
    <2>2. F \in FrontiersOf(leaves, d + 1)
        BY <1>3, <1>30, <1>6, <2>1
    <2> HIDE DEF d
    <2>3. IsFrontier(F, leaves, d + 1)
        BY <2>2, FrontiersOfIs
    <2>4. IsFrontier(advance_frontier_to_parents(F), leaves, d)
        BY <2>1, <2>3, ParentFrontier
    <2>5. advance_frontier_to_parents(F) \in FrontiersOf(leaves, d)
        BY <2>4, FrontiersOfIs
    <2>6. QED BY <2>5, <1>3, <1>30 DEF d
<1>7. \A k \in 1 .. m : \A F \in X[k - 1] : step[k][F] = advance_frontier_to_parents(F)
    OBVIOUS
<1>70. \A k \in 1 .. m : \A F \in X[k - 1] : step[k][F] \in X[k]
    BY <1>6, <1>7
<1> HIDE DEF step, IsThis
<1>8. \E f : Follows(f)
    <2>1. PICK g : IsRunThrough(g, X, base, step, m)
        BY <1>0, <1>5, <1>70, RunFound
    <2>2. /\ g[0] = base
          /\ \A k \in 1 .. m : g[k] = advance_frontier_to_parents(g[k - 1])
        BY <2>1, <1>7 DEF IsRunThrough
    <2> DEFINE f == [d \in 1 .. n |-> g[n - d]]
    <2>3. ASSUME NEW d \in 1 .. n
          PROVE  f[d] = IF d = n THEN base ELSE advance_frontier_to_parents(f[d + 1])
        <3>1. CASE d = n
            <4>1. n - d = 0
                BY <1>0, <3>1
            <4>2. QED BY <2>2, <3>1, <4>1
        <3>2. CASE d # n
            <4>1. n - d \in 1 .. m /\ (n - d) - 1 = n - (d + 1) /\ d + 1 \in 1 .. n
                BY <1>0, <3>2
            <4>2. f[d] = g[n - d] /\ f[d + 1] = g[n - (d + 1)]
                BY <4>1
            <4>3. g[n - d] = advance_frontier_to_parents(g[(n - d) - 1])
                BY <2>2, <4>1
            <4>4. QED BY <3>2, <4>1, <4>2, <4>3
        <3>3. QED BY <3>1, <3>2
    <2>4. f = [d \in 1 .. n |-> f[d]]
        OBVIOUS
    <2> HIDE DEF f
    <2>5. Follows(f)
        BY <2>3, <2>4
    <2>6. QED BY <2>5
<1>9. Follows(at)
    <2> HIDE DEF Follows
    <2>1. QED BY <1>2, <1>8
<1> HIDE DEF at
<1>10. \A d \in 1 .. n : at[d] = IF d = n THEN base ELSE advance_frontier_to_parents(at[d + 1])
    BY <1>9
<1> DEFINE g == [k \in 0 .. m |-> at[n - k]]
<1>11. \A k \in 1 .. m : g[k - 1] \in X[k - 1] => g[k] \in X[k]
    <2> SUFFICES ASSUME NEW k \in 1 .. m, g[k - 1] \in X[k - 1] PROVE g[k] \in X[k]
        OBVIOUS
    <2>1. n - k \in 1 .. n /\ n - k # n /\ (n - k) + 1 = n - (k - 1)
        BY <1>0
    <2>2. at[n - k] = advance_frontier_to_parents(at[(n - k) + 1])
        BY <1>10, <2>1
    <2>3. g[k] = at[n - k] /\ g[k - 1] = at[n - (k - 1)]
        BY <1>30
    <2>4. QED BY <1>6, <2>1, <2>2, <2>3
<1>110. g[0] \in X[0]
    <2>1. g[0] = at[n] /\ n \in 1 .. n
        BY <1>0, <1>30
    <2>2. QED BY <1>5, <1>10, <2>1
<1>12. \A k \in 0 .. m : g[k] \in X[k]
    <2> HIDE DEF g
    <2>1. QED BY <1>0, <1>11, <1>110, RunStays
<1>13. ASSUME NEW d \in 1 .. n PROVE IsFrontier(at[d], leaves, d)
    <2>1. n - d \in 0 .. m /\ n - (n - d) = d
        BY <1>0
    <2>2. g[n - d] = at[d] /\ g[n - d] \in X[n - d]
        BY <2>1, <1>12
    <2>3. at[d] \in FrontiersOf(leaves, d)
        BY <2>1, <2>2, <1>3
    <2>4. QED BY <2>3, FrontiersOfIs
<1>14. QED BY <1>1, <1>13

\* The pattern vertex has, in some match, a neighbour that is not in the match.
IsOpen(g, leaves, color, vertex, reversed) ==
    \E leaf \in LeavesIn(leaves) : \E w \in get_neighbours(g, leaf[vertex + 1], reversed) :
        w \notin path_vertices(leaf) /\ get_vertex_color(g, w) = color

\* It is counted exactly if it is so.
LEMMA CountIsPositive ==
    ASSUME NEW g, IsColoredGraph(g), NEW leaves, NEW n, AreCounted(leaves, n), NEW vertex \in 0 .. n - 1,
           NEW F, IsFrontier(F, leaves, vertex + 1), NEW color, NEW reversed
    PROVE  neighbour_count(g, F, color, reversed) > 0 <=> IsOpen(g, leaves, color, vertex, reversed)
<1> DEFINE m == Len(F)
           Off(entry) == {w \in get_neighbours(g, Last(entry[1]), reversed) \ entry[2] :
                            get_vertex_color(g, w) = color}
           f == [q \in DOMAIN F |-> Cardinality(Off(F[q]))]
           d == vertex + 1
<1>0. /\ n \in Nat /\ vertex \in Nat /\ d \in Nat /\ d \in 0 .. n /\ d \in 1 .. d /\ d > 0
      /\ \A leaf \in LeavesIn(leaves) : leaf \in Seq(Nat) /\ Len(leaf) = n
    BY DEF AreCounted, AreLeaves, LeavesIn
<1>1. /\ DOMAIN F = 1 .. m /\ m \in Nat
      /\ \A q \in 1 .. m : StandsFor(F[q], leaves, d)
      /\ \A leaf \in LeavesIn(leaves) : \E q \in 1 .. m : IsAbove(F[q], leaf, d)
    BY DEF IsFrontier
<1>2. neighbour_count(g, F, color, reversed) = SumFunctionOnSet(f, DOMAIN f)
    BY DEF neighbour_count, SumFunction
<1>3. DOMAIN f = 1 .. m /\ \A q \in 1 .. m : f[q] = Cardinality(Off(F[q]))
    BY <1>1
<1>4. ASSUME NEW leaf \in LeavesIn(leaves)
      PROVE  Last(get_node_by_depth(leaf, d)) = leaf[vertex + 1]
    <2> DEFINE s == get_node_by_depth(leaf, d)
    <2>1. leaf \in Seq(Nat) /\ Len(leaf) = n
        BY <1>0
    <2>2. Len(s) = d /\ s[d] = leaf[d]
        BY <2>1, <1>0, DepthFacts
    <2> HIDE DEF s
    <2>3. Last(s) = leaf[d]
        BY <2>2 DEF Last
    <2>4. QED BY <2>3 DEF s
<1>5. ASSUME NEW q \in 1 .. m
      PROVE  f[q] \in Nat /\ (f[q] > 0 <=> Off(F[q]) # {})
    <2> DEFINE S == Off(F[q])
    <2>1. IsFiniteSet(Vertices(g)) /\ S \in SUBSET Vertices(g)
        BY VerticesAre DEF get_neighbours
    <2> HIDE DEF S
    <2>2. IsFiniteSet(S)
        BY <2>1, FS_Subset
    <2>3. Cardinality(S) \in Nat /\ (Cardinality(S) = 0 <=> S = {})
        BY <2>2, FS_CardinalityType, FS_EmptySet
    <2>4. f[q] = Cardinality(S)
        BY <1>3 DEF S
    <2> HIDE DEF f
    <2>5. f[q] \in Nat /\ (f[q] > 0 <=> S # {})
        BY <2>3, <2>4
    <2>6. QED BY <2>5 DEF S
<1> HIDE DEF f, Off, m
<1>6. SumFunctionOnSet(f, 1 .. m) > 0 <=> \E q \in 1 .. m : f[q] > 0
    <2>1. IsFiniteSet(1 .. m)
        BY <1>1, FS_Interval
    <2>2. \A q \in 1 .. m : f[q] \in Nat
        BY <1>5
    <2>3. QED BY <2>1, <2>2, SumIsPositive
<1>7. neighbour_count(g, F, color, reversed) > 0 <=> \E q \in 1 .. m : Off(F[q]) # {}
    BY <1>2, <1>3, <1>5, <1>6
<1>8. ASSUME NEW q \in 1 .. m, NEW w \in Off(F[q]) PROVE IsOpen(g, leaves, color, vertex, reversed)
    <2>1. /\ w \in get_neighbours(g, Last(F[q][1]), reversed) /\ w \notin F[q][2]
          /\ get_vertex_color(g, w) = color
        BY <1>8 DEF Off
    <2>2. PICK leaf \in LeavesIn(leaves) : get_node_by_depth(leaf, d) = F[q][1] /\ w \notin path_vertices(leaf)
        BY <1>1, <2>1 DEF StandsFor
    <2>3. w \in get_neighbours(g, leaf[vertex + 1], reversed)
        BY <1>4, <2>1, <2>2
    <2>4. QED BY <2>1, <2>2, <2>3 DEF IsOpen
<1>9. ASSUME IsOpen(g, leaves, color, vertex, reversed) PROVE \E q \in 1 .. m : Off(F[q]) # {}
    <2>1. PICK leaf \in LeavesIn(leaves) : \E w \in get_neighbours(g, leaf[vertex + 1], reversed) :
                w \notin path_vertices(leaf) /\ get_vertex_color(g, w) = color
        BY <1>9 DEF IsOpen
    <2>2. PICK w \in get_neighbours(g, leaf[vertex + 1], reversed) :
                w \notin path_vertices(leaf) /\ get_vertex_color(g, w) = color
        BY <2>1
    <2>3. PICK q \in 1 .. m : get_node_by_depth(leaf, d) = F[q][1] /\ F[q][2] \subseteq path_vertices(leaf)
        BY <1>1 DEF IsAbove
    <2>4. w \in get_neighbours(g, Last(F[q][1]), reversed) /\ w \notin F[q][2]
        BY <1>4, <2>2, <2>3
    <2>5. w \in Off(F[q])
        BY <2>2, <2>4 DEF Off
    <2>6. QED BY <2>5
<1>10. QED BY <1>7, <1>8, <1>9

\* The keys of the counts of a graph.
LEMMA CountsAre ==
    ASSUME NEW g, IsColoredGraph(g), NEW leaves, NEW n, AreLeaves(leaves, n), n > 0,
           \A j \in 1 .. Len(leaves) : IsInjectiveList(leaves[j]), NEW key
    PROVE  key \in DOMAIN neighbour_counts(g, leaves) <=>
                /\ key \in {g.color[v] : v \in Vertices(g)} \X (0 .. n - 1) \X Directions(g.directed)
                /\ IsOpen(g, leaves, key[1], key[2], key[3])
<1> DEFINE Keys == {g.color[v] : v \in Vertices(g)} \X (0 .. n - 1) \X Directions(g.directed)
           at == frontiers(leaves)
           count == [k \in Keys |-> neighbour_count(g, at[k[2] + 1], k[1], k[3])]
<1>1. CASE leaves = <<>>
    <2>1. DOMAIN neighbour_counts(g, leaves) = {} /\ Len(leaves) = 0 /\ 1 .. 0 = {}
        <3>1. DOMAIN <<>> = {}
            OBVIOUS
        <3>2. QED BY <1>1, <3>1 DEF neighbour_counts
    <2>2. LeavesIn(leaves) = {}
        BY <2>1 DEF LeavesIn
    <2>3. QED BY <2>1, <2>2 DEF IsOpen
<1>2. CASE leaves # <<>>
    <2>1. leaves \in Seq(Seq(Nat)) /\ Len(leaves) \in Nat /\ Len(leaves) # 0
        BY <1>2, EmptySeq DEF AreLeaves
    <2>2. 1 \in 1 .. Len(leaves) /\ Len(leaves) > 0
        BY <2>1
    <2>3. Len(leaves[1]) = n
        BY <2>2 DEF AreLeaves
    <2>4. AreCounted(leaves, n)
        BY <2>2 DEF AreCounted
    <2>5. \A d \in 1 .. n : IsFrontier(at[d], leaves, d)
        BY <2>4, FrontiersAre
    <2>6. neighbour_counts(g, leaves) = [k \in {k \in DOMAIN count : count[k] > 0} |-> count[k]]
        BY <1>2, <2>3 DEF neighbour_counts
    <2>7. DOMAIN neighbour_counts(g, leaves) = {k \in DOMAIN count : count[k] > 0}
        BY <2>6
    <2>8. DOMAIN count = Keys /\ \A k \in Keys : count[k] = neighbour_count(g, at[k[2] + 1], k[1], k[3])
        OBVIOUS
    <2> HIDE DEF count, at
    <2>9. ASSUME key \in Keys PROVE count[key] > 0 <=> IsOpen(g, leaves, key[1], key[2], key[3])
        <3>1. n \in Nat /\ key[2] \in 0 .. n - 1
            BY <2>9 DEF AreLeaves
        <3>2. key[2] + 1 \in 1 .. n
            BY <3>1
        <3>3. neighbour_count(g, at[key[2] + 1], key[1], key[3]) > 0 <=> IsOpen(g, leaves, key[1], key[2], key[3])
            BY <2>4, <2>5, <3>1, <3>2, CountIsPositive
        <3>4. QED BY <2>8, <2>9, <3>3
    <2> HIDE DEF Keys
    <2>10. key \in DOMAIN neighbour_counts(g, leaves) <=> key \in Keys /\ IsOpen(g, leaves, key[1], key[2], key[3])
        BY <2>7, <2>8, <2>9
    <2>11. QED BY <2>10 DEF Keys
<1>3. QED BY <1>1, <1>2

\* What the counts should name.
LEMMA ExtensionsAre ==
    ASSUME NEW i, NEW n, AreLeaves(leaf_matches[i], n), Vertices(m_pattern) = 0 .. n - 1, NEW key
    PROVE  LET g == m_graph_list[i] IN
           key \in Extensions(i) <=>
                /\ key \in {g.color[v] : v \in Vertices(g)} \X (0 .. n - 1) \X Directions(g.directed)
                /\ IsOpen(g, leaf_matches[i], key[1], key[2], key[3])
<1> DEFINE g == m_graph_list[i]
           leaves == leaf_matches[i]
           V == 0 .. n - 1
           D == Directions(g.directed)
           E == {e \in ToSet(leaves) \X Vertices(g) \X V \X D :
                    /\ e[2] \in get_neighbours(g, e[1][e[3] + 1], e[4])
                    /\ e[2] \notin path_vertices(e[1])}
           ColorsHere == {g.color[v] : v \in Vertices(g)}
<1>1. Extensions(i) = {<<get_vertex_color(g, e[2]), e[3], e[4]>> : e \in E}
    BY DEF Extensions
<1>2. ToSet(leaves) = LeavesIn(leaves)
    BY LeavesSet
<1>3. ASSUME NEW e \in E, key = <<get_vertex_color(g, e[2]), e[3], e[4]>>
      PROVE  key \in ColorsHere \X V \X D /\ IsOpen(g, leaves, key[1], key[2], key[3])
    <2>1. /\ e[1] \in LeavesIn(leaves) /\ e[2] \in Vertices(g) /\ e[3] \in V /\ e[4] \in D
          /\ e[2] \in get_neighbours(g, e[1][e[3] + 1], e[4]) /\ e[2] \notin path_vertices(e[1])
        BY <1>2
    <2> HIDE DEF E, D, V
    <2>2. key[1] = get_vertex_color(g, e[2]) /\ key[2] = e[3] /\ key[3] = e[4]
        BY <1>3
    <2>3. IsOpen(g, leaves, key[1], key[2], key[3])
        BY <2>1, <2>2 DEF IsOpen
    <2>4. get_vertex_color(g, e[2]) \in ColorsHere
        BY <2>1 DEF get_vertex_color
    <2> HIDE DEF ColorsHere
    <2>5. key \in ColorsHere \X V \X D
        BY <1>3, <2>1, <2>4
    <2>6. QED BY <2>3, <2>5
<1>4. ASSUME key \in ColorsHere \X V \X D, IsOpen(g, leaves, key[1], key[2], key[3])
      PROVE  key \in Extensions(i)
    <2>1. PICK leaf \in LeavesIn(leaves) : \E w \in get_neighbours(g, leaf[key[2] + 1], key[3]) :
                w \notin path_vertices(leaf) /\ get_vertex_color(g, w) = key[1]
        BY <1>4 DEF IsOpen
    <2>2. PICK w \in get_neighbours(g, leaf[key[2] + 1], key[3]) :
                w \notin path_vertices(leaf) /\ get_vertex_color(g, w) = key[1]
        BY <2>1
    <2>3. w \in Vertices(g)
        BY <2>2 DEF get_neighbours
    <2>4. key = <<key[1], key[2], key[3]>> /\ key[2] \in V /\ key[3] \in D
        BY <1>4
    <2> DEFINE e == <<leaf, w, key[2], key[3]>>
    <2>5. e[1] = leaf /\ e[2] = w /\ e[3] = key[2] /\ e[4] = key[3]
        OBVIOUS
    <2>6. e \in ToSet(leaves) \X Vertices(g) \X V \X D
        BY <1>2, <2>3, <2>4
    <2> HIDE DEF e, V, D
    <2>7. e \in E
        BY <2>2, <2>5, <2>6
    <2>8. key = <<get_vertex_color(g, e[2]), e[3], e[4]>>
        BY <2>2, <2>4, <2>5
    <2> HIDE DEF E
    <2>9. QED BY <1>1, <2>7, <2>8
<1> HIDE DEF E, V, D, ColorsHere
<1>5. key \in Extensions(i) <=> key \in ColorsHere \X V \X D /\ IsOpen(g, leaves, key[1], key[2], key[3])
    BY <1>1, <1>3, <1>4
<1>6. QED BY <1>5 DEF V, D, ColorsHere

\* Leaves that are together at every depth are accepted by validate_parent_ordering.
LEMMA TogetherIsGrouped ==
    ASSUME NEW leaves, NEW d, leaves \in Seq(Seq(Nat)), TogetherAt(leaves, d)
    PROVE  ParentsAreGrouped([k \in DOMAIN leaves |-> <<leaves[k], get_node_by_depth(leaves[k], d)>>])
<1> DEFINE pairs == [k \in DOMAIN leaves |-> <<leaves[k], get_node_by_depth(leaves[k], d)>>]
<1>1. DOMAIN leaves = 1 .. Len(leaves) /\ Len(leaves) \in Nat
    OBVIOUS
<1>2. DOMAIN pairs = 1 .. Len(leaves) /\ \A k \in 1 .. Len(leaves) : pairs[k][2] = get_node_by_depth(leaves[k], d)
    BY <1>1
<1> HIDE DEF pairs
<1>3. \A x, y \in 1 .. Len(leaves) : \A z \in x .. y : z \in 1 .. Len(leaves)
    BY <1>1
<1>4. ASSUME NEW x \in DOMAIN pairs, NEW y \in DOMAIN pairs, x < y, pairs[x][2] = pairs[y][2], NEW z \in x .. y
      PROVE  pairs[z][2] = pairs[x][2]
    <2>1. x \in 1 .. Len(leaves) /\ y \in 1 .. Len(leaves) /\ z \in 1 .. Len(leaves)
        BY <1>2, <1>3
    <2>2. get_node_by_depth(leaves[x], d) = get_node_by_depth(leaves[y], d)
        BY <1>2, <1>4, <2>1
    <2>3. get_node_by_depth(leaves[z], d) = get_node_by_depth(leaves[x], d)
        BY <1>4, <2>1, <2>2 DEF TogetherAt
    <2>4. QED BY <1>2, <2>1, <2>3
<1>5. ParentsAreGrouped(pairs)
    BY <1>4 DEF ParentsAreGrouped
<1>6. QED BY <1>5 DEF pairs

\* The invariant gives the order of the leaves and the keys of the counts.
LEMMA GrowthCounts == GrowthInv => CountsAreOfExtensions
<1> SUFFICES ASSUME GrowthInv, m_pattern # NoPattern, NEW i \in Indexes
             PROVE  LET leaves == leaf_matches[i] IN
                    /\ \A d \in Vertices(m_pattern) :
                         ParentsAreGrouped([k \in DOMAIN leaves |->
                                                <<leaves[k], get_node_by_depth(leaves[k], d + 1)>>])
                    /\ DOMAIN neighbour_counts(m_graph_list[i], leaves) = Extensions(i)
    BY DEF CountsAreOfExtensions
<1> DEFINE g == m_graph_list[i]
           leaves == leaf_matches[i]
           n == vertex_count(m_pattern)
<1>1. job \in Jobs /\ Inside
    BY DEF GrowthInv
<1>2. IsTreeOfMatches(g, m_pattern, leaves, m_match_trees[i]) /\ IsPattern(m_pattern) /\ IsColoredGraph(g)
    BY <1>1, GraphsAre DEF Inside
<1>3. /\ AreLeaves(leaves, n) /\ leaves \in Seq(Seq(Nat))
      /\ \A d \in 0 .. n : TogetherAt(leaves, d)
      /\ \A s \in LeavesIn(leaves) : IsImage(s, m_pattern, g)
    BY <1>2 DEF IsTreeOfMatches, AreInOrder, AreLeaves
<1>4. n \in Nat /\ n > 0 /\ Vertices(m_pattern) = 0 .. n - 1
    <2>1. n \in Nat /\ Vertices(m_pattern) = 0 .. n - 1 /\ Vertices(m_pattern) # {}
        BY <1>2, VerticesAre DEF IsPattern
    <2> HIDE DEF n
    <2>2. QED BY <2>1
<1> HIDE DEF g, leaves, n
<1>5. ASSUME NEW d \in Vertices(m_pattern)
      PROVE  ParentsAreGrouped([k \in DOMAIN leaves |-> <<leaves[k], get_node_by_depth(leaves[k], d + 1)>>])
    <2>1. d + 1 \in 0 .. n
        BY <1>4
    <2>2. TogetherAt(leaves, d + 1)
        BY <1>3, <2>1
    <2>3. QED BY <1>3, <2>2, TogetherIsGrouped
<1>6. \A j \in 1 .. Len(leaves) : IsInjectiveList(leaves[j])
    BY <1>3 DEF LeavesIn, IsImage, IsInjectiveList
<1>7. ASSUME NEW key
      PROVE  key \in DOMAIN neighbour_counts(g, leaves) <=> key \in Extensions(i)
    <2>1. key \in DOMAIN neighbour_counts(g, leaves) <=>
                /\ key \in {g.color[v] : v \in Vertices(g)} \X (0 .. n - 1) \X Directions(g.directed)
                /\ IsOpen(g, leaves, key[1], key[2], key[3])
        BY <1>2, <1>3, <1>4, <1>6, CountsAre
    <2>2. key \in Extensions(i) <=>
                /\ key \in {g.color[v] : v \in Vertices(g)} \X (0 .. n - 1) \X Directions(g.directed)
                /\ IsOpen(g, leaves, key[1], key[2], key[3])
        BY <1>3, <1>4, ExtensionsAre DEF g, leaves
    <2>3. QED BY <2>1, <2>2
<1>8. DOMAIN neighbour_counts(g, leaves) = Extensions(i)
    BY <1>7
<1>9. QED BY <1>5, <1>8 DEF g, leaves

\* The counts a vertex is chosen by name exactly what some match can be extended
\* with, and the order of the leaves is the one the counting relies on.
THEOREM CountsStayExact == Spec => []CountsAreOfExtensions
BY AlwaysGrowthInv, GrowthCounts, PTL

=============================================================================
