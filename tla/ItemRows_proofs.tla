-------------------------- MODULE ItemRows_proofs --------------------------
(***************************************************************************)
(* The rows that the items of a document keep, for any types, ancestors    *)
(* and arrays, any number of blocks, and any length that the row numbers   *)
(* are cut to: the links found by the rows are the links there are, and a  *)
(* remembered row is right, but for the last child of the root.            *)
(*                                                                         *)
(* The inductive invariant asks of every tree that it is Grown (the        *)
(* children of an item are numbered from 1 without a gap, and an item is   *)
(* below the one it was put into), Placed (a remembered row is the row),   *)
(* and Linked (every item above a link keeps the row, cut to its length,   *)
(* at which the way to the link goes on).  populateLinksUp notes the rows  *)
(* that the items on the way remember, so that Linked rests on Placed;     *)
(* rows that are kept but lead nowhere, after children were removed, do no *)
(* harm, since the search looks at what is in them.                        *)
(*                                                                         *)
(* insertType and updateArrayItem add row after row by recursion; that     *)
(* they do, and what the search finds, is shown with the tools of          *)
(* LinkGraph_proofs.                                                       *)
(***************************************************************************)
EXTENDS ItemRows, LinkGraph_proofs, SequenceTheorems

------------------------------------------------------------------------------
(* Paths.                                                                  *)

\* The places of a tree: the steps down from its top, each the number of a child.
Paths == Seq(Nat \ {0})

\* The path of the item k levels below the top, on the way to the item at q.
Up(q, k) == SubSeq(q, 1, k)

\* The way to an item has an item at each level.
LEMMA UpRules ==
  ASSUME NEW q \in Paths, NEW k \in 0 .. Len(q)
  PROVE  /\ Up(q, k) \in Paths
         /\ Len(Up(q, k)) = k
         /\ \A i \in 1 .. k : Up(q, k)[i] = q[i]
         /\ Up(q, Len(q)) = q
<1>1. \A i \in 1 .. k : q[i] \in Nat \ {0}
  BY DEF Paths
<1> QED BY <1>1, SubSeqProperties, SubSeqFull DEF Up, Paths

\* Two paths with the same steps are one.
LEMMA SamePath ==
  ASSUME NEW p \in Paths, NEW q \in Paths, Len(p) = Len(q), \A i \in 1 .. Len(p) : p[i] = q[i]
  PROVE  p = q
  BY SeqEqual DEF Paths

\* An item is below another if the way to it starts with the way to the other.
LEMMA PrefixRules ==
  ASSUME NEW p \in Paths, NEW q \in Paths
  PROVE  /\ IsPrefix(p, q) <=> Len(p) <= Len(q) /\ Up(q, Len(p)) = p
         /\ IsPrefix(p, q) <=> Len(p) <= Len(q) /\ \A i \in 1 .. Len(p) : p[i] = q[i]
<1>0. Len(p) \in Nat /\ Len(q) \in Nat
  BY DEF Paths
<1>1. SubSeq(p, 1, Len(p)) = p
  BY SubSeqFull DEF Paths
<1>2. IsPrefix(p, q) <=> Len(p) <= Len(q) /\ Up(q, Len(p)) = p
  BY <1>1 DEF IsPrefix, Up
<1>3. CASE Len(p) <= Len(q)
  <2>1. /\ Up(q, Len(p)) \in Paths
        /\ Len(Up(q, Len(p))) = Len(p)
        /\ \A i \in 1 .. Len(p) : Up(q, Len(p))[i] = q[i]
    BY <1>0, <1>3, UpRules
  <2> QED BY <1>2, <1>3, <2>1, SamePath
<1> QED BY <1>0, <1>2, <1>3

\* The path of a child.
LEMMA ChildRules ==
  ASSUME NEW p \in Paths, NEW j \in Nat \ {0}
  PROVE  /\ Append(p, j) \in Paths
         /\ Len(p) \in Nat
         /\ Len(Append(p, j)) = Len(p) + 1
         /\ Append(p, j)[Len(p) + 1] = j
         /\ Last(Append(p, j)) = j
         /\ \A i \in 1 .. Len(p) : Append(p, j)[i] = p[i]
         /\ Append(p, j) # <<>>
         /\ \A k \in 0 .. Len(p) : Up(Append(p, j), k) = Up(p, k)
<1>1. /\ Append(p, j) \in Paths
      /\ Len(p) \in Nat
      /\ Len(Append(p, j)) = Len(p) + 1
      /\ Append(p, j)[Len(p) + 1] = j
      /\ \A i \in 1 .. Len(p) : Append(p, j)[i] = p[i]
      /\ Append(p, j) # <<>>
  BY AppendProperties DEF Paths
<1>2. Last(Append(p, j)) = j
  BY <1>1 DEF Last
<1>3. ASSUME NEW k \in 0 .. Len(p) PROVE Up(Append(p, j), k) = Up(p, k)
  <2>1. /\ Up(p, k) \in Paths /\ Len(Up(p, k)) = k /\ \A i \in 1 .. k : Up(p, k)[i] = p[i]
    BY UpRules
  <2>2. /\ Up(Append(p, j), k) \in Paths /\ Len(Up(Append(p, j), k)) = k
        /\ \A i \in 1 .. k : Up(Append(p, j), k)[i] = Append(p, j)[i]
    <3>1. k \in 0 .. Len(Append(p, j)) BY <1>1
    <3> QED BY <1>1, <3>1, UpRules
  <2> QED BY <1>1, <2>1, <2>2, SamePath
<1> QED BY <1>1, <1>2, <1>3

\* A path is the path of one child of one item.
LEMMA SameChild ==
  ASSUME NEW p \in Paths, NEW i \in Nat \ {0}, NEW q \in Paths, NEW j \in Nat \ {0}
  PROVE  Append(p, i) = Append(q, j) <=> p = q /\ i = j
  BY AppendInjective DEF Paths

\* The items on the way, one below the other.
LEMMA UpStep ==
  ASSUME NEW q \in Paths, NEW k \in 0 .. Len(q) - 1
  PROVE  /\ q[k + 1] \in Nat \ {0}
         /\ Up(q, k + 1) = Append(Up(q, k), q[k + 1])
<1>1. q[k + 1] \in Nat \ {0} /\ Len(q) \in Nat
  BY DEF Paths
<1>2. k \in 0 .. Len(q) /\ k + 1 \in 0 .. Len(q)
  BY <1>1
<1>3. /\ Up(q, k) \in Paths /\ Len(Up(q, k)) = k /\ \A i \in 1 .. k : Up(q, k)[i] = q[i]
      /\ Up(q, k + 1) \in Paths /\ Len(Up(q, k + 1)) = k + 1
      /\ \A i \in 1 .. k + 1 : Up(q, k + 1)[i] = q[i]
  BY <1>2, UpRules
<1>4. PICK p \in Paths, j \in Nat \ {0} : p = Up(q, k) /\ j = q[k + 1]
  BY <1>1, <1>3
<1>5. /\ Append(p, j) \in Paths /\ Len(Append(p, j)) = k + 1
      /\ \A i \in 1 .. k : Append(p, j)[i] = p[i]
      /\ Append(p, j)[k + 1] = j
  <2>1. Len(p) = k
    BY <1>3, <1>4
  <2>2. /\ Append(p, j) \in Paths /\ Len(Append(p, j)) = Len(p) + 1
        /\ \A i \in 1 .. Len(p) : Append(p, j)[i] = p[i]
        /\ Append(p, j)[Len(p) + 1] = j
    BY ChildRules
  <2> QED BY <2>1, <2>2
<1>6. \A i \in 1 .. k + 1 : Up(q, k + 1)[i] = Append(p, j)[i]
  BY <1>3, <1>4, <1>5
<1>7. Up(q, k + 1) = Append(p, j)
  BY <1>3, <1>5, <1>6, SamePath
<1> QED BY <1>1, <1>4, <1>7

\* The children of p are the paths one step longer.
LEMMA IsChild ==
  ASSUME NEW p \in Paths, NEW q \in Paths
  PROVE  Len(q) = Len(p) + 1 /\ IsPrefix(p, q) <=> \E j \in Nat \ {0} : q = Append(p, j)
<1>0. Len(p) \in Nat /\ Len(q) \in Nat
  BY DEF Paths
<1>1. ASSUME Len(q) = Len(p) + 1, IsPrefix(p, q) PROVE \E j \in Nat \ {0} : q = Append(p, j)
  <2>1. Len(p) \in 0 .. Len(q) - 1 BY <1>0, <1>1
  <2>2. q[Len(p) + 1] \in Nat \ {0} /\ Up(q, Len(p) + 1) = Append(Up(q, Len(p)), q[Len(p) + 1])
    BY <2>1, UpStep
  <2>3. Up(q, Len(p) + 1) = q
    BY <1>0, <1>1, UpRules
  <2> QED BY <1>1, <2>2, <2>3, PrefixRules
<1>2. ASSUME NEW j \in Nat \ {0}, q = Append(p, j) PROVE Len(q) = Len(p) + 1 /\ IsPrefix(p, q)
  <2>1. Len(q) = Len(p) + 1 /\ \A i \in 1 .. Len(p) : q[i] = p[i]
    BY <1>2, ChildRules
  <2> QED BY <1>0, <2>1, PrefixRules
<1> QED BY <1>1, <1>2

\* What is above a child is above its parent, or is the child.
LEMMA AboveChild ==
  ASSUME NEW p \in Paths, NEW q \in Paths, NEW j \in Nat \ {0}
  PROVE  IsPrefix(p, Append(q, j)) <=> p = Append(q, j) \/ IsPrefix(p, q)
<1>1. PICK c \in Paths : c = Append(q, j)
  BY ChildRules
<1>2. /\ Len(p) \in Nat /\ Len(q) \in Nat /\ Len(c) = Len(q) + 1
      /\ \A k \in 0 .. Len(q) : Up(c, k) = Up(q, k)
      /\ Up(c, Len(c)) = c
  <2>1. /\ Len(c) = Len(q) + 1 /\ Len(q) \in Nat /\ Len(p) \in Nat
        /\ \A k \in 0 .. Len(q) : Up(c, k) = Up(q, k)
    BY <1>1, ChildRules
  <2>2. Len(c) \in 0 .. Len(c)
    BY <2>1
  <2> QED BY <2>1, <2>2, UpRules
<1>3. IsPrefix(p, c) <=> Len(p) <= Len(c) /\ Up(c, Len(p)) = p
  BY PrefixRules
<1>4. IsPrefix(p, q) <=> Len(p) <= Len(q) /\ Up(q, Len(p)) = p
  BY PrefixRules
<1>5. IsPrefix(p, c) <=> p = c \/ IsPrefix(p, q)
  <2>1. CASE Len(p) <= Len(q)
    BY <1>2, <1>3, <1>4, <2>1
  <2>2. CASE Len(p) = Len(c)
    BY <1>2, <1>3, <1>4, <2>2
  <2>3. CASE Len(p) > Len(c)
    BY <1>2, <1>3, <1>4, <2>3
  <2> QED BY <1>2, <2>1, <2>2, <2>3
<1> QED BY <1>1, <1>5

------------------------------------------------------------------------------
(* Trees.                                                                  *)

\* What an item of the document can be.
AllKinds == Kinds \cup DOMAIN Own \cup {"header", "footer"}

\* An item, with the rows it keeps.
Nodes ==
  [kind : AllKinds, rowIdx : Int, linkRows : SUBSET (0 .. Width - 1),
   linkAncestorRows : SUBSET (0 .. Width - 1)]

\* The items of a tree: no item without the one above it, the children of an item
\* in a row without gaps, and no path without end.
Grown(t) ==
  /\ t \in [DOMAIN t -> Nodes]
  /\ DOMAIN t \subseteq Paths /\ <<>> \in DOMAIN t
  /\ \A q \in DOMAIN t : \A k \in 0 .. Len(q) : Up(q, k) \in DOMAIN t
  /\ \A p \in DOMAIN t :
       /\ ChildCount(t, p) \in Nat
       /\ \A j \in Nat \ {0} : Append(p, j) \in DOMAIN t <=> j <= ChildCount(t, p)
  /\ \E depth \in Nat : \A p \in DOMAIN t : Len(p) <= depth

\* A remembered row is right, below the top of the tree.
Placed(t) == \A p \in DOMAIN t \ {<<>>} : t[p].rowIdx \in {-1, Last(p) - 1}

\* The rows that the item at p keeps of the links that are n levels below it.
RowsKept(t, p, n) == IF n = 1 THEN t[p].linkRows ELSE t[p].linkRows \cup t[p].linkAncestorRows

\* Every item on the way to a link keeps the row at which the way goes on.
Linked(t) ==
  \A q \in DOMAIN t : t[q].kind = "link" =>
    \A k \in 0 .. Len(q) - 1 : (q[k + 1] - 1) % Width \in RowsKept(t, Up(q, k), Len(q) - k)

Tree(t) == Grown(t) /\ Placed(t) /\ Linked(t)

\* The children are counted.
LEMMA CountRules ==
  ASSUME NEW t, DOMAIN t \subseteq Paths, NEW p \in Paths, NEW n \in Nat,
         \A j \in Nat \ {0} : Append(p, j) \in DOMAIN t <=> j <= n
  PROVE  ChildCount(t, p) = n
<1> DEFINE C == {q \in DOMAIN t : Len(q) = Len(p) + 1 /\ IsPrefix(p, q)}
           f == [j \in 1 .. n |-> Append(p, j)]
<1>1. \A q \in DOMAIN t : q \in C <=> \E j \in Nat \ {0} : q = Append(p, j)
  BY IsChild
<1>2. \A q : q \in C <=> \E j \in 1 .. n : q = Append(p, j)
  <2>1. \A j \in Nat \ {0} : j \in 1 .. n <=> j <= n
    OBVIOUS
  <2>2. \A q : q \in C => q \in DOMAIN t
    OBVIOUS
  <2> HIDE DEF C, f
  <2>3. ASSUME NEW q \in C PROVE \E j \in 1 .. n : q = Append(p, j)
    <3>1. PICK j \in Nat \ {0} : q = Append(p, j)
      BY <1>1, <2>2
    <3>2. Append(p, j) \in DOMAIN t
      BY <2>2, <3>1
    <3> QED BY <2>1, <3>1, <3>2
  <2>4. ASSUME NEW j \in 1 .. n PROVE Append(p, j) \in C
    <3>1. j \in Nat \ {0} /\ Append(p, j) \in DOMAIN t
      BY <2>1
    <3> QED BY <1>1, <3>1
  <2> QED BY <2>3, <2>4
<1>3. \A i, j \in 1 .. n : Append(p, i) = Append(p, j) => i = j
  BY ChildRules
<1>4. f \in Bijection(1 .. n, C)
  <2> HIDE DEF C
  <2>1. f \in [1 .. n -> C]
    BY <1>2
  <2>2. f \in Surjection(1 .. n, C)
    BY <1>2, <2>1 DEF Surjection
  <2>3. f \in Injection(1 .. n, C)
    BY <1>3, <2>1 DEF Injection, IsInjective
  <2> QED BY <2>2, <2>3 DEF Bijection
<1>5. IsFiniteSet(1 .. n) /\ Cardinality(1 .. n) = n
  BY FS_Interval
<1>6. Cardinality(C) = n
  <2> HIDE DEF C, f
  <2>1. ExistsBijection(1 .. n, C)
    BY <1>4 DEF ExistsBijection
  <2> QED BY <1>5, <2>1, FS_Bijection
<1> QED BY <1>6 DEF ChildCount

\* A node with another row.
LEMMA NodeRules ==
  ASSUME NEW x \in Nodes, NEW r \in Int, NEW y, y = [x EXCEPT !.rowIdx = r]
  PROVE  /\ y \in Nodes /\ y.rowIdx = r
         /\ y.kind = x.kind /\ y.linkRows = x.linkRows /\ y.linkAncestorRows = x.linkAncestorRows
  BY DEF Nodes

\* A node that learns of links among its children, and of links further below.
LEMMA LinksBelow ==
  ASSUME NEW x \in Nodes, NEW R \in SUBSET (0 .. Width - 1), NEW y,
         y = [x EXCEPT !.linkRows = @ \cup R]
  PROVE  /\ y \in Nodes /\ y.kind = x.kind
         /\ y.linkRows = x.linkRows \cup R /\ y.linkAncestorRows = x.linkAncestorRows
  BY DEF Nodes

\* An item that is told of links further below.
LEMMA LinksFurtherBelow ==
  ASSUME NEW x \in Nodes, NEW R \in SUBSET (0 .. Width - 1), NEW y,
         y = [x EXCEPT !.linkAncestorRows = @ \cup R]
  PROVE  /\ y \in Nodes /\ y.kind = x.kind
         /\ y.linkRows = x.linkRows /\ y.linkAncestorRows = x.linkAncestorRows \cup R
  BY DEF Nodes

\* A row that does not fit is cut.
LEMMA CutRules ==
  ASSUME NEW r \in Int
  PROVE  /\ r % Width \in 0 .. Width - 1
         /\ r \in 0 .. Width - 1 => r % Width = r
  BY RowsAssumption

\* row() is right below the top, whether it is remembered or not.
LEMMA RowRules ==
  ASSUME NEW t, Grown(t), Placed(t), NEW at \in Int, NEW p \in DOMAIN t
  PROVE  /\ Row(t, at, p) \in Int
         /\ p # <<>> => Row(t, at, p) = Last(p) - 1
         /\ p = <<>> => Row(t, at, p) \in {t[p].rowIdx, at}
<1>1. t[p] \in Nodes /\ p \in Paths
  BY DEF Grown
<1>2. t[p].rowIdx \in Int
  BY <1>1 DEF Nodes
<1>3. CASE p = <<>>
  BY <1>2, <1>3 DEF Row
<1>4. CASE p # <<>>
  <2>1. Last(p) \in Int
    BY <1>1, <1>4 DEF Last, Paths
  <2>2. t[p].rowIdx \in {-1, Last(p) - 1}
    BY <1>4 DEF Placed
  <2> QED BY <1>4, <2>1, <2>2 DEF Row
<1> QED BY <1>3, <1>4

\* Other nodes at the same paths, which keep at least the rows of links.
LEMMA SameItems ==
  ASSUME NEW t, Tree(t), NEW u \in [DOMAIN t -> Nodes], Placed(u),
         \A p \in DOMAIN t :
           /\ u[p].kind = "link" => t[p].kind = "link"
           /\ t[p].linkRows \subseteq u[p].linkRows
           /\ t[p].linkAncestorRows \subseteq u[p].linkAncestorRows
  PROVE  Tree(u) /\ DOMAIN u = DOMAIN t /\ \A p \in DOMAIN t : ChildCount(u, p) = ChildCount(t, p)
<1>1. DOMAIN u = DOMAIN t
  OBVIOUS
<1>2. \A p : ChildCount(u, p) = ChildCount(t, p)
  BY <1>1 DEF ChildCount
<1>3. Grown(u)
  BY <1>1, <1>2 DEF Tree, Grown
<1>4. Linked(u)
  <2> SUFFICES ASSUME NEW q \in DOMAIN t, u[q].kind = "link", NEW k \in 0 .. Len(q) - 1
               PROVE  (q[k + 1] - 1) % Width \in RowsKept(u, Up(q, k), Len(q) - k)
    BY <1>1 DEF Linked
  <2>1. q \in Paths /\ Len(q) \in Nat
    BY DEF Tree, Grown, Paths
  <2>2. k \in 0 .. Len(q)
    BY <2>1
  <2>3. Up(q, k) \in DOMAIN t
    BY <2>2 DEF Tree, Grown
  <2>4. (q[k + 1] - 1) % Width \in RowsKept(t, Up(q, k), Len(q) - k)
    BY DEF Tree, Linked
  <2> QED BY <2>3, <2>4 DEF RowsKept
<1> QED BY <1>1, <1>2, <1>3, <1>4 DEF Tree

\* What an operation may do to the top of a tree in row at.
TopKept(t, u, at) ==
  u[<<>>].kind = t[<<>>].kind /\ u[<<>>].rowIdx \in {-1, at, t[<<>>].rowIdx}

\* Remembering rows, and forgetting some, keeps a tree.
LEMMA RememberRight ==
  ASSUME NEW t, Tree(t), NEW at \in Int, NEW ps
  PROVE  /\ Tree(Remember(t, at, ps)) /\ TopKept(t, Remember(t, at, ps), at)
         /\ DOMAIN Remember(t, at, ps) = DOMAIN t
         /\ \A p \in DOMAIN t : /\ ChildCount(Remember(t, at, ps), p) = ChildCount(t, p)
                                /\ Remember(t, at, ps)[p].kind = t[p].kind
<1> DEFINE u == Remember(t, at, ps)
<1>1. DOMAIN u = DOMAIN t /\ \A p \in DOMAIN t :
        u[p] = IF p \in ps THEN [t[p] EXCEPT !.rowIdx = Row(t, at, p)] ELSE t[p]
  BY DEF Remember
<1>2. ASSUME NEW p \in DOMAIN t
      PROVE  /\ u[p] \in Nodes /\ u[p].kind = t[p].kind
             /\ u[p].linkRows = t[p].linkRows /\ u[p].linkAncestorRows = t[p].linkAncestorRows
             /\ u[p].rowIdx \in {t[p].rowIdx, Row(t, at, p)}
  <2>1. t[p] \in Nodes /\ Row(t, at, p) \in Int
    BY RowRules DEF Tree, Grown
  <2>2. PICK x \in Nodes, r \in Int : x = t[p] /\ r = Row(t, at, p)
    BY <2>1
  <2>3. PICK y : y = u[p]
    OBVIOUS
  <2>4. y = [x EXCEPT !.rowIdx = r] \/ y = x
    BY <1>1, <2>2, <2>3
  <2>5. /\ y \in Nodes /\ y.rowIdx \in {x.rowIdx, r}
        /\ y.kind = x.kind /\ y.linkRows = x.linkRows /\ y.linkAncestorRows = x.linkAncestorRows
    BY <2>4, NodeRules
  <2> HIDE DEF u
  <2> QED BY <2>2, <2>3, <2>5
<1>3. u = [p \in DOMAIN t |-> u[p]]
  BY DEF Remember
<1> HIDE DEF u
<1>4. u \in [DOMAIN t -> Nodes]
  BY <1>2, <1>3
<1>5. Placed(u)
  <2> SUFFICES ASSUME NEW p \in DOMAIN t \ {<<>>} PROVE u[p].rowIdx \in {-1, Last(p) - 1}
    BY <1>1 DEF Placed
  <2> QED BY <1>2, RowRules DEF Tree, Placed
<1>6. TopKept(t, u, at)
  <2>1. <<>> \in DOMAIN t
    BY DEF Tree, Grown
  <2> QED BY <1>2, <2>1, RowRules DEF Tree, TopKept
<1>7. Tree(u) /\ \A p \in DOMAIN t : ChildCount(u, p) = ChildCount(t, p)
  BY <1>2, <1>4, <1>5, SameItems
<1> QED BY <1>1, <1>2, <1>6, <1>7 DEF u

\* Forgetting the rows of some items keeps a tree.
LEMMA ForgetRight ==
  ASSUME NEW t, Tree(t), NEW p \in DOMAIN t, NEW at
  PROVE  /\ Tree(InvalidateRowCounts(t, p)) /\ TopKept(t, InvalidateRowCounts(t, p), at)
         /\ DOMAIN InvalidateRowCounts(t, p) = DOMAIN t
         /\ \A q \in DOMAIN t : ChildCount(InvalidateRowCounts(t, p), q) = ChildCount(t, q)
<1> DEFINE u == InvalidateRowCounts(t, p)
           Near(q) == q = p \/ (Len(q) = Len(p) + 1 /\ IsPrefix(p, q))
<1>1. \A q \in DOMAIN t : u[q] = IF Near(q) THEN [t[q] EXCEPT !.rowIdx = -1] ELSE t[q]
  BY DEF InvalidateRowCounts
<1>2. ASSUME NEW q \in DOMAIN t
      PROVE  /\ u[q] \in Nodes /\ u[q].kind = t[q].kind
             /\ u[q].linkRows = t[q].linkRows /\ u[q].linkAncestorRows = t[q].linkAncestorRows
             /\ u[q].rowIdx \in {t[q].rowIdx, -1}
  <2>1. PICK x \in Nodes, r \in Int : x = t[q] /\ r = -1
    BY DEF Tree, Grown
  <2>2. PICK y : y = u[q]
    OBVIOUS
  <2>3. y = [x EXCEPT !.rowIdx = r] \/ y = x
    <3> HIDE DEF Near, u
    <3> QED BY <1>1, <2>1, <2>2
  <2>4. /\ y \in Nodes /\ y.rowIdx \in {x.rowIdx, r}
        /\ y.kind = x.kind /\ y.linkRows = x.linkRows /\ y.linkAncestorRows = x.linkAncestorRows
    BY <2>3, NodeRules
  <2> HIDE DEF u
  <2> QED BY <2>1, <2>2, <2>4
<1>3. u = [q \in DOMAIN t |-> u[q]]
  BY DEF InvalidateRowCounts
<1> HIDE DEF u
<1>4. u \in [DOMAIN t -> Nodes]
  BY <1>2, <1>3
<1>5. Placed(u)
  <2> SUFFICES ASSUME NEW q \in DOMAIN t \ {<<>>} PROVE u[q].rowIdx \in {-1, Last(q) - 1}
    BY <1>3 DEF Placed
  <2> QED BY <1>2 DEF Tree, Placed
<1>6. TopKept(t, u, at)
  <2>1. <<>> \in DOMAIN t
    BY DEF Tree, Grown
  <2> QED BY <1>2, <2>1 DEF Tree, TopKept
<1>7. Tree(u) /\ DOMAIN u = DOMAIN t /\ \A q \in DOMAIN t : ChildCount(u, q) = ChildCount(t, q)
  BY <1>2, <1>4, <1>5, SameItems
<1> QED BY <1>6, <1>7 DEF u

\* Taking the last rows of an item away, with all that is below them, leaves a tree.
LEMMA RemoveLastRight ==
  ASSUME NEW t, Tree(t), NEW p \in DOMAIN t, NEW n \in Nat, NEW at
  PROVE  Tree(RemoveLast(t, p, n)) /\ TopKept(t, RemoveLast(t, p, n), at)
<1>1. PICK u : u = InvalidateRowCounts(t, p)
  OBVIOUS
<1>2. /\ Tree(u) /\ TopKept(t, u, at) /\ DOMAIN u = DOMAIN t
      /\ \A q \in DOMAIN t : ChildCount(u, q) = ChildCount(t, q)
  BY <1>1, ForgetRight
<1>3. PICK left \in Int : left = ChildCount(t, p) - n
  <2>1. ChildCount(t, p) \in Nat
    BY DEF Tree, Grown
  <2> QED BY <2>1
<1> DEFINE Gone(q) == IsStrictPrefix(p, q) /\ q[Len(p) + 1] > left
           S == {q \in DOMAIN u : ~ Gone(q)}
<1>4. PICK v : v = Restrict(u, S)
  OBVIOUS
<1>5. v = RemoveLast(t, p, n)
  BY <1>1, <1>3, <1>4 DEF RemoveLast
<1>6. DOMAIN v = S /\ \A q \in S : v[q] = u[q]
  BY <1>4 DEF Restrict
<1>7. DOMAIN t \subseteq Paths /\ <<>> \in DOMAIN t /\ \A q \in Paths : Len(q) \in Nat
  BY DEF Tree, Grown, Paths
<1>8. \A q \in DOMAIN t : Gone(q) <=> Len(q) > Len(p) /\ Up(q, Len(p)) = p /\ q[Len(p) + 1] > left
  <2> TAKE q \in DOMAIN t
  <2>1. IsPrefix(p, q) <=> Len(p) <= Len(q) /\ Up(q, Len(p)) = p
    BY <1>7, PrefixRules
  <2>2. Len(p) = Len(q) /\ Up(q, Len(p)) = p => q = p
    BY <1>7, UpRules
  <2> QED BY <1>7, <2>1, <2>2 DEF IsStrictPrefix
<1> HIDE DEF Gone
<1>9. ASSUME NEW q \in S, NEW k \in 0 .. Len(q) PROVE Up(q, k) \in S
  <2>1. PICK r \in DOMAIN u : r = Up(q, k)
    BY <1>2 DEF Tree, Grown
  <2>2. ASSUME Gone(r) PROVE Gone(q)
    <3>1. q \in Paths /\ Len(r) = k /\ \A i \in 1 .. k : r[i] = q[i]
      BY <1>2, <1>7, <2>1, UpRules
    <3>2. Len(r) > Len(p) /\ Up(r, Len(p)) = p /\ r[Len(p) + 1] > left
      BY <1>2, <1>8, <2>2
    <3>3. IsPrefix(p, r)
      BY <1>2, <1>7, <3>2, PrefixRules
    <3>4. \A i \in 1 .. Len(p) : p[i] = r[i]
      BY <1>2, <1>7, <3>3, PrefixRules
    <3>5. Len(p) \in Nat /\ Len(q) \in Nat
      BY <1>2, <1>7
    <3>6. Len(p) < Len(q) /\ (\A i \in 1 .. Len(p) : p[i] = q[i]) /\ q[Len(p) + 1] = r[Len(p) + 1]
      BY <3>1, <3>2, <3>4, <3>5
    <3>7. IsPrefix(p, q)
      BY <1>7, <3>1, <3>5, <3>6, PrefixRules
    <3>8. Up(q, Len(p)) = p
      BY <1>7, <3>1, <3>7, PrefixRules
    <3> QED BY <1>2, <1>8, <3>2, <3>5, <3>6, <3>8
  <2> QED BY <2>1, <2>2
<1>10. <<>> \in S
  <2>1. Len(<<>>) = 0
    OBVIOUS
  <2>2. ~ (Len(<<>>) > Len(p))
    BY <1>7, <2>1
  <2>3. ~ Gone(<<>>)
    BY <1>7, <1>8, <2>2
  <2> QED BY <1>2, <1>7, <2>3
<1>11. p \in S
  <2>1. ~ Gone(p)
    BY <1>7, <1>8
  <2> QED BY <1>2, <2>1
<1>12. ASSUME NEW q \in S
       PROVE  /\ ChildCount(v, q) \in Nat
              /\ \A j \in Nat \ {0} : Append(q, j) \in S <=> j <= ChildCount(v, q)
  <2>1. q \in Paths /\ Len(q) \in Nat /\ q \in DOMAIN u
    BY <1>2, <1>7
  <2>2. ChildCount(u, q) \in Nat /\ \A j \in Nat \ {0} : Append(q, j) \in DOMAIN u <=> j <= ChildCount(u, q)
    BY <1>2, <2>1 DEF Tree, Grown
  <2>3. \E m \in Nat : \A j \in Nat \ {0} : Append(q, j) \in S <=> j <= m
    <3>1. CASE q = p
      <4>1. ASSUME NEW j \in Nat \ {0}, Append(p, j) \in DOMAIN t PROVE Gone(Append(p, j)) <=> j > left
        <5>1. /\ Len(Append(p, j)) = Len(p) + 1 /\ Len(p) \in Nat /\ Append(p, j)[Len(p) + 1] = j
              /\ Up(Append(p, j), Len(p)) = Up(p, Len(p)) /\ Up(p, Len(p)) = p
          BY <1>7, ChildRules, UpRules
        <5>2. PICK c \in DOMAIN t : c = Append(p, j)
          BY <4>1
        <5>3. Len(c) = Len(p) + 1 /\ c[Len(p) + 1] = j /\ Up(c, Len(p)) = p /\ Len(p) \in Nat
          BY <5>1, <5>2
        <5>4. Gone(c) <=> j > left
          BY <1>8, <5>3
        <5> QED BY <5>2, <5>4
      <4>2. PICK m \in Nat : m = IF left < 0 THEN 0 ELSE left
        OBVIOUS
      <4>3. left <= ChildCount(u, p) /\ p \in DOMAIN u
        BY <1>2, <1>3, <2>2, <3>1
      <4>4. \A j \in Nat \ {0} : Append(p, j) \in S <=> j <= m
        BY <1>2, <2>2, <3>1, <4>1, <4>2, <4>3
      <4> QED BY <3>1, <4>4
    <3>2. CASE q # p
      <4>1. ASSUME NEW j \in Nat \ {0}, Append(q, j) \in DOMAIN t PROVE ~ Gone(Append(q, j))
        <5>1. PICK c \in DOMAIN t : c = Append(q, j)
          BY <4>1
        <5>2. /\ Len(c) = Len(q) + 1 /\ \A k \in 0 .. Len(q) : Up(c, k) = Up(q, k)
              /\ \A i \in 1 .. Len(q) : c[i] = q[i]
          BY <2>1, <5>1, ChildRules
        <5>3. Up(q, Len(q)) = q
          BY <2>1, UpRules
        <5>4. SUFFICES ASSUME Gone(c) PROVE FALSE
          BY <5>1
        <5>5. Len(c) > Len(p) /\ Up(c, Len(p)) = p /\ c[Len(p) + 1] > left
          BY <1>8, <5>4
        <5>6. Len(p) \in 0 .. Len(q) /\ Len(p) \in Nat
          BY <1>7, <2>1, <5>2, <5>5
        <5>7. Up(q, Len(p)) = p
          BY <5>2, <5>5, <5>6
        <5>8. Len(p) # Len(q)
          BY <3>2, <5>3, <5>7
        <5>9. Gone(q)
          BY <1>2, <1>8, <2>1, <5>2, <5>5, <5>6, <5>7, <5>8
        <5> QED BY <5>9
      <4> QED BY <1>2, <2>2, <4>1
    <3> QED BY <3>1, <3>2
  <2>4. PICK m \in Nat : \A j \in Nat \ {0} : Append(q, j) \in S <=> j <= m
    BY <2>3
  <2>5. ChildCount(v, q) = m
    <3>1. DOMAIN v \subseteq Paths
      BY <1>2, <1>6, <1>7
    <3> HIDE DEF S
    <3> QED BY <1>6, <2>1, <2>4, <3>1, CountRules
  <2> QED BY <2>4, <2>5
<1>13. Grown(v)
  <2>1. v \in [S -> Nodes]
    <3>1. v = [q \in S |-> u[q]]
      BY <1>4 DEF Restrict
    <3>2. \A q \in S : u[q] \in Nodes
      BY <1>2 DEF Tree, Grown
    <3> HIDE DEF S
    <3> QED BY <3>1, <3>2
  <2>2. PICK depth \in Nat : \A q \in DOMAIN t : Len(q) <= depth
    BY DEF Tree, Grown
  <2>3. S \subseteq DOMAIN t
    BY <1>2
  <2> HIDE DEF S
  <2> QED BY <1>6, <1>7, <1>9, <1>10, <1>12, <2>1, <2>2, <2>3 DEF Grown
<1>14. Placed(v)
  BY <1>2, <1>6 DEF Tree, Placed
<1>15. Linked(v)
  <2> SUFFICES ASSUME NEW q \in S, v[q].kind = "link", NEW k \in 0 .. Len(q) - 1
               PROVE  (q[k + 1] - 1) % Width \in RowsKept(v, Up(q, k), Len(q) - k)
    BY <1>6 DEF Linked
  <2>1. (q[k + 1] - 1) % Width \in RowsKept(u, Up(q, k), Len(q) - k)
    BY <1>2, <1>6 DEF Tree, Linked
  <2>2. k \in 0 .. Len(q)
    BY <1>2, <1>7
  <2>3. Up(q, k) \in S
    BY <1>9, <2>2
  <2> QED BY <1>6, <2>1, <2>3 DEF RowsKept
<1>16. TopKept(t, v, at)
  BY <1>2, <1>6, <1>10 DEF TopKept
<1> QED BY <1>5, <1>13, <1>14, <1>15, <1>16 DEF Tree

\* What InsertChildren leaves of an item that was there.
LEMMA ItemInformed ==
  ASSUME NEW t, Tree(t), NEW at \in Int, NEW parent \in DOMAIN t, NEW kinds \in Seq(Kinds),
         NEW p \in DOMAIN t
  PROVE  LET y == InsertChildren(t, at, parent, kinds)[p]
         IN  /\ y \in Nodes /\ y.kind = t[p].kind
             /\ t[p].linkRows \subseteq y.linkRows /\ t[p].linkAncestorRows \subseteq y.linkAncestorRows
             /\ y.rowIdx \in {t[p].rowIdx, Row(t, at, p)}
             /\ \A k \in DOMAIN kinds : InsertedAsLink(kinds[k]) =>
                  /\ p = parent => (ChildCount(t, parent) + k - 1) % Width \in y.linkRows
                  /\ IsPrefix(p, parent) /\ p # parent =>
                       (parent[Len(p) + 1] - 1) % Width \in y.linkAncestorRows
<1>1. PICK count \in Nat : count = ChildCount(t, parent)
  BY DEF Tree, Grown
<1> DEFINE new == {Append(parent, count + k) : k \in DOMAIN kinds}
           links == {k \in DOMAIN kinds : InsertedAsLink(kinds[k])}
           rows == {(count + k - 1) % Width : k \in links}
<1>2. PICK y : y = InsertChildren(t, at, parent, kinds)[p]
  OBVIOUS
<1>3. \A k \in DOMAIN kinds : k \in Nat \ {0}
  OBVIOUS
<1>4. p \notin new /\ p \in Paths /\ parent \in Paths /\ Len(p) \in Nat /\ Len(parent) \in Nat
  <2>1. \A j \in Nat \ {0} : Append(parent, j) \in DOMAIN t <=> j <= count
    BY <1>1 DEF Tree, Grown
  <2>2. \A k \in DOMAIN kinds : count + k \in Nat \ {0} /\ ~ (count + k <= count)
    BY <1>3
  <2>3. \A k \in DOMAIN kinds : Append(parent, count + k) \notin DOMAIN t
    BY <2>1, <2>2
  <2>4. p \notin new
    BY <2>3
  <2>5. p \in Paths /\ parent \in Paths
    BY DEF Tree, Grown
  <2>6. \A q \in Paths : Len(q) \in Nat
    BY DEF Paths
  <2> QED BY <2>4, <2>5, <2>6
<1>5. PICK x \in Nodes, r \in Int : x = t[p] /\ r = Row(t, at, p)
  BY RowRules DEF Tree, Grown
<1>6. rows \in SUBSET (0 .. Width - 1)
  <2>1. \A k \in links : count + k - 1 \in Int
    BY <1>3
  <2> HIDE DEF links
  <2> QED BY <2>1, CutRules
<1>7. CASE links # {} /\ IsPrefix(p, parent)
  <2>1. PICK z : z = InformedOf(t[p], t, at, p, parent, rows)
    OBVIOUS
  <2>2. y = [z EXCEPT !.rowIdx = r]
    <3> HIDE DEF new
    <3> QED BY <1>1, <1>2, <1>4, <1>5, <1>7, <2>1 DEF InsertChildren, new
  <2>3. PICK above \in SUBSET (0 .. Width - 1) :
          p # parent => above = {(parent[Len(p) + 1] - 1) % Width} /\ z = [x EXCEPT !.linkAncestorRows = @ \cup above]
    <3>1. CASE p # parent
      <4>1. Len(p) < Len(parent)
        <5>1. Len(p) <= Len(parent) /\ Up(parent, Len(p)) = p
          BY <1>4, <1>7, PrefixRules
        <5>2. Up(parent, Len(parent)) = parent
          BY <1>4, UpRules
        <5> QED BY <1>4, <3>1, <5>1, <5>2
      <4>2. PICK m \in 0 .. Len(parent) : m = Len(p) + 1
        BY <1>4, <4>1
      <4>3. PICK c \in DOMAIN t : c = Up(parent, m)
        BY DEF Tree, Grown
      <4>4. c \in Paths /\ Len(c) = m /\ c[m] = parent[m] /\ m \in Nat \ {0}
        BY <1>4, <4>2, <4>3, UpRules
      <4>5. c # <<>> /\ Last(c) = parent[m]
        BY <4>4 DEF Last
      <4>6. Row(t, at, c) = parent[m] - 1 /\ Row(t, at, c) \in Int
        BY <4>5, RowRules DEF Tree
      <4>7. PICK R \in SUBSET (0 .. Width - 1) : R = {(parent[m] - 1) % Width}
        <5>1. PICK s \in Int : s = parent[m] - 1
          BY <4>6
        <5>2. {s % Width} \in SUBSET (0 .. Width - 1)
          BY CutRules
        <5> QED BY <5>1, <5>2
      <4>8. z = [x EXCEPT !.linkAncestorRows = @ \cup {Row(t, at, c) % Width}]
        BY <1>5, <2>1, <3>1, <4>2, <4>3 DEF InformedOf, Up
      <4>9. z = [x EXCEPT !.linkAncestorRows = @ \cup R]
        BY <4>6, <4>7, <4>8
      <4> QED BY <3>1, <4>2, <4>7, <4>9
    <3>2. CASE p = parent
      BY <3>2
    <3> QED BY <3>1, <3>2
  <2>4. p = parent => z = [x EXCEPT !.linkRows = @ \cup rows]
    <3> HIDE DEF rows
    <3> QED BY <1>5, <2>1 DEF InformedOf
  <2> HIDE DEF rows
  <2>5. CASE p = parent
    <3>1. PICK R \in SUBSET (0 .. Width - 1) : R = rows
      BY <1>6
    <3>2. z = [x EXCEPT !.linkRows = @ \cup R]
      BY <2>4, <2>5, <3>1
    <3>3. /\ z \in Nodes /\ z.kind = x.kind /\ z.linkRows = x.linkRows \cup R
          /\ z.linkAncestorRows = x.linkAncestorRows
      BY <3>2, LinksBelow
    <3>4. /\ y \in Nodes /\ y.rowIdx = r
          /\ y.kind = z.kind /\ y.linkRows = z.linkRows /\ y.linkAncestorRows = z.linkAncestorRows
      BY <2>2, <3>3, NodeRules
    <3>5. \A k \in DOMAIN kinds : InsertedAsLink(kinds[k]) => (count + k - 1) % Width \in R
      BY <3>1 DEF rows
    <3> QED BY <1>1, <1>2, <1>5, <2>5, <3>3, <3>4, <3>5
  <2>6. CASE p # parent
    <3>1. z = [x EXCEPT !.linkAncestorRows = @ \cup above]
      BY <2>3, <2>6
    <3>3. /\ z \in Nodes /\ z.kind = x.kind /\ z.linkRows = x.linkRows
          /\ z.linkAncestorRows = x.linkAncestorRows \cup above
      BY <3>1, LinksFurtherBelow
    <3>4. /\ y \in Nodes /\ y.rowIdx = r
          /\ y.kind = z.kind /\ y.linkRows = z.linkRows /\ y.linkAncestorRows = z.linkAncestorRows
      BY <2>2, <3>3, NodeRules
    <3> QED BY <1>2, <1>5, <2>3, <2>6, <3>3, <3>4
  <2> QED BY <2>5, <2>6
<1>8. CASE ~ (links # {} /\ IsPrefix(p, parent))
  <2>1. y = x
    <3> HIDE DEF new
    <3> QED BY <1>1, <1>2, <1>4, <1>5, <1>8 DEF InsertChildren, new
  <2>2. \A k \in DOMAIN kinds : InsertedAsLink(kinds[k]) => ~ IsPrefix(p, parent)
    BY <1>8
  <2>3. IsPrefix(parent, parent)
    BY <1>4, PrefixRules
  <2> QED BY <1>2, <1>5, <2>1, <2>2, <2>3
<1> QED BY <1>7, <1>8

\* Children inserted at the end.
LEMMA InsertChildrenRight ==
  ASSUME NEW t, Tree(t), NEW at \in Int, NEW parent \in DOMAIN t, NEW kinds \in Seq(Kinds)
  PROVE  /\ Tree(InsertChildren(t, at, parent, kinds))
         /\ TopKept(t, InsertChildren(t, at, parent, kinds), at)
         /\ DOMAIN t \subseteq DOMAIN InsertChildren(t, at, parent, kinds)
         /\ \A k \in DOMAIN kinds :
              Append(parent, ChildCount(t, parent) + k) \in DOMAIN InsertChildren(t, at, parent, kinds)
<1>1. PICK count \in Nat : count = ChildCount(t, parent)
  BY DEF Tree, Grown
<1>2. PICK n \in Nat : n = Len(kinds) /\ DOMAIN kinds = 1 .. n
  OBVIOUS
<1>3. PICK u : u = InsertChildren(t, at, parent, kinds)
  OBVIOUS
<1>c. PICK c : c = [k \in 1 .. n |-> Append(parent, count + k)]
  OBVIOUS
<1> DEFINE new == {c[k] : k \in 1 .. n}
           old == DOMAIN t
<1>n. {Append(parent, count + k) : k \in 1 .. n} = new
  BY <1>c
<1>4. DOMAIN u = old \cup new
  <2> HIDE DEF new
  <2> QED BY <1>1, <1>2, <1>3, <1>n DEF InsertChildren
<1>5. /\ old \subseteq Paths /\ <<>> \in old /\ parent \in Paths /\ parent \in old
      /\ \A q \in Paths : Len(q) \in Nat
  BY DEF Tree, Grown, Paths
<1>6. \A j \in Nat \ {0} : Append(parent, j) \in old <=> j <= count
  BY <1>1 DEF Tree, Grown
<1>7. ASSUME NEW k \in 1 .. n
      PROVE  /\ count + k \in Nat \ {0} /\ c[k] = Append(parent, count + k) /\ c[k] \notin old
             /\ c[k] \in Paths /\ Len(c[k]) = Len(parent) + 1
             /\ Last(c[k]) = count + k /\ c[k][Len(parent) + 1] = count + k
             /\ \A l \in 0 .. Len(parent) : Up(c[k], l) = Up(parent, l)
             /\ \A i \in 1 .. Len(parent) : c[k][i] = parent[i]
  <2>1. PICK j \in Nat \ {0} : j = count + k /\ ~ (j <= count)
    OBVIOUS
  <2>2. PICK q \in Paths : q = Append(parent, j)
    BY <1>5, ChildRules
  <2>3. /\ Len(q) = Len(parent) + 1 /\ Last(q) = j /\ q[Len(parent) + 1] = j
        /\ \A l \in 0 .. Len(parent) : Up(q, l) = Up(parent, l)
        /\ \A i \in 1 .. Len(parent) : q[i] = parent[i]
    BY <1>5, <2>2, ChildRules
  <2>4. c[k] = Append(parent, j)
    BY <1>c, <2>1
  <2> QED BY <1>6, <2>1, <2>2, <2>3, <2>4
<1>8. ASSUME NEW p \in old
      PROVE  /\ u[p] \in Nodes /\ u[p].kind = t[p].kind
             /\ t[p].linkRows \subseteq u[p].linkRows /\ t[p].linkAncestorRows \subseteq u[p].linkAncestorRows
             /\ u[p].rowIdx \in {t[p].rowIdx, Row(t, at, p)}
             /\ \A k \in 1 .. n : InsertedAsLink(kinds[k]) =>
                  /\ p = parent => (count + k - 1) % Width \in u[p].linkRows
                  /\ IsPrefix(p, parent) /\ p # parent =>
                       (parent[Len(p) + 1] - 1) % Width \in u[p].linkAncestorRows
  BY <1>1, <1>2, <1>3, ItemInformed
<1>9. ASSUME NEW k \in 1 .. n
      PROVE  u[c[k]] \in Nodes /\ u[c[k]].kind = kinds[k] /\ u[c[k]].rowIdx \in {-1, count + k - 1}
  <2>1. PICK q \in new : q = c[k]
    OBVIOUS
  <2>2. Last(q) - count = k
    BY <1>7, <2>1
  <2>3. PICK x : x = Node(kinds[k])
    OBVIOUS
  <2>4. x \in Nodes /\ x.rowIdx = -1 /\ x.kind = kinds[k]
    <3>1. kinds[k] \in AllKinds
      BY <1>2 DEF AllKinds
    <3> QED BY <2>3, <3>1 DEF Node, Nodes
  <2>5. u[q] = [x EXCEPT !.rowIdx = count + k - 1] \/ u[q] = x
    <3> HIDE DEF new
    <3> QED BY <1>1, <1>2, <1>3, <1>n, <2>1, <2>2, <2>3 DEF InsertChildren
  <2>6. PICK y : y = u[q]
    OBVIOUS
  <2>r. PICK r \in Int : r = count + k - 1
    OBVIOUS
  <2>7. y \in Nodes /\ y.kind = kinds[k] /\ y.rowIdx \in {-1, r}
    <3>1. y = [x EXCEPT !.rowIdx = r] \/ y = x
      BY <2>5, <2>6, <2>r
    <3> QED BY <2>4, <3>1, NodeRules
  <2> QED BY <2>1, <2>6, <2>r, <2>7
<1>10. u = [p \in old \cup new |-> u[p]]
  <2> HIDE DEF new
  <2> QED BY <1>1, <1>2, <1>3, <1>n DEF InsertChildren
<1> HIDE DEF old
<1>11. u \in [old \cup new -> Nodes]
  BY <1>8, <1>9, <1>10
<1>12. ASSUME NEW q \in old \cup new, NEW l \in 0 .. Len(q)
       PROVE  Up(q, l) \in old \cup new
  <2>1. CASE q \in old
    BY <2>1 DEF Tree, Grown, old
  <2>2. CASE q \in new
    <3>1. PICK k \in 1 .. n : q = c[k]
      BY <2>2
    <3>2. CASE l = Len(q)
      BY <1>7, <2>2, <3>1, <3>2, UpRules
    <3>3. CASE l # Len(q)
      <4>1. Len(parent) \in Nat /\ l \in 0 .. Len(parent)
        BY <1>5, <1>7, <3>1, <3>3
      <4>2. Up(q, l) = Up(parent, l)
        BY <1>7, <3>1, <4>1
      <4>3. Up(parent, l) \in old
        BY <4>1 DEF Tree, Grown, old
      <4> QED BY <4>2, <4>3
    <3> QED BY <3>2, <3>3
  <2> QED BY <2>1, <2>2
<1>13. ASSUME NEW p \in old \cup new
       PROVE  \E m \in Nat : \A j \in Nat \ {0} : Append(p, j) \in old \cup new <=> j <= m
  <2>1. p \in Paths
    BY <1>5, <1>7
  <2>2. ASSUME NEW j \in Nat \ {0} PROVE Append(p, j) \in new <=> p = parent /\ j - count \in 1 .. n
    <3>1. ASSUME NEW k \in 1 .. n PROVE Append(p, j) = c[k] <=> p = parent /\ j = count + k
      <4>1. PICK i \in Nat \ {0} : i = count + k /\ c[k] = Append(parent, i)
        BY <1>7
      <4>2. Append(p, j) = Append(parent, i) <=> p = parent /\ j = i
        BY <1>5, <2>1, SameChild
      <4> QED BY <4>1, <4>2
    <3>2. Append(p, j) \in new <=> \E k \in 1 .. n : p = parent /\ j = count + k
      BY <3>1
    <3>3. (\E k \in 1 .. n : j = count + k) <=> j - count \in 1 .. n
      OBVIOUS
    <3> QED BY <3>2, <3>3
  <2>3. CASE p \in old
    <3>1. PICK m \in Nat : \A j \in Nat \ {0} : Append(p, j) \in old <=> j <= m
      BY <2>3 DEF Tree, Grown, old
    <3>2. CASE p = parent
      <4>1. \A j \in Nat \ {0} : Append(p, j) \in old \cup new <=> j <= count + n
        <5> HIDE DEF new
        <5> QED BY <1>6, <2>2, <3>2
      <4>2. count + n \in Nat
        OBVIOUS
      <4> HIDE DEF new
      <4> QED BY <4>1, <4>2
    <3>3. CASE p # parent
      <4> HIDE DEF new
      <4> QED BY <2>2, <3>1, <3>3
    <3> QED BY <3>2, <3>3
  <2>4. CASE p \notin old
    <3>1. ASSUME NEW j \in Nat \ {0} PROVE Append(p, j) \notin old
      <4> SUFFICES ASSUME Append(p, j) \in old PROVE FALSE
        OBVIOUS
      <4>1. PICK b \in old : b = Append(p, j)
        OBVIOUS
      <4>2. Len(b) = Len(p) + 1 /\ Len(p) \in Nat /\ \A l \in 0 .. Len(p) : Up(b, l) = Up(p, l)
        BY <2>1, <4>1, ChildRules
      <4>3. Up(b, Len(p)) = p
        BY <2>1, <4>2, UpRules
      <4>4. Len(p) \in 0 .. Len(b)
        BY <4>2
      <4>5. Up(b, Len(p)) \in old
        BY <4>4 DEF Tree, Grown, old
      <4> QED BY <2>4, <4>3, <4>5
    <3> HIDE DEF new
    <3>2. \A j \in Nat \ {0} : Append(p, j) \in old \cup new <=> j <= 0
      BY <1>5, <2>2, <2>4, <3>1
    <3> QED BY <3>2
  <2> QED BY <2>3, <2>4
<1>14. ASSUME NEW p \in DOMAIN u
       PROVE  /\ ChildCount(u, p) \in Nat
              /\ \A j \in Nat \ {0} : Append(p, j) \in DOMAIN u <=> j <= ChildCount(u, p)
  <2>1. DOMAIN u \subseteq Paths
    BY <1>4, <1>5, <1>7
  <2> HIDE DEF new
  <2>2. PICK m \in Nat : \A j \in Nat \ {0} : Append(p, j) \in DOMAIN u <=> j <= m
    BY <1>4, <1>13
  <2>3. ChildCount(u, p) = m
    BY <2>1, <2>2, CountRules
  <2> QED BY <2>2, <2>3
<1>15. Grown(u)
  <2>1. PICK depth \in Nat : \A p \in old : Len(p) <= depth
    BY DEF Tree, Grown, old
  <2>2. \A p \in new : Len(p) <= depth + 1
    BY <1>5, <1>7, <2>1
  <2>3. \A p \in old \cup new : Len(p) <= depth + 1
    <3> HIDE DEF new
    <3> QED BY <1>5, <2>1, <2>2
  <2>4. DOMAIN u \subseteq Paths /\ <<>> \in DOMAIN u
    BY <1>4, <1>5, <1>7
  <2> HIDE DEF new
  <2>5. \A q \in DOMAIN u : \A k \in 0 .. Len(q) : Up(q, k) \in DOMAIN u
    BY <1>4, <1>12
  <2>6. u \in [DOMAIN u -> Nodes]
    BY <1>4, <1>11
  <2>7. \E d \in Nat : \A p \in DOMAIN u : Len(p) <= d
    BY <1>4, <2>3
  <2> QED BY <1>14, <2>4, <2>5, <2>6, <2>7 DEF Grown
<1>16. Placed(u)
  <2> SUFFICES ASSUME NEW p \in DOMAIN u \ {<<>>} PROVE u[p].rowIdx \in {-1, Last(p) - 1}
    BY DEF Placed
  <2>1. CASE p \in old
    <3>1. t[p].rowIdx \in {-1, Last(p) - 1} /\ Row(t, at, p) = Last(p) - 1
      BY <2>1, RowRules DEF Tree, Placed, old
    <3> QED BY <1>8, <2>1, <3>1
  <2>2. CASE p \in new
    <3>1. PICK k \in 1 .. n : p = c[k]
      BY <2>2
    <3> QED BY <1>7, <1>9, <3>1
  <2> QED BY <1>4, <2>1, <2>2
<1>17. Linked(u)
  <2> SUFFICES ASSUME NEW q \in DOMAIN u, u[q].kind = "link", NEW l \in 0 .. Len(q) - 1
               PROVE  (q[l + 1] - 1) % Width \in RowsKept(u, Up(q, l), Len(q) - l)
    BY DEF Linked
  <2>1. CASE q \in old
    <3>1. t[q].kind = "link"
      BY <1>8, <2>1
    <3>2. (q[l + 1] - 1) % Width \in RowsKept(t, Up(q, l), Len(q) - l)
      BY <2>1, <3>1 DEF Tree, Linked, old
    <3>3. l \in 0 .. Len(q)
      BY <1>5, <2>1
    <3>4. Up(q, l) \in old
      BY <2>1, <3>3 DEF Tree, Grown, old
    <3> QED BY <1>8, <3>2, <3>4 DEF RowsKept
  <2>2. CASE q \in new
    <3>1. PICK k \in 1 .. n : q = c[k]
      BY <2>2
    <3>2. InsertedAsLink(kinds[k])
      BY <1>9, <3>1 DEF InsertedAsLink
    <3>3. /\ Len(parent) \in Nat /\ l \in 0 .. Len(parent) /\ Len(q) = Len(parent) + 1
          /\ Up(q, l) = Up(parent, l) /\ q[Len(parent) + 1] = count + k
          /\ \A i \in 1 .. Len(parent) : q[i] = parent[i]
      BY <1>5, <1>7, <3>1
    <3>4. CASE l = Len(parent)
      <4>1. Up(q, l) = parent
        BY <1>5, <3>3, <3>4, UpRules
      <4>2. (count + k - 1) % Width \in u[parent].linkRows
        BY <1>5, <1>8, <3>2
      <4>3. q[l + 1] = count + k /\ Len(q) - l = 1
        BY <3>3, <3>4
      <4> QED BY <4>1, <4>2, <4>3 DEF RowsKept
    <3>5. CASE l # Len(parent)
      <4>1. PICK p \in old : p = Up(q, l)
        BY <3>3 DEF Tree, Grown, old
      <4>2. Len(p) = l /\ p \in Paths /\ p = Up(parent, l)
        <5>1. p = Up(parent, l)
          BY <3>3, <4>1
        <5> QED BY <1>5, <3>3, <5>1, UpRules
      <4>3. IsPrefix(p, parent) /\ p # parent
        BY <1>5, <3>3, <3>5, <4>2, PrefixRules
      <4>4. (parent[Len(p) + 1] - 1) % Width \in u[p].linkAncestorRows
        BY <1>8, <3>2, <4>3
      <4>5. q[l + 1] = parent[Len(p) + 1] /\ Len(q) - l # 1
        BY <3>3, <3>5, <4>2
      <4> QED BY <4>1, <4>4, <4>5 DEF RowsKept
    <3> QED BY <3>4, <3>5
  <2> QED BY <1>4, <2>1, <2>2
<1>18. TopKept(t, u, at)
  <2>1. Row(t, at, <<>>) \in {t[<<>>].rowIdx, at}
    BY <1>5, RowRules DEF Tree, old
  <2> QED BY <1>5, <1>8, <2>1 DEF TopKept
<1>19. Tree(u) /\ DOMAIN t \subseteq DOMAIN u
  BY <1>4, <1>15, <1>16, <1>17 DEF Tree, old
<1>20. \A k \in DOMAIN kinds : Append(parent, ChildCount(t, parent) + k) \in DOMAIN u
  BY <1>1, <1>2, <1>4, <1>7
<1> QED BY <1>3, <1>18, <1>19, <1>20

\* All that may be a tree.
Trees == UNION {[D -> Nodes] : D \in SUBSET Paths}

\* The tree t after its array has some of n more parts filled.
PartlyFilled(t, at, array, n) ==
  {u \in Trees :
     /\ Tree(u) /\ TopKept(t, u, at)
     /\ \A k \in 1 .. n : Append(array, ChildCount(t, array) + k) \in DOMAIN u}

\* The trees of InsertElements, one for each new part.
PartsFilled(filled, t, at, array, n) ==
  filled = [k \in 0 .. n |->
              IF k = 0 THEN InsertChildren(t, at, array, [j \in 1 .. n |-> "part"])
              ELSE InsertChildren(filled[k - 1], at, Append(array, ChildCount(t, array) + k), PartFields)]

\* One part more.
LEMMA FillPart ==
  ASSUME NEW t, NEW at \in Int, NEW array, NEW n \in Nat, NEW k \in 1 .. n,
         NEW u \in PartlyFilled(t, at, array, n)
  PROVE  InsertChildren(u, at, Append(array, ChildCount(t, array) + k), PartFields)
           \in PartlyFilled(t, at, array, n)
<1>1. Tree(u) /\ TopKept(t, u, at)
  BY DEF PartlyFilled
<1>2. PICK p \in DOMAIN u : p = Append(array, ChildCount(t, array) + k)
  BY DEF PartlyFilled
<1>3. PICK kinds \in Seq(Kinds) : kinds = PartFields
  BY RowsAssumption DEF Kinds
<1>4. PICK v : v = InsertChildren(u, at, p, kinds)
  OBVIOUS
<1>5. Tree(v) /\ TopKept(u, v, at) /\ DOMAIN u \subseteq DOMAIN v
  BY <1>1, <1>4, InsertChildrenRight
<1>6. v \in Trees
  BY <1>5 DEF Tree, Grown, Trees
<1>7. TopKept(t, v, at)
  BY <1>1, <1>5 DEF TopKept
<1>8. v \in PartlyFilled(t, at, array, n)
  BY <1>5, <1>6, <1>7 DEF PartlyFilled
<1> QED BY <1>2, <1>3, <1>4, <1>8

\* The parts before they are filled.
LEMMA InsertParts ==
  ASSUME NEW t, Tree(t), NEW at \in Int, NEW array \in DOMAIN t, NEW n \in Nat
  PROVE  InsertChildren(t, at, array, [j \in 1 .. n |-> "part"]) \in PartlyFilled(t, at, array, n)
<1>1. PICK kinds \in Seq(Kinds) : kinds = [j \in 1 .. n |-> "part"]
  <2>1. "part" \in Kinds
    BY DEF Kinds
  <2>2. [j \in 1 .. n |-> "part"] \in Seq(Kinds)
    BY <2>1
  <2> QED BY <2>2
<1>2. PICK u : u = InsertChildren(t, at, array, kinds)
  OBVIOUS
<1>3. /\ Tree(u) /\ TopKept(t, u, at)
      /\ \A k \in DOMAIN kinds : Append(array, ChildCount(t, array) + k) \in DOMAIN u
  BY <1>2, InsertChildrenRight
<1>4. DOMAIN kinds = 1 .. n
  BY <1>1
<1>5. u \in Trees
  BY <1>3 DEF Tree, Grown, Trees
<1> QED BY <1>1, <1>2, <1>3, <1>4, <1>5 DEF PartlyFilled

\* These trees exist.
LEMMA PartsFilledExist ==
  ASSUME NEW t, Tree(t), NEW at \in Int, NEW array \in DOMAIN t, NEW n \in Nat
  PROVE  \E filled : PartsFilled(filled, t, at, array, n)
<1>1. PICK T : T = PartlyFilled(t, at, array, n)
  OBVIOUS
<1> DEFINE step == [p \in (1 .. n) \X T |->
                      InsertChildren(p[2], at, Append(array, ChildCount(t, array) + p[1]), PartFields)]
<1>2. PICK first \in T : first = InsertChildren(t, at, array, [j \in 1 .. n |-> "part"])
  BY <1>1, InsertParts
<1>3. step \in [(1 .. n) \X T -> T]
  BY <1>1, FillPart
<1>4. PICK f \in [0 .. n -> T] : Steps(f, n, first, step)
  <2> HIDE DEF step
  <2> QED BY <1>3, StepsExist
<1>5. ASSUME NEW k \in 0 .. n
      PROVE  f[k] = IF k = 0 THEN first
                    ELSE InsertChildren(f[k - 1], at, Append(array, ChildCount(t, array) + k), PartFields)
  <2>1. CASE k = 0
    BY <1>4, <2>1 DEF Steps
  <2>2. CASE k # 0
    <3>1. k - 1 \in 0 .. n /\ k \in 1 .. n /\ f[k - 1] \in T
      BY <2>2
    <3>2. f[k] = step[<<k, f[k - 1]>>]
      BY ONLY <1>4, <2>2, k \in 0 .. n DEF Steps
    <3> QED BY <2>2, <3>1, <3>2
  <2> QED BY <2>1, <2>2
<1> QED BY <1>2, <1>4, <1>5 DEF PartsFilled, Steps

\* New elements of an array.
LEMMA InsertElementsRight ==
  ASSUME NEW t, Tree(t), NEW at \in Int, NEW array \in DOMAIN t, NEW n \in Nat
  PROVE  Tree(InsertElements(t, at, array, n)) /\ TopKept(t, InsertElements(t, at, array, n), at)
<1>1. CASE t[array].kind = "links"
  <2>1. PICK kinds \in Seq(Kinds) : kinds = [k \in 1 .. n |-> "link"]
    <3>1. "link" \in Kinds
      BY DEF Kinds
    <3>2. [k \in 1 .. n |-> "link"] \in Seq(Kinds)
      BY <3>1
    <3> QED BY <3>2
  <2>2. PICK u : u = InsertChildren(t, at, array, kinds)
    OBVIOUS
  <2>3. Tree(u) /\ TopKept(t, u, at)
    BY <2>2, InsertChildrenRight
  <2>4. InsertElements(t, at, array, n) = u
    BY <1>1, <2>1, <2>2 DEF InsertElements
  <2> QED BY <2>3, <2>4
<1>2. CASE t[array].kind # "links"
  <2> DEFINE filled == CHOOSE filled : PartsFilled(filled, t, at, array, n)
  <2>1. InsertElements(t, at, array, n) = filled[n]
    BY <1>2 DEF InsertElements, PartsFilled
  <2>2. PartsFilled(filled, t, at, array, n)
    BY PartsFilledExist
  <2> HIDE DEF filled
  <2> DEFINE S == {k \in 0 .. n : filled[k] \in PartlyFilled(t, at, array, n)}
  <2>3. 0 \in S
    BY <2>2, InsertParts DEF PartsFilled
  <2>4. ASSUME NEW k \in 1 .. n, k - 1 \in S PROVE k \in S
    <3>1. PICK u \in PartlyFilled(t, at, array, n) : u = filled[k - 1]
      BY <2>4
    <3>2. filled[k] = InsertChildren(u, at, Append(array, ChildCount(t, array) + k), PartFields)
      BY <2>2, <3>1 DEF PartsFilled
    <3>3. filled[k] \in PartlyFilled(t, at, array, n)
      BY <3>2, FillPart
    <3> QED BY <3>3
  <2>5. n \in S
    <3> HIDE DEF S
    <3> QED BY <2>3, <2>4, StepByStep
  <2> QED BY <2>1, <2>5 DEF PartlyFilled
<1> QED BY <1>1, <1>2

\* An array with another number of elements.
LEMMA UpdateArrayItemRight ==
  ASSUME NEW t, Tree(t), NEW at \in Int, NEW array \in DOMAIN t, NEW rows \in Nat
  PROVE  Tree(UpdateArrayItem(t, at, array, rows)) /\ TopKept(t, UpdateArrayItem(t, at, array, rows), at)
<1>1. PICK count \in Nat : count = ChildCount(t, array)
  BY DEF Tree, Grown
<1>2. PICK u : u = Remember(t, at, {array})
  OBVIOUS
<1>3. Tree(u) /\ TopKept(t, u, at) /\ DOMAIN u = DOMAIN t
  BY <1>2, RememberRight
<1>4. \E v : UpdateArrayItem(t, at, array, rows) = v /\ Tree(v) /\ TopKept(u, v, at)
  <2>1. CASE rows < count
    <3>1. PICK n \in Nat : n = count - rows
      BY <2>1
    <3>2. UpdateArrayItem(t, at, array, rows) = RemoveLast(u, array, n)
      BY <1>1, <1>2, <2>1, <3>1 DEF UpdateArrayItem
    <3> QED BY <1>3, <3>2, RemoveLastRight
  <2>2. CASE ~ (rows < count)
    <3>1. PICK n \in Nat : n = rows - count
      BY <2>2
    <3>2. UpdateArrayItem(t, at, array, rows) = InsertElements(u, at, array, n)
      BY <1>1, <1>2, <2>2, <3>1 DEF UpdateArrayItem
    <3> QED BY <1>3, <3>2, InsertElementsRight
  <2> QED BY <2>1, <2>2
<1> QED BY <1>3, <1>4 DEF TopKept

------------------------------------------------------------------------------
(* The document.                                                           *)

\* Header, blocks and footer are trees, and the top of a block has a block type.
Documents(d) ==
  /\ d \in Seq(Trees) /\ Len(d) \in Nat /\ Len(d) >= 2
  /\ \A i \in 1 .. Len(d) : Tree(d[i])
  /\ \A i \in 2 .. Len(d) - 1 : d[i][<<>>].kind \in DOMAIN Own

\* Every child of the root but the last remembers the row it is in, or none; the
\* last one may remember a row in front of it.
RowsRight(d) ==
  /\ \A i \in 1 .. Len(d) - 1 : d[i][<<>>].rowIdx \in {-1, i - 1}
  /\ d[Len(d)][<<>>].rowIdx \in {-1} \cup 1 .. Len(d) - 1

\* No child of the root remembers a row.
NoRows(d) == \A i \in 1 .. Len(d) : d[i][<<>>].rowIdx = -1

\* The inductive invariant.
RowsInv == Documents(doc) /\ RowsRight(doc)

\* A list with an element more.
LEMMA InsertAtRules ==
  ASSUME NEW T, NEW s \in Seq(T), NEW i \in 1 .. Len(s) + 1, NEW e \in T
  PROVE  /\ InsertAt(s, i, e) \in Seq(T) /\ Len(InsertAt(s, i, e)) = Len(s) + 1
         /\ \A j \in 1 .. Len(s) + 1 :
              InsertAt(s, i, e)[j] = IF j < i THEN s[j] ELSE IF j = i THEN e ELSE s[j - 1]
<1>1. PICK n \in Nat : n = Len(s)
  OBVIOUS
<1>2. PICK a : a = SubSeq(s, 1, i - 1)
  OBVIOUS
<1>3. PICK b : b = SubSeq(s, i, n)
  OBVIOUS
<1>4. i \in Int /\ i - 1 \in Int
  BY <1>1
<1>5. /\ a \in Seq(T) /\ Len(a) = i - 1 /\ \A j \in 1 .. i - 1 : a[j] = s[j]
  <2>1. \A j \in 1 .. i - 1 : s[j] \in T
    BY <1>1
  <2>2. /\ SubSeq(s, 1, i - 1) \in Seq(T)
        /\ Len(SubSeq(s, 1, i - 1)) = IF 1 <= i - 1 THEN (i - 1) - 1 + 1 ELSE 0
        /\ \A j \in 1 .. (i - 1) - 1 + 1 : SubSeq(s, 1, i - 1)[j] = s[1 + j - 1]
    BY <1>4, <2>1, SubSeqProperties
  <2> QED BY <1>1, <1>2, <1>4, <2>2
<1>6. /\ b \in Seq(T) /\ Len(b) = n - i + 1 /\ \A j \in 1 .. n - i + 1 : b[j] = s[i + j - 1]
  <2>1. \A j \in i .. n : s[j] \in T
    BY <1>1
  <2>2. /\ SubSeq(s, i, n) \in Seq(T)
        /\ Len(SubSeq(s, i, n)) = IF i <= n THEN n - i + 1 ELSE 0
        /\ \A j \in 1 .. n - i + 1 : SubSeq(s, i, n)[j] = s[i + j - 1]
    BY <1>1, <1>4, <2>1, SubSeqProperties
  <2> QED BY <1>1, <1>3, <1>4, <2>2
<1>7. PICK c \in Seq(T) : c = <<e>> /\ Len(c) = 1 /\ c[1] = e
  <2>1. <<e>> \in Seq(T) /\ Len(<<e>>) = 1 /\ <<e>>[1] = e
    OBVIOUS
  <2> QED BY <2>1
<1>8. PICK ac \in Seq(T) : ac = a \o c
  <2>1. a \o c \in Seq(T)
    BY <1>5, <1>7, ConcatProperties
  <2> QED BY <2>1
<1>9. Len(ac) = i /\ \A j \in 1 .. i : ac[j] = IF j < i THEN s[j] ELSE e
  <2>1. Len(ac) = Len(a) + Len(c) /\ \A j \in 1 .. Len(a) + Len(c) :
          ac[j] = IF j <= Len(a) THEN a[j] ELSE c[j - Len(a)]
    BY <1>5, <1>8, ConcatProperties
  <2> QED BY <1>1, <1>4, <1>5, <1>7, <2>1
<1>10. PICK r \in Seq(T) : r = ac \o b
  <2>1. ac \o b \in Seq(T)
    BY <1>6, ConcatProperties
  <2> QED BY <2>1
<1>11. Len(r) = Len(ac) + Len(b) /\ \A j \in 1 .. Len(ac) + Len(b) :
         r[j] = IF j <= Len(ac) THEN ac[j] ELSE b[j - Len(ac)]
  BY <1>6, <1>10, ConcatProperties
<1>12. InsertAt(s, i, e) = r
  BY <1>1, <1>2, <1>3, <1>7, <1>8, <1>10 DEF InsertAt
<1>13. Len(r) = n + 1
  BY <1>1, <1>4, <1>6, <1>9, <1>11
<1>14. ASSUME NEW j \in 1 .. n + 1 PROVE r[j] = IF j < i THEN s[j] ELSE IF j = i THEN e ELSE s[j - 1]
  <2>1. CASE j <= i
    BY <1>1, <1>4, <1>6, <1>9, <1>11, <2>1
  <2>2. CASE j > i
    <3>1. j - i \in 1 .. n - i + 1 /\ i + (j - i) - 1 = j - 1
      BY <1>4, <2>2
    <3>2. r[j] = b[j - i]
      BY <1>1, <1>4, <1>6, <1>9, <1>11, <2>2
    <3>3. b[j - i] = s[j - 1]
      BY <1>6, <3>1
    <3> QED BY <1>4, <2>2, <3>2, <3>3
  <2> QED BY <1>4, <2>1, <2>2
<1> QED BY <1>1, <1>12, <1>13, <1>14

\* A list with an element less.
LEMMA RemoveAtRules ==
  ASSUME NEW T, NEW s \in Seq(T), NEW i \in 1 .. Len(s)
  PROVE  /\ RemoveAt(s, i) \in Seq(T) /\ Len(RemoveAt(s, i)) = Len(s) - 1
         /\ \A j \in 1 .. Len(s) - 1 : RemoveAt(s, i)[j] = IF j < i THEN s[j] ELSE s[j + 1]
<1>1. PICK n \in Nat : n = Len(s)
  OBVIOUS
<1>2. PICK a : a = SubSeq(s, 1, i - 1)
  OBVIOUS
<1>3. PICK b : b = SubSeq(s, i + 1, n)
  OBVIOUS
<1>4. i \in Int /\ i - 1 \in Int /\ i + 1 \in Int
  BY <1>1
<1>5. /\ a \in Seq(T) /\ Len(a) = i - 1 /\ \A j \in 1 .. i - 1 : a[j] = s[j]
  <2>1. \A j \in 1 .. i - 1 : s[j] \in T
    BY <1>1
  <2>2. /\ SubSeq(s, 1, i - 1) \in Seq(T)
        /\ Len(SubSeq(s, 1, i - 1)) = IF 1 <= i - 1 THEN (i - 1) - 1 + 1 ELSE 0
        /\ \A j \in 1 .. (i - 1) - 1 + 1 : SubSeq(s, 1, i - 1)[j] = s[1 + j - 1]
    BY <1>4, <2>1, SubSeqProperties
  <2> QED BY <1>1, <1>2, <1>4, <2>2
<1>6. /\ b \in Seq(T) /\ Len(b) = n - i /\ \A j \in 1 .. n - i : b[j] = s[i + j]
  <2>1. \A j \in i + 1 .. n : s[j] \in T
    BY <1>1
  <2>2. /\ SubSeq(s, i + 1, n) \in Seq(T)
        /\ Len(SubSeq(s, i + 1, n)) = IF i + 1 <= n THEN n - (i + 1) + 1 ELSE 0
        /\ \A j \in 1 .. n - (i + 1) + 1 : SubSeq(s, i + 1, n)[j] = s[i + 1 + j - 1]
    BY <1>1, <1>4, <2>1, SubSeqProperties
  <2> QED BY <1>1, <1>3, <1>4, <2>2
<1>7. PICK r \in Seq(T) : r = a \o b
  <2>1. a \o b \in Seq(T)
    BY <1>5, <1>6, ConcatProperties
  <2> QED BY <2>1
<1>8. Len(r) = Len(a) + Len(b) /\ \A j \in 1 .. Len(a) + Len(b) :
        r[j] = IF j <= Len(a) THEN a[j] ELSE b[j - Len(a)]
  BY <1>5, <1>6, <1>7, ConcatProperties
<1>9. RemoveAt(s, i) = r
  BY <1>1, <1>2, <1>3, <1>7 DEF RemoveAt
<1>10. Len(r) = n - 1
  BY <1>1, <1>4, <1>5, <1>6, <1>8
<1>11. ASSUME NEW j \in 1 .. n - 1 PROVE r[j] = IF j < i THEN s[j] ELSE s[j + 1]
  <2>0. Len(a) = i - 1 /\ Len(b) = n - i /\ j \in 1 .. Len(a) + Len(b)
    BY <1>1, <1>4, <1>5, <1>6
  <2>1. CASE j < i
    <3>1. j <= Len(a) /\ j \in 1 .. i - 1
      BY <1>4, <2>0, <2>1
    <3>2. r[j] = a[j]
      BY <1>8, <2>0, <3>1
    <3> QED BY <1>5, <2>1, <3>1, <3>2
  <2>2. CASE j >= i
    <3>1. j - (i - 1) \in 1 .. n - i /\ i + (j - (i - 1)) = j + 1
      BY <1>4, <2>2
    <3>2. r[j] = b[j - (i - 1)]
      <4>1. ~ (j <= Len(a))
        BY <1>4, <2>0, <2>2
      <4> QED BY <1>8, <2>0, <4>1
    <3>3. b[j - (i - 1)] = s[j + 1]
      BY <1>6, <3>1
    <3> QED BY <1>4, <2>2, <3>2, <3>3
  <2> QED BY <1>4, <2>1, <2>2
<1> QED BY <1>1, <1>9, <1>10, <1>11

\* The top of a tree with another row or another type.
LEMMA TopChanged ==
  ASSUME NEW t, Tree(t), NEW y \in Nodes, y.linkRows = t[<<>>].linkRows,
         y.linkAncestorRows = t[<<>>].linkAncestorRows, y.kind \in {t[<<>>].kind} \cup DOMAIN Own
  PROVE  Tree([t EXCEPT ![<<>>] = y]) /\ [t EXCEPT ![<<>>] = y][<<>>] = y
<1>1. PICK u : u = [t EXCEPT ![<<>>] = y]
  OBVIOUS
<1>2. t \in [DOMAIN t -> Nodes] /\ <<>> \in DOMAIN t
  BY DEF Tree, Grown
<1>3. u \in [DOMAIN t -> Nodes] /\ u[<<>>] = y /\ \A p \in DOMAIN t \ {<<>>} : u[p] = t[p]
  BY <1>1, <1>2
<1>4. Placed(u)
  BY <1>3 DEF Tree, Placed
<1>5. "link" \notin DOMAIN Own
  BY RowsAssumption DEF Kinds
<1>6. Tree(u)
  BY <1>3, <1>4, <1>5, SameItems
<1> QED BY <1>1, <1>3, <1>6

\* What a tree is made of.
LEMMA TreesAreTrees ==
  ASSUME NEW t, Tree(t)
  PROVE  t \in Trees /\ <<>> \in DOMAIN t /\ t[<<>>] \in Nodes
  BY DEF Tree, Grown, Trees

\* The top of a tree with another row.
LEMMA TopRow ==
  ASSUME NEW t, Tree(t), NEW r \in Int
  PROVE  LET u == [t EXCEPT ![<<>>].rowIdx = r]
         IN  Tree(u) /\ u[<<>>].rowIdx = r /\ u[<<>>].kind = t[<<>>].kind
<1>1. t[<<>>] \in Nodes /\ <<>> \in DOMAIN t
  BY TreesAreTrees
<1>2. PICK y : y = [t[<<>>] EXCEPT !.rowIdx = r]
  OBVIOUS
<1>3. /\ y \in Nodes /\ y.rowIdx = r /\ y.kind = t[<<>>].kind
      /\ y.linkRows = t[<<>>].linkRows /\ y.linkAncestorRows = t[<<>>].linkAncestorRows
  BY <1>1, <1>2, NodeRules
<1>4. [t EXCEPT ![<<>>].rowIdx = r] = [t EXCEPT ![<<>>] = y]
  BY <1>2
<1> QED BY <1>3, <1>4, TopChanged

\* The top of a tree with another type.
LEMMA TopKind ==
  ASSUME NEW t, Tree(t), NEW type \in DOMAIN Own
  PROVE  LET u == [t EXCEPT ![<<>>].kind = type]
         IN  Tree(u) /\ u[<<>>].rowIdx = t[<<>>].rowIdx /\ u[<<>>].kind = type
<1>1. t[<<>>] \in Nodes /\ <<>> \in DOMAIN t
  BY TreesAreTrees
<1>2. PICK y : y = [t[<<>>] EXCEPT !.kind = type]
  OBVIOUS
<1>3. /\ y \in Nodes /\ y.rowIdx = t[<<>>].rowIdx /\ y.kind = type
      /\ y.linkRows = t[<<>>].linkRows /\ y.linkAncestorRows = t[<<>>].linkAncestorRows
  BY <1>1, <1>2 DEF Nodes, AllKinds
<1>4. [t EXCEPT ![<<>>].kind = type] = [t EXCEPT ![<<>>] = y]
  BY <1>2
<1> QED BY <1>3, <1>4, TopChanged

\* An item without children.
LEMMA RootTree ==
  ASSUME NEW kind \in AllKinds \ {"link"}
  PROVE  LET t == Childless(kind)
         IN  Tree(t) /\ DOMAIN t = {<<>>} /\ t[<<>>].rowIdx = -1 /\ t[<<>>].kind = kind
<1>1. PICK t : t = Childless(kind)
  OBVIOUS
<1>2. t = [p \in {<<>>} |-> Node(kind)]
  BY <1>1 DEF Childless
<1>3. DOMAIN t = {<<>>} /\ t[<<>>] = Node(kind)
  BY <1>2
<1>4. Node(kind) \in Nodes /\ Node(kind).rowIdx = -1 /\ Node(kind).kind = kind
  BY DEF Node, Nodes
<1>5. <<>> \in Paths /\ Len(<<>>) = 0
  BY DEF Paths
<1>6. Up(<<>>, 0) = <<>>
  BY <1>5, UpRules
<1>7. \A j \in Nat \ {0} : Append(<<>>, j) \in DOMAIN t <=> j <= 0
  BY <1>3, <1>5, ChildRules
<1>8. ChildCount(t, <<>>) = 0
  BY <1>3, <1>5, <1>7, CountRules
<1>9. Grown(t)
  BY <1>2, <1>3, <1>4, <1>5, <1>6, <1>7, <1>8 DEF Grown
<1>10. Placed(t) /\ Linked(t)
  BY <1>3, <1>4 DEF Placed, Linked
<1> QED BY <1>1, <1>3, <1>4, <1>9, <1>10 DEF Tree

\* One tree in another state.
LEMMA ReplaceTree ==
  ASSUME NEW d, Documents(d), RowsRight(d), NEW i \in 1 .. Len(d), NEW u, Tree(u),
         u[<<>>].rowIdx \in {-1, i - 1, d[i][<<>>].rowIdx},
         u[<<>>].kind = d[i][<<>>].kind \/ u[<<>>].kind \in DOMAIN Own
  PROVE  Documents([d EXCEPT ![i] = u]) /\ RowsRight([d EXCEPT ![i] = u])
<1>1. u \in Trees
  BY TreesAreTrees
<1>2. PICK e : e = [d EXCEPT ![i] = u]
  OBVIOUS
<1>3. e \in Seq(Trees) /\ Len(e) = Len(d) /\ \A j \in 1 .. Len(d) : e[j] = IF j = i THEN u ELSE d[j]
  BY <1>1, <1>2, ExceptSeq DEF Documents
<1>4. Documents(e)
  BY <1>3 DEF Documents
<1>5. RowsRight(e)
  <2>1. Len(d) \in 1 .. Len(d) /\ Len(d) \in Nat
    BY DEF Documents
  <2>2. i = Len(d) => i - 1 \in 1 .. Len(d) - 1
    BY <2>1 DEF Documents
  <2>3. PICK n \in Nat : n = Len(d) /\ Len(e) = n
    BY <1>3, <2>1
  <2>4. \A j \in 1 .. n - 1 : e[j][<<>>].rowIdx \in {-1, j - 1}
    <3> SUFFICES ASSUME NEW j \in 1 .. n - 1 PROVE e[j][<<>>].rowIdx \in {-1, j - 1}
      OBVIOUS
    <3>1. d[j][<<>>].rowIdx \in {-1, j - 1} /\ j \in 1 .. Len(d)
      BY <2>3 DEF RowsRight
    <3>2. CASE j = i
      BY <1>3, <3>1, <3>2
    <3>3. CASE j # i
      BY <1>3, <3>1, <3>3
    <3> QED BY <3>2, <3>3
  <2>5. e[n][<<>>].rowIdx \in {-1} \cup 1 .. n - 1
    <3>1. d[n][<<>>].rowIdx \in {-1} \cup 1 .. n - 1
      BY <2>3 DEF RowsRight
    <3>2. CASE n = i
      BY <1>3, <2>1, <2>2, <2>3, <3>1, <3>2
    <3>3. CASE n # i
      BY <1>3, <2>1, <2>3, <3>1, <3>3
    <3> QED BY <3>2, <3>3
  <2> QED BY <2>3, <2>4, <2>5 DEF RowsRight
<1> QED BY <1>2, <1>4, <1>5

\* invalidateRowCounts of the root.
LEMMA ForgottenRight ==
  ASSUME NEW d, Documents(d)
  PROVE  Documents(Forgotten(d)) /\ NoRows(Forgotten(d)) /\ Len(Forgotten(d)) = Len(d)
<1>1. PICK e : e = Forgotten(d)
  OBVIOUS
<1>2. DOMAIN d = 1 .. Len(d) /\ Len(d) \in Nat
  BY DEF Documents
<1>3. e = [i \in 1 .. Len(d) |-> [d[i] EXCEPT ![<<>>].rowIdx = -1]]
  BY <1>1, <1>2 DEF Forgotten
<1>4. ASSUME NEW i \in 1 .. Len(d)
      PROVE  Tree(e[i]) /\ e[i][<<>>].rowIdx = -1 /\ e[i][<<>>].kind = d[i][<<>>].kind /\ e[i] \in Trees
  <2>1. PICK t : t = d[i] /\ Tree(t)
    BY DEF Documents
  <2>2. PICK r \in Int : r = -1
    OBVIOUS
  <2>3. PICK u : u = [t EXCEPT ![<<>>].rowIdx = r]
    OBVIOUS
  <2>4. Tree(u) /\ u[<<>>].rowIdx = r /\ u[<<>>].kind = t[<<>>].kind
    BY <2>1, <2>3, TopRow
  <2>5. e[i] = u
    BY <1>3, <2>1, <2>2, <2>3
  <2> QED BY <2>1, <2>2, <2>4, <2>5, TreesAreTrees
<1>5. e = [i \in 1 .. Len(d) |-> e[i]]
  BY <1>3
<1>6. e \in Seq(Trees) /\ Len(e) = Len(d)
  BY <1>2, <1>4, <1>5
<1>7. Documents(e)
  BY <1>4, <1>6 DEF Documents
<1> QED BY <1>1, <1>4, <1>6, <1>7 DEF NoRows

\* A block put in the row it remembers.
LEMMA BlockPut ==
  ASSUME NEW d, Documents(d), NEW at \in 1 .. Len(d) - 1, NEW u, Tree(u),
         u[<<>>].kind \in DOMAIN Own, u[<<>>].rowIdx \in {-1, at},
         NoRows(d) \/ (RowsRight(d) /\ at = Len(d) - 1)
  PROVE  Documents(InsertAt(d, at + 1, u)) /\ RowsRight(InsertAt(d, at + 1, u))
<1>1. PICK e : e = InsertAt(d, at + 1, u)
  OBVIOUS
<1>2. PICK n \in Nat : n = Len(d) /\ n >= 2 /\ at \in 1 .. n - 1
  BY DEF Documents
<1>3. e \in Seq(Trees) /\ Len(e) = n + 1
      /\ \A j \in 1 .. n + 1 : e[j] = IF j < at + 1 THEN d[j] ELSE IF j = at + 1 THEN u ELSE d[j - 1]
  <2>1. u \in Trees
    BY TreesAreTrees
  <2>2. PICK i \in 1 .. Len(d) + 1 : i = at + 1
    BY <1>2
  <2>3. d \in Seq(Trees)
    BY DEF Documents
  <2>4. /\ InsertAt(d, i, u) \in Seq(Trees) /\ Len(InsertAt(d, i, u)) = Len(d) + 1
        /\ \A j \in 1 .. Len(d) + 1 :
             InsertAt(d, i, u)[j] = IF j < i THEN d[j] ELSE IF j = i THEN u ELSE d[j - 1]
    <3>1. PICK T : T = Trees
      OBVIOUS
    <3>2. d \in Seq(T) /\ u \in T
      BY <2>1, <2>3, <3>1
    <3>3. /\ InsertAt(d, i, u) \in Seq(T) /\ Len(InsertAt(d, i, u)) = Len(d) + 1
          /\ \A j \in 1 .. Len(d) + 1 :
               InsertAt(d, i, u)[j] = IF j < i THEN d[j] ELSE IF j = i THEN u ELSE d[j - 1]
      BY <3>2, InsertAtRules
    <3> QED BY <3>1, <3>3
  <2> QED BY <1>1, <1>2, <2>2, <2>4
<1>4. Documents(e)
  <2>1. ASSUME NEW j \in 1 .. n + 1 PROVE Tree(e[j]) /\ (j \in 2 .. n => e[j][<<>>].kind \in DOMAIN Own)
    <3>1. CASE j < at + 1
      BY <1>2, <1>3, <3>1 DEF Documents
    <3>2. CASE j = at + 1
      BY <1>3, <3>2
    <3>3. CASE j > at + 1
      <4>1. PICK i \in 1 .. n : i = j - 1 /\ i >= 2 /\ e[j] = d[i]
        BY <1>2, <1>3, <3>3
      <4> QED BY <1>2, <4>1 DEF Documents
    <3> QED BY <1>2, <3>1, <3>2, <3>3
  <2> QED BY <1>2, <1>3, <2>1 DEF Documents
<1>5. RowsRight(e)
  <2>1. CASE NoRows(d)
    <3>1. \A j \in 1 .. n : d[j][<<>>].rowIdx = -1
      BY <1>2, <2>1 DEF NoRows
    <3>2. ASSUME NEW j \in 1 .. n + 1 PROVE e[j][<<>>].rowIdx = -1 \/ (j = at + 1 /\ e[j][<<>>].rowIdx = at)
      <4>1. CASE j = at + 1
        BY <1>3, <4>1
      <4>2. CASE j # at + 1
        <5>1. PICK i \in 1 .. n : e[j] = d[i]
          BY <1>2, <1>3, <4>2
        <5> QED BY <3>1, <5>1
      <4> QED BY <4>1, <4>2
    <3>3. n + 1 \in 1 .. n + 1 /\ at + 1 # n + 1
      BY <1>2
    <3>4. \A j \in 1 .. n : e[j][<<>>].rowIdx \in {-1, j - 1}
      <4> SUFFICES ASSUME NEW j \in 1 .. n PROVE e[j][<<>>].rowIdx \in {-1, j - 1}
        OBVIOUS
      <4>1. j \in 1 .. n + 1
        OBVIOUS
      <4> QED BY <1>2, <3>2, <4>1
    <3>5. e[n + 1][<<>>].rowIdx = -1
      BY <3>2, <3>3
    <3>6. Len(e) - 1 = n /\ Len(e) = n + 1
      BY <1>3
    <3> QED BY <3>4, <3>5, <3>6 DEF RowsRight
  <2>2. CASE RowsRight(d) /\ at = n - 1
    <3>1. e[n + 1] = d[n]
      BY <1>2, <1>3, <2>2
    <3>2. e[n] = u
      BY <1>2, <1>3, <2>2
    <3>3. \A j \in 1 .. n - 1 : e[j] = d[j]
      BY <1>2, <1>3, <2>2
    <3>4. \A j \in 1 .. n - 1 : e[j][<<>>].rowIdx \in {-1, j - 1}
      BY <1>2, <2>2, <3>3 DEF RowsRight
    <3>5. e[n + 1][<<>>].rowIdx \in {-1} \cup 1 .. n
      BY <1>2, <2>2, <3>1 DEF RowsRight
    <3>6. \A j \in 1 .. n : e[j][<<>>].rowIdx \in {-1, j - 1}
      BY <1>2, <2>2, <3>2, <3>4
    <3> QED BY <1>2, <1>3, <3>5, <3>6 DEF RowsRight
  <2> QED BY <1>2, <2>1, <2>2
<1> QED BY <1>1, <1>4, <1>5

\* A block taken out, when no row is remembered.
LEMMA BlockTaken ==
  ASSUME NEW d, Documents(d), NoRows(d), NEW i \in 2 .. Len(d) - 1
  PROVE  Documents(RemoveAt(d, i)) /\ NoRows(RemoveAt(d, i)) /\ Len(RemoveAt(d, i)) = Len(d) - 1
<1>1. PICK e : e = RemoveAt(d, i)
  OBVIOUS
<1>2. PICK n \in Nat : n = Len(d) /\ n >= 3 /\ i \in 2 .. n - 1
  BY DEF Documents
<1>3. e \in Seq(Trees) /\ Len(e) = n - 1 /\ \A j \in 1 .. n - 1 : e[j] = IF j < i THEN d[j] ELSE d[j + 1]
  <2>1. d \in Seq(Trees) /\ i \in 1 .. Len(d)
    BY <1>2 DEF Documents
  <2> QED BY <1>1, <1>2, <2>1, RemoveAtRules
<1>4. ASSUME NEW j \in 1 .. n - 1
      PROVE  /\ Tree(e[j]) /\ e[j][<<>>].rowIdx = -1
             /\ j \in 2 .. n - 2 => e[j][<<>>].kind \in DOMAIN Own
  <2>1. PICK m \in 1 .. n : e[j] = d[m] /\ (j \in 2 .. n - 2 => m \in 2 .. n - 1)
    <3>1. CASE j < i
      BY <1>2, <1>3, <3>1
    <3>2. CASE j >= i
      <4>1. j + 1 \in 1 .. n /\ e[j] = d[j + 1]
        BY <1>2, <1>3, <3>2
      <4> QED BY <1>2, <4>1
    <3> QED BY <1>2, <3>1, <3>2
  <2> QED BY <1>2, <2>1 DEF Documents, NoRows
<1> QED BY <1>1, <1>2, <1>3, <1>4 DEF Documents, NoRows

\* Where no row is remembered, none is wrong.
LEMMA NoRowsRight ==
  ASSUME NEW d, Documents(d), NoRows(d)
  PROVE  RowsRight(d)
  BY DEF Documents, NoRows, RowsRight

------------------------------------------------------------------------------
(* The operations.                                                         *)

\* The fields of a block type, with those it inherits.
LEMMA OwnFields ==
  ASSUME NEW type \in DOMAIN Own
  PROVE  Own[type] \in Seq(Kinds) /\ Inherits(type) \o Own[type] \in Seq(Kinds)
<1>1. \A x \in DOMAIN Own : Own[x] \in Seq(Kinds)
  <2>1. \A x \in DOMAIN Own : Own[x] \in Seq(Kinds \ {"part"})
    BY RowsAssumption
  <2> QED BY <2>1, SeqMonotonic
<1>2. Inherits(type) \in Seq(Kinds)
  <2>1. CASE type \in DOMAIN Ancestor
    <3>1. Ancestor[type] \in DOMAIN Own
      BY <2>1, RowsAssumption
    <3> QED BY <1>1, <2>1, <3>1 DEF Inherits
  <2>2. CASE type \notin DOMAIN Ancestor
    BY <2>2 DEF Inherits
  <2> QED BY <2>1, <2>2
<1> QED BY <1>1, <1>2, ConcatProperties

\* insertNiBlock: the block is filled, remembering the row it will have, and put
\* there.
LEMMA InsertNiBlockRight ==
  ASSUME RowsInv, NEW type \in DOMAIN Own, NEW number, InsertNiBlock(type, number)
  PROVE  RowsInv'
<1>1. PICK n \in Nat : n = Len(doc) /\ n >= 2
  BY DEF RowsInv, Documents
<1>2. PICK at \in 1 .. n - 1 : at = number + 1
  BY <1>1 DEF InsertNiBlock, BlockCount
<1>3. PICK t : t = Childless(type)
  OBVIOUS
<1>4. Tree(t) /\ <<>> \in DOMAIN t /\ t[<<>>].rowIdx = -1 /\ t[<<>>].kind = type
  <2>1. type \in AllKinds \ {"link"}
    BY RowsAssumption DEF AllKinds, Kinds
  <2> QED BY <1>3, <2>1, RootTree
<1>5. PICK kinds \in Seq(Kinds) : kinds = Inherits(type) \o Own[type]
  BY OwnFields
<1>6. PICK parent \in DOMAIN t : parent = <<>>
  BY <1>4
<1>7. PICK branch : branch = InsertChildren(t, at, parent, kinds)
  OBVIOUS
<1>8. Tree(branch) /\ TopKept(t, branch, at)
  <2>1. at \in Int
    OBVIOUS
  <2> QED BY <1>4, <1>7, <2>1, InsertChildrenRight
<1>9. PICK u : u = Remember(branch, at, {<<>>})
  OBVIOUS
<1>10. Tree(u) /\ TopKept(branch, u, at)
  BY <1>8, <1>9, RememberRight
<1>11. u[<<>>].kind = type /\ u[<<>>].rowIdx \in {-1, at}
  BY <1>4, <1>8, <1>10 DEF TopKept
<1>12. doc' = InsertData(doc, at, u)
  BY <1>2, <1>3, <1>5, <1>6, <1>7, <1>9 DEF InsertNiBlock
<1>13. PICK d : d = IF at < n - 1 THEN Forgotten(doc) ELSE doc
  OBVIOUS
<1>14. doc' = InsertAt(d, at + 1, u)
  BY <1>1, <1>12, <1>13 DEF InsertData
<1>15. Documents(d) /\ Len(d) = n /\ (NoRows(d) \/ (RowsRight(d) /\ at = n - 1))
  BY <1>1, <1>13, ForgottenRight DEF RowsInv
<1>16. Documents(InsertAt(d, at + 1, u)) /\ RowsRight(InsertAt(d, at + 1, u))
  BY <1>10, <1>11, <1>15, BlockPut
<1> QED BY <1>14, <1>16 DEF RowsInv, Documents, RowsRight

\* removeNiBlock: no row of a child of the root is remembered after it.
LEMMA RemoveNiBlockRight ==
  ASSUME RowsInv, NEW number, RemoveNiBlock(number)
  PROVE  RowsInv'
<1>1. PICK d : d = Forgotten(doc)
  OBVIOUS
<1>2. Documents(d) /\ NoRows(d) /\ Len(d) = Len(doc) /\ Len(doc) \in Nat
  BY <1>1, ForgottenRight DEF RowsInv, Documents
<1>3. PICK i \in 2 .. Len(d) - 1 : i = number + 2
  BY <1>2 DEF RemoveNiBlock, BlockCount
<1>4. PICK e : e = RemoveAt(d, i)
  OBVIOUS
<1>5. Documents(e) /\ RowsRight(e)
  BY <1>2, <1>4, BlockTaken, NoRowsRight
<1>6. doc' = e
  <2>1. number + 1 + 1 = number + 2
    BY DEF RemoveNiBlock
  <2> QED BY <1>1, <1>3, <1>4, <2>1 DEF RemoveNiBlock, RemoveChild
<1> QED BY <1>5, <1>6 DEF RowsInv, Documents, RowsRight

\* moveNiBlock: the same, for a block taken out and put back.
LEMMA MoveNiBlockRight ==
  ASSUME RowsInv, NEW src, NEW dst, MoveNiBlock(src, dst)
  PROVE  RowsInv'
<1>1. PICK d : d = Forgotten(doc)
  OBVIOUS
<1>2. PICK n \in Nat : n = Len(doc)
  BY DEF RowsInv, Documents
<1>3. Documents(d) /\ NoRows(d) /\ Len(d) = n
  BY <1>1, <1>2, ForgottenRight DEF RowsInv
<1>4. PICK i \in 2 .. n - 1, at \in 1 .. n - 2 : i = src + 2 /\ at = dst + 1
  BY <1>2 DEF MoveNiBlock, BlockCount
<1>5. PICK left : left = RemoveAt(d, i)
  OBVIOUS
<1>6. Documents(left) /\ Len(left) = n - 1
  BY <1>3, <1>5, BlockTaken
<1>7. PICK e : e = Forgotten(left)
  OBVIOUS
<1>8. Documents(e) /\ NoRows(e) /\ Len(e) = n - 1
  BY <1>6, <1>7, ForgottenRight
<1>9. PICK t : t = d[i] /\ Tree(t) /\ t[<<>>].kind \in DOMAIN Own
  BY <1>3 DEF Documents
<1>10. PICK u : u = [t EXCEPT ![<<>>].rowIdx = at]
  OBVIOUS
<1>11. Tree(u) /\ u[<<>>].rowIdx = at /\ u[<<>>].kind = t[<<>>].kind
  BY <1>9, <1>10, TopRow
<1>12. Documents(InsertAt(e, at + 1, u)) /\ RowsRight(InsertAt(e, at + 1, u))
  <2>1. at \in 1 .. Len(e) - 1
    BY <1>8
  <2> QED BY <1>8, <1>9, <1>11, <2>1, BlockPut
<1>13. doc' = InsertAt(e, at + 1, u)
  <2>1. src + 1 + 1 = i
    BY <1>4 DEF MoveNiBlock
  <2>2. TakeChild(doc, src + 1) = [tree |-> t, left |-> left]
    BY <1>1, <1>5, <1>9, <2>1 DEF TakeChild
  <2>3. doc' = InsertItem(left, at, t)
    BY <1>4, <2>2 DEF MoveNiBlock
  <2> QED BY <1>7, <1>10, <2>3 DEF InsertItem
<1> QED BY <1>12, <1>13 DEF RowsInv, Documents, RowsRight

\* convertNiBlock: the block is emptied or extended where it is.
LEMMA ConvertNiBlockRight ==
  ASSUME RowsInv, NEW i, NEW type \in DOMAIN Own, ConvertNiBlock(i, type)
  PROVE  RowsInv'
<1>1. PICK n \in Nat : n = Len(doc) /\ i \in 2 .. n - 1
  BY DEF RowsInv, Documents, ConvertNiBlock, Blocks
<1>2. PICK t : t = doc[i] /\ Tree(t) /\ t[<<>>].kind \in DOMAIN Own
  BY <1>1 DEF RowsInv, Documents
<1>3. PICK tree : tree = [t EXCEPT ![<<>>].kind = type]
  OBVIOUS
<1>4. Tree(tree) /\ tree[<<>>].rowIdx = t[<<>>].rowIdx /\ tree[<<>>].kind = type
  BY <1>2, <1>3, TopKind
<1>5. PICK top \in DOMAIN tree : top = <<>>
  BY <1>4, TreesAreTrees
<1>6. PICK u : doc' = [doc EXCEPT ![i] = u] /\ Tree(u) /\ TopKept(tree, u, i - 1)
  <2>1. CASE doc' = [doc EXCEPT ![i] = RemoveLast(tree, <<>>, Len(Own[t[<<>>].kind]))]
    <3>1. PICK m \in Nat : m = Len(Own[t[<<>>].kind])
      BY <1>2, OwnFields
    <3> QED BY <1>4, <1>5, <2>1, <3>1, RemoveLastRight
  <2>2. CASE doc' = [doc EXCEPT ![i] = InsertChildren(tree, i - 1, <<>>, Own[type])]
    <3>1. PICK kinds \in Seq(Kinds) : kinds = Own[type]
      BY OwnFields
    <3>2. PICK at \in Int : at = i - 1
      BY <1>1
    <3> QED BY <1>4, <1>5, <2>2, <3>1, <3>2, InsertChildrenRight
  <2> QED BY <1>2, <1>3, <2>1, <2>2 DEF ConvertNiBlock
<1>7. /\ u[<<>>].rowIdx \in {-1, i - 1, doc[i][<<>>].rowIdx} /\ u[<<>>].kind \in DOMAIN Own
  BY <1>2, <1>4, <1>6 DEF TopKept
<1>8. Documents([doc EXCEPT ![i] = u]) /\ RowsRight([doc EXCEPT ![i] = u])
  <2>1. i \in 1 .. Len(doc)
    BY <1>1
  <2>2. Documents(doc) /\ RowsRight(doc)
    BY DEF RowsInv
  <2> QED BY <1>6, <1>7, <2>1, <2>2, ReplaceTree
<1> QED BY <1>6, <1>8 DEF RowsInv, Documents, RowsRight

\* An operation below the top of one tree.
LEMMA BelowTop ==
  ASSUME RowsInv, NEW i \in 1 .. Len(doc), NEW u, Tree(u), TopKept(doc[i], u, i - 1),
         doc' = [doc EXCEPT ![i] = u]
  PROVE  RowsInv'
<1>1. u[<<>>].rowIdx \in {-1, i - 1, doc[i][<<>>].rowIdx} /\ u[<<>>].kind = doc[i][<<>>].kind
  BY DEF TopKept
<1>2. Documents([doc EXCEPT ![i] = u]) /\ RowsRight([doc EXCEPT ![i] = u])
  BY <1>1, ReplaceTree DEF RowsInv
<1> QED BY <1>2 DEF RowsInv, Documents, RowsRight

\* updateArrayItem: rows are added at the end, or removed from it.
LEMMA ResizeArrayRight ==
  ASSUME RowsInv, NEW i, NEW array, NEW rows \in Nat, ResizeArray(i, array, rows)
  PROVE  RowsInv'
<1>1. i \in 1 .. Len(doc) /\ i \in Int
  BY DEF RowsInv, Documents, ResizeArray, Blocks
<1>2. PICK t : t = doc[i] /\ Tree(t) /\ array \in DOMAIN t
  BY <1>1 DEF RowsInv, Documents, ResizeArray
<1>3. PICK at \in Int : at = i - 1
  BY <1>1
<1>4. PICK u : u = UpdateArrayItem(t, at, array, rows)
  OBVIOUS
<1>5. Tree(u) /\ TopKept(t, u, at)
  BY <1>2, <1>4, UpdateArrayItemRight
<1>6. doc' = [doc EXCEPT ![i] = u]
  BY <1>2, <1>3, <1>4 DEF ResizeArray
<1> QED BY <1>1, <1>2, <1>3, <1>5, <1>6, BelowTop

\* A view asks for an item's parents: each remembers its row.
LEMMA ShowItemRight ==
  ASSUME RowsInv, NEW i, NEW p, ShowItem(i, p)
  PROVE  RowsInv'
<1>1. i \in 1 .. Len(doc) /\ i \in Int
  BY DEF RowsInv, Documents, ShowItem
<1>2. PICK t : t = doc[i] /\ Tree(t)
  BY <1>1 DEF RowsInv, Documents
<1>3. PICK at \in Int : at = i - 1
  BY <1>1
<1>4. PICK u : u = Remember(t, at, {q \in DOMAIN t : IsPrefix(q, p)})
  OBVIOUS
<1>5. Tree(u) /\ TopKept(t, u, at)
  BY <1>2, <1>4, RememberRight
<1>6. doc' = [doc EXCEPT ![i] = u]
  BY <1>2, <1>3, <1>4 DEF ShowItem
<1> QED BY <1>1, <1>2, <1>3, <1>5, <1>6, BelowTop

\* The document starts right, and stays so.
LEMMA RowsInvHolds == Spec => []RowsInv
<1>1. Init => RowsInv
  <2> SUFFICES ASSUME Init PROVE RowsInv
    OBVIOUS
  <2>1. PICK a : a = Childless("header") /\ Tree(a) /\ a[<<>>].rowIdx = -1 /\ a \in Trees
    <3>1. PICK kind \in AllKinds \ {"link"} : kind = "header"
      BY DEF AllKinds
    <3> QED BY <3>1, RootTree, TreesAreTrees
  <2>2. PICK b : b = Childless("footer") /\ Tree(b) /\ b[<<>>].rowIdx = -1 /\ b \in Trees
    <3>1. PICK kind \in AllKinds \ {"link"} : kind = "footer"
      BY DEF AllKinds
    <3> QED BY <3>1, RootTree, TreesAreTrees
  <2>3. doc = <<a, b>>
    BY <2>1, <2>2 DEF Init
  <2>4. doc \in Seq(Trees) /\ Len(doc) = 2 /\ doc[1] = a /\ doc[2] = b
    BY <2>1, <2>2, <2>3
  <2>5. Documents(doc)
    BY <2>1, <2>2, <2>4 DEF Documents
  <2>6. NoRows(doc)
    BY <2>1, <2>2, <2>4 DEF NoRows
  <2> QED BY <2>5, <2>6, NoRowsRight DEF RowsInv
<1>2. RowsInv /\ [Next]_doc => RowsInv'
  <2> SUFFICES ASSUME RowsInv, [Next]_doc PROVE RowsInv'
    OBVIOUS
  <2>1. CASE \E type \in DOMAIN Own, number \in 0 .. MaxBlocks : InsertNiBlock(type, number)
    BY <2>1, InsertNiBlockRight
  <2>2. CASE \E number \in 0 .. MaxBlocks : RemoveNiBlock(number)
    BY <2>2, RemoveNiBlockRight
  <2>3. CASE \E src, dst \in 0 .. MaxBlocks : MoveNiBlock(src, dst)
    BY <2>3, MoveNiBlockRight
  <2>4. CASE \E i \in Blocks, type \in DOMAIN Own : ConvertNiBlock(i, type)
    BY <2>4, ConvertNiBlockRight
  <2>5. CASE \E i \in Blocks : \E array \in DOMAIN doc[i], rows \in 0 .. MaxItems : ResizeArray(i, array, rows)
    BY <2>5, ResizeArrayRight
  <2>6. CASE \E i \in DOMAIN doc : \E p \in DOMAIN doc[i] : ShowItem(i, p)
    BY <2>6, ShowItemRight
  <2>7. CASE UNCHANGED doc
    BY <2>7 DEF RowsInv, Documents, RowsRight
  <2> QED BY <2>1, <2>2, <2>3, <2>4, <2>5, <2>6, <2>7 DEF Next
<1> QED BY <1>1, <1>2, PTL DEF Spec

\* row(): a remembered row is the row of the item, but for the last child of the root,
\* which may remember a row that a block has taken since (nifitem.h insertChild).
THEOREM OnlyFooterMisplacedHolds == Spec => []OnlyFooterMisplaced
<1>1. RowsInv => OnlyFooterMisplaced
  <2> SUFFICES ASSUME RowsInv, NEW i \in DOMAIN doc, NEW p \in DOMAIN doc[i]
               PROVE  \/ doc[i][p].rowIdx \in {-1, IF p = <<>> THEN i - 1 ELSE Last(p) - 1}
                      \/ i = Len(doc) /\ p = <<>> /\ doc[i][p].rowIdx \in 1 .. BlockCount
    BY DEF OnlyFooterMisplaced
  <2>1. PICK n \in Nat : n = Len(doc) /\ i \in 1 .. n /\ BlockCount = n - 2
    BY DEF RowsInv, Documents, BlockCount
  <2>2. Placed(doc[i])
    BY <2>1 DEF RowsInv, Documents, Tree
  <2>3. CASE p # <<>>
    BY <2>2, <2>3 DEF Placed
  <2>4. CASE p = <<>> /\ i # n
    <3>1. i \in 1 .. n - 1
      BY <2>1, <2>4
    <3> QED BY <2>1, <2>4, <3>1 DEF RowsInv, RowsRight
  <2>5. CASE p = <<>> /\ i = n
    <3>1. doc[n][<<>>].rowIdx \in {-1} \cup 1 .. n - 1
      BY <2>1 DEF RowsInv, RowsRight
    <3>2. \A r \in 1 .. n - 1 : r = n - 1 \/ r \in 1 .. n - 2
      BY <2>1
    <3> QED BY <2>1, <2>5, <3>1, <3>2
  <2> QED BY <2>3, <2>4, <2>5
<1> QED BY <1>1, RowsInvHolds, PTL

------------------------------------------------------------------------------
(* Finding the links by their rows.                                        *)

\* The rows of an item that lead to links among its children.
LinkRowsOf(t, p) ==
  {s \in t[p].linkRows : Append(p, s + 1) \in DOMAIN t /\ t[Append(p, s + 1)].kind = "link"}

\* The rows of an item on the way to links, that lead to children with children.
WayRowsOf(t, p) ==
  {s \in t[p].linkRows \cup t[p].linkAncestorRows :
     Append(p, s + 1) \in DOMAIN t /\ ChildCount(t, Append(p, s + 1)) > 0}

\* What updateLinks finds below an item, from what it finds below the children.
FoundBelow(found, t, p) ==
  {Append(p, r + 1) : r \in LinkRowsOf(t, p)} \cup UNION {found[Append(p, r + 1)] : r \in WayRowsOf(t, p)}

\* The search, from each item of a tree.
FoundRows(found, t) == found = [p \in DOMAIN t |-> FoundBelow(found, t, p)]

\* Rows are numbers, and the way goes down.
LEMMA RowsDown ==
  ASSUME NEW t, Tree(t), NEW p \in DOMAIN t
  PROVE  \A r \in LinkRowsOf(t, p) \cup WayRowsOf(t, p) :
           /\ r \in 0 .. Width - 1 /\ r + 1 \in Nat \ {0}
           /\ Append(p, r + 1) \in DOMAIN t
           /\ Len(Append(p, r + 1)) = Len(p) + 1
<1>1. t[p].linkRows \subseteq 0 .. Width - 1 /\ t[p].linkAncestorRows \subseteq 0 .. Width - 1
  <2>1. t[p] \in Nodes
    BY DEF Tree, Grown
  <2> QED BY <2>1 DEF Nodes
<1>2. p \in Paths /\ Width \in Nat
  BY RowsAssumption DEF Tree, Grown
<1> SUFFICES ASSUME NEW r \in LinkRowsOf(t, p) \cup WayRowsOf(t, p)
             PROVE  /\ r \in 0 .. Width - 1 /\ r + 1 \in Nat \ {0}
                    /\ Append(p, r + 1) \in DOMAIN t
                    /\ Len(Append(p, r + 1)) = Len(p) + 1
  OBVIOUS
<1>3. r \in 0 .. Width - 1 /\ Append(p, r + 1) \in DOMAIN t
  BY <1>1 DEF LinkRowsOf, WayRowsOf
<1>4. PICK j \in Nat \ {0} : j = r + 1
  BY <1>2, <1>3
<1>5. Len(Append(p, j)) = Len(p) + 1
  BY <1>2, ChildRules
<1> QED BY <1>3, <1>4, <1>5

\* The search ends: what it finds is defined.
LEMMA FoundRowsExist ==
  ASSUME NEW t, Tree(t)
  PROVE  \E found : FoundRows(found, t)
<1>1. PICK depth \in Nat : \A p \in DOMAIN t : Len(p) <= depth
  BY DEF Tree, Grown
<1>2. DOMAIN t \subseteq Paths /\ \A p \in DOMAIN t : Len(p) \in Nat
  BY DEF Tree, Grown, Paths
<1> DEFINE S == DOMAIN t
           T == SUBSET DOMAIN t
           rank == [p \in S |-> depth - Len(p)]
           G == [x \in [S -> T] \X S |-> FoundBelow(x[1], t, x[2])]
<1>3. rank \in [S -> Nat]
  BY <1>1, <1>2
<1>4. ASSUME NEW f \in [S -> T], NEW p \in S PROVE FoundBelow(f, t, p) \in T
  <2>1. \A r \in LinkRowsOf(t, p) \cup WayRowsOf(t, p) : Append(p, r + 1) \in S
    BY RowsDown
  <2>2. \A q \in S : f[q] \in SUBSET S
    BY <1>4
  <2>3. {Append(p, r + 1) : r \in LinkRowsOf(t, p)} \subseteq S
    BY <2>1
  <2>4. UNION {f[Append(p, r + 1)] : r \in WayRowsOf(t, p)} \subseteq S
    BY <2>1, <2>2
  <2> QED BY <2>3, <2>4 DEF FoundBelow
<1>5. G \in [[S -> T] \X S -> T]
  BY <1>4
<1>6. ASSUME NEW f \in [S -> T], NEW g \in [S -> T], NEW p \in S,
             \A q \in S : <<rank[q], rank[p]>> \in Less => f[q] = g[q]
      PROVE  G[<<f, p>>] = G[<<g, p>>]
  <2>1. ASSUME NEW r \in WayRowsOf(t, p) PROVE f[Append(p, r + 1)] = g[Append(p, r + 1)]
    <3>1. PICK q \in S : q = Append(p, r + 1) /\ Len(q) = Len(p) + 1
      BY RowsDown
    <3>2. rank[q] \in Nat /\ rank[p] \in Nat /\ rank[q] < rank[p]
      <4>1. rank[q] = depth - Len(q) /\ rank[p] = depth - Len(p)
        BY <1>6, <3>1
      <4>2. Len(q) \in Nat /\ Len(p) \in Nat /\ Len(q) <= depth /\ Len(p) <= depth
        BY <1>1, <1>2, <1>6, <3>1
      <4> QED BY <3>1, <4>1, <4>2
    <3>3. <<rank[q], rank[p]>> \in Less
      BY <3>2 DEF Less
    <3> QED BY <1>6, <3>1, <3>3
  <2>2. FoundBelow(f, t, p) = FoundBelow(g, t, p)
    BY <2>1 DEF FoundBelow
  <2> QED BY <2>2
<1>7. \E f : Defines(G, f, S, T)
  <2> HIDE DEF rank, G, S, T
  <2>1. Recursive(G, S, T, rank, Less)
    BY <1>5, <1>6 DEF Recursive
  <2>2. IsTransitivelyClosedOn(Less, Nat)
    BY DEF Less, IsTransitivelyClosedOn
  <2>3. T # {}
    BY DEF T
  <2> QED BY <1>3, <2>1, <2>2, <2>3, LessIsWellFounded, Recursion
<1>8. PICK f \in [S -> T] : \A p \in S : f[p] = G[<<f, p>>]
  BY <1>7 DEF Defines
<1>9. \A p \in S : f[p] = FoundBelow(f, t, p)
  BY <1>8
<1>10. f = [p \in S |-> FoundBelow(f, t, p)]
  BY <1>8, <1>9
<1> QED BY <1>10 DEF FoundRows

\* The links below an item to which every step fits in a row.
LinksBelowOf(t, p) ==
  {q \in DOMAIN t : /\ Len(q) > Len(p) /\ IsPrefix(p, q) /\ t[q].kind = "link"
                    /\ \A k \in Len(p) + 1 .. Len(q) : q[k] <= Width}

\* What is found below an item is right if it is right below its children.
LEMMA FoundStep ==
  ASSUME NEW t, Tree(t), NEW found, FoundRows(found, t), NEW p \in DOMAIN t,
         \A q \in DOMAIN t : Len(q) = Len(p) + 1 => found[q] = LinksBelowOf(t, q)
  PROVE  found[p] = LinksBelowOf(t, p)
<1>1. /\ p \in Paths /\ DOMAIN t \subseteq Paths /\ Width \in Nat \ {0}
      /\ \A q \in Paths : Len(q) \in Nat
  BY RowsAssumption DEF Tree, Grown, Paths
<1>2. found[p] = FoundBelow(found, t, p)
  BY DEF FoundRows
<1>3. ASSUME NEW q \in found[p] PROVE q \in LinksBelowOf(t, p)
  <2>1. CASE \E r \in LinkRowsOf(t, p) : q = Append(p, r + 1)
    <3>1. PICK r \in LinkRowsOf(t, p) : q = Append(p, r + 1)
      BY <2>1
    <3>2. r \in 0 .. Width - 1 /\ q \in DOMAIN t /\ t[q].kind = "link"
      BY <3>1, RowsDown DEF LinkRowsOf
    <3>3. PICK j \in Nat \ {0} : j = r + 1 /\ j <= Width
      BY <1>1, <3>2
    <3>4. q = Append(p, j)
      BY <3>1, <3>3
    <3>5. Len(q) = Len(p) + 1 /\ q[Len(p) + 1] = j
      BY <1>1, <3>4, ChildRules
    <3>6. IsPrefix(p, q)
      BY <1>1, <3>2, <3>4, IsChild
    <3>7. \A k \in Len(p) + 1 .. Len(q) : q[k] <= Width
      BY <1>1, <3>3, <3>5
    <3> QED BY <1>1, <3>2, <3>5, <3>6, <3>7 DEF LinksBelowOf
  <2>2. CASE \E r \in WayRowsOf(t, p) : q \in found[Append(p, r + 1)]
    <3>1. PICK r \in WayRowsOf(t, p) : q \in found[Append(p, r + 1)]
      BY <2>2
    <3>2. PICK c \in DOMAIN t : c = Append(p, r + 1) /\ Len(c) = Len(p) + 1
      BY <3>1, RowsDown
    <3>3. PICK j \in Nat \ {0} : j = r + 1 /\ j <= Width
      BY <1>1, RowsDown
    <3>4. q \in LinksBelowOf(t, c)
      BY <3>1, <3>2
    <3>5. /\ q \in DOMAIN t /\ q \in Paths /\ Len(q) > Len(c) /\ IsPrefix(c, q) /\ t[q].kind = "link"
          /\ \A k \in Len(c) + 1 .. Len(q) : q[k] <= Width
      BY <1>1, <3>4 DEF LinksBelowOf
    <3>6. /\ \A i \in 1 .. Len(p) : c[i] = p[i]
          /\ c[Len(p) + 1] = j
      BY <1>1, <3>2, <3>3, ChildRules
    <3>7. \A i \in 1 .. Len(c) : c[i] = q[i]
      BY <1>1, <3>2, <3>5, PrefixRules
    <3>8. (\A i \in 1 .. Len(p) : p[i] = q[i]) /\ q[Len(p) + 1] = j
      BY <1>1, <3>2, <3>6, <3>7
    <3>9. IsPrefix(p, q)
      BY <1>1, <3>2, <3>5, <3>8, PrefixRules
    <3>10. ASSUME NEW k \in Len(p) + 1 .. Len(q) PROVE q[k] <= Width
      <4>1. CASE k = Len(p) + 1
        BY <3>3, <3>8, <4>1
      <4>2. CASE k # Len(p) + 1
        <5>1. k \in Len(c) + 1 .. Len(q)
          BY <1>1, <3>2, <4>2
        <5> QED BY <3>5, <5>1
      <4> QED BY <4>1, <4>2
    <3> QED BY <1>1, <3>2, <3>5, <3>9, <3>10 DEF LinksBelowOf
  <2> QED BY <1>2, <2>1, <2>2 DEF FoundBelow
<1>4. ASSUME NEW q \in LinksBelowOf(t, p) PROVE q \in found[p]
  <2>1. /\ q \in DOMAIN t /\ q \in Paths /\ Len(q) > Len(p) /\ IsPrefix(p, q) /\ t[q].kind = "link"
        /\ \A k \in Len(p) + 1 .. Len(q) : q[k] <= Width
    BY <1>1, <1>4 DEF LinksBelowOf
  <2>2. PICK l \in 0 .. Len(q) - 1 : l = Len(p)
    BY <1>1, <2>1
  <2>3. PICK j \in Nat \ {0} : j = q[l + 1] /\ Up(q, l + 1) = Append(Up(q, l), j)
    BY <2>1, UpStep
  <2>4. Up(q, l) = p
    BY <1>1, <2>1, <2>2, PrefixRules
  <2>5. PICK r \in 0 .. Width - 1 : r = j - 1 /\ r + 1 = j
    <3>1. j <= Width
      BY <1>1, <2>1, <2>2, <2>3
    <3> QED BY <1>1, <3>1
  <2>6. (j - 1) % Width \in RowsKept(t, p, Len(q) - l)
    BY <2>1, <2>3, <2>4 DEF Tree, Linked
  <2>7. r \in RowsKept(t, p, Len(q) - l)
    <3>1. r % Width = r
      BY CutRules
    <3> QED BY <2>5, <2>6, <3>1
  <2>8. l + 1 \in 0 .. Len(q)
    BY <1>1, <2>1, <2>2
  <2>9. PICK c \in DOMAIN t : c = Append(p, r + 1) /\ c = Up(q, l + 1)
    BY <2>1, <2>3, <2>4, <2>5, <2>8 DEF Tree, Grown
  <2>10. Len(c) = l + 1 /\ c \in Paths
    BY <2>1, <2>8, <2>9, UpRules
  <2>11. CASE Len(q) = l + 1
    <3>1. c = q
      BY <2>1, <2>9, <2>11, UpRules
    <3>2. r \in LinkRowsOf(t, p)
      <4>1. Len(q) - l = 1
        BY <2>2, <2>11
      <4>2. r \in t[p].linkRows
        BY <2>7, <4>1 DEF RowsKept
      <4> QED BY <2>1, <2>9, <3>1, <4>2 DEF LinkRowsOf
    <3> QED BY <1>2, <2>9, <3>1, <3>2 DEF FoundBelow
  <2>12. CASE Len(q) # l + 1
    <3>1. l + 1 \in 0 .. Len(q) - 1 /\ l + 2 \in 0 .. Len(q) /\ (l + 1) + 1 = l + 2
      BY <1>1, <2>1, <2>2, <2>12
    <3>2. PICK m \in 0 .. Len(q) - 1 : m = l + 1
      BY <3>1
    <3>3. PICK i \in Nat \ {0} : Up(q, m + 1) = Append(Up(q, m), i)
      BY <2>1, UpStep
    <3>4. Append(c, i) \in DOMAIN t
      <4>1. Up(q, m + 1) \in DOMAIN t
        BY <2>1, <3>1, <3>2 DEF Tree, Grown
      <4> QED BY <2>9, <3>2, <3>3, <4>1
    <3>5. ChildCount(t, c) > 0
      <4>1. ChildCount(t, c) \in Nat /\ i <= ChildCount(t, c)
        BY <3>4 DEF Tree, Grown
      <4> QED BY <4>1
    <3>6. r \in WayRowsOf(t, p)
      <4>1. r \in t[p].linkRows \cup t[p].linkAncestorRows
        BY <2>7 DEF RowsKept
      <4> QED BY <2>9, <3>5, <4>1 DEF WayRowsOf
    <3>7. q \in LinksBelowOf(t, c)
      <4>1. Len(q) > Len(c)
        BY <1>1, <2>1, <2>2, <2>10, <2>12
      <4>2. IsPrefix(c, q)
        <5>1. Len(c) <= Len(q) /\ Up(q, Len(c)) = c
          BY <1>1, <2>1, <2>9, <2>10, <4>1
        <5> QED BY <2>1, <2>10, <5>1, PrefixRules
      <4>3. \A k \in Len(c) + 1 .. Len(q) : q[k] <= Width
        BY <1>1, <2>1, <2>2, <2>10
      <4> QED BY <2>1, <4>1, <4>2, <4>3 DEF LinksBelowOf
    <3>8. q \in found[c]
      BY <2>2, <2>10, <3>7
    <3> QED BY <1>2, <2>9, <3>6, <3>8 DEF FoundBelow
  <2> QED BY <2>11, <2>12
<1> QED BY <1>3, <1>4

\* What is found below each item.
LEMMA FoundRight ==
  ASSUME NEW t, Tree(t)
  PROVE  Found(t) = LinksBelowOf(t, <<>>)
<1> DEFINE found == CHOOSE found : FoundRows(found, t)
<1>1. Found(t) = found[<<>>]
  BY DEF Found, FoundRows, FoundBelow, LinkRowsOf, WayRowsOf
<1>2. FoundRows(found, t)
  BY FoundRowsExist
<1> HIDE DEF found
<1>3. PICK depth \in Nat : \A p \in DOMAIN t : Len(p) <= depth
  BY DEF Tree, Grown
<1>4. \A p \in DOMAIN t : Len(p) \in Nat
  BY DEF Tree, Grown, Paths
<1> DEFINE S == {n \in Nat : \A p \in DOMAIN t : depth - Len(p) < n => found[p] = LinksBelowOf(t, p)}
<1>5. 0 \in S
  BY <1>3, <1>4
<1>6. ASSUME NEW n \in Nat, n \in S PROVE n + 1 \in S
  <2> SUFFICES ASSUME NEW p \in DOMAIN t, depth - Len(p) < n + 1 PROVE found[p] = LinksBelowOf(t, p)
    OBVIOUS
  <2>1. \A q \in DOMAIN t : Len(q) = Len(p) + 1 => depth - Len(q) < n
    BY <1>4
  <2>2. \A q \in DOMAIN t : Len(q) = Len(p) + 1 => found[q] = LinksBelowOf(t, q)
    BY <1>6, <2>1
  <2> QED BY <1>2, <2>2, FoundStep
<1>7. Nat \subseteq S
  <2> HIDE DEF S
  <2> QED BY <1>5, <1>6, Induction
<1>8. <<>> \in DOMAIN t /\ Len(<<>>) = 0
  BY DEF Tree, Grown
<1>9. depth + 1 \in S /\ depth - Len(<<>>) < depth + 1
  BY <1>7, <1>8
<1> QED BY <1>1, <1>8, <1>9

\* updateLinks finds the links of a block by the rows its items keep, and nothing else,
\* but for those below rows that do not fit in 16 bits (nifmodel.cpp updateLinks,
\* nifitem.h populateLinksUp).
THEOREM LinksFoundHolds == Spec => []LinksFound
<1>1. RowsInv => LinksFound
  <2> SUFFICES ASSUME RowsInv, NEW i \in Blocks
               PROVE  Found(doc[i]) = {p \in DOMAIN doc[i] : doc[i][p].kind = "link"
                                                             /\ \A k \in DOMAIN p : p[k] <= Width}
    BY DEF LinksFound
  <2>1. PICK t : t = doc[i] /\ Tree(t) /\ t[<<>>].kind \in DOMAIN Own
    <3>1. i \in 1 .. Len(doc) /\ i \in 2 .. Len(doc) - 1
      BY DEF RowsInv, Documents, Blocks
    <3> QED BY <3>1 DEF RowsInv, Documents
  <2>2. "link" \notin DOMAIN Own
    BY RowsAssumption DEF Kinds
  <2>3. <<>> \in Paths /\ Len(<<>>) = 0
    BY DEF Paths
  <2>4. ASSUME NEW p \in DOMAIN t
        PROVE  p \in LinksBelowOf(t, <<>>) <=> t[p].kind = "link" /\ \A k \in DOMAIN p : p[k] <= Width
    <3>1. p \in Paths /\ Len(p) \in Nat /\ DOMAIN p = 1 .. Len(p)
      <4>1. p \in Paths
        BY <2>1 DEF Tree, Grown
      <4> QED BY <4>1 DEF Paths
    <3>2. IsPrefix(<<>>, p)
      BY <2>3, <3>1, PrefixRules
    <3>3. t[p].kind = "link" => Len(p) > 0
      <4>1. Len(p) = 0 => p = <<>>
        BY <2>3, <3>1, SamePath
      <4> QED BY <2>1, <2>2, <3>1, <4>1
    <3> QED BY <2>3, <3>1, <3>2, <3>3 DEF LinksBelowOf
  <2>5. \A p \in LinksBelowOf(t, <<>>) : p \in DOMAIN t
    BY DEF LinksBelowOf
  <2>6. Found(t) = LinksBelowOf(t, <<>>)
    BY <2>1, FoundRight
  <2> QED BY <2>1, <2>4, <2>5, <2>6
<1> QED BY <1>1, RowsInvHolds, PTL
==============================================================================
