-------------------------- MODULE LinkGraph_proofs --------------------------
(***************************************************************************)
(* What checkLinks and the list of roots promise, for any number of blocks *)
(* and any links: the cache has no cycle, a link is dropped only where the *)
(* others lead back, and every block is below a root.                      *)
(*                                                                         *)
(* The walk is a recursive function, so the module begins with the two     *)
(* tools its proofs need: that a function defined by recursion along a     *)
(* well-founded order exists, and induction along such an order.  Both are *)
(* stated for sets, not for operators, and rest on WFMin alone: a set with *)
(* no least element is empty.                                              *)
(***************************************************************************)
EXTENDS LinkGraph, WellFoundedInduction, FiniteSetTheorems, TLAPS

------------------------------------------------------------------------------
\* Induction and recursion.

\* The order of the natural numbers, as a relation.
Less == {p \in Nat \X Nat : p[1] < p[2]}

\* The natural numbers have no endless descent.
LEMMA LessIsWellFounded == IsWellFoundedOn(Less, Nat)
  BY NatLessThanWellFounded DEF OpToRel, Less

\* A set of natural numbers that has 0 and every successor has them all.
LEMMA Induction ==
  ASSUME NEW S, 0 \in S, \A n \in Nat : n \in S => n + 1 \in S
  PROVE  Nat \subseteq S
<1> DEFINE T == Nat \ S
<1>1. SUFFICES ASSUME T # {} PROVE FALSE
  OBVIOUS
<1>2. PICK x \in T : \A y \in T : ~ (<<y, x>> \in Less)
  <2> HIDE DEF T
  <2>1. T \subseteq Nat BY DEF T
  <2> QED BY <1>1, <2>1, LessIsWellFounded, WFMin
<1>3. x \in Nat /\ x # 0 OBVIOUS
<1>4. x - 1 \in Nat /\ <<x - 1, x>> \in Less BY <1>3 DEF Less
<1> QED BY <1>2, <1>3, <1>4

\* f keeps the equation f[x] = G[f, x] at every x of rank w or less.
Solves(f, G, S, T, rank, R, w) ==
  f \in [S -> T] /\ \A x \in S : (<<rank[x], w>> \in R \/ rank[x] = w) => f[x] = G[<<f, x>>]

\* G gives the value at x of a function f from S to T, and looks at values of f
\* only at points of lower rank.
Recursive(G, S, T, rank, R) ==
  /\ G \in [[S -> T] \X S -> T]
  /\ \A f, g \in [S -> T], x \in S :
       (\A y \in S : <<rank[y], rank[x]>> \in R => f[y] = g[y]) => G[<<f, x>>] = G[<<g, x>>]

\* f is the function from S to T that G defines.
Defines(G, f, S, T) == f \in [S -> T] /\ \A x \in S : f[x] = G[<<f, x>>]

\* A function defined by recursion exists.
LEMMA Recursion ==
  ASSUME NEW W, NEW R, IsWellFoundedOn(R, W), IsTransitivelyClosedOn(R, W),
         NEW S, NEW T, T # {}, NEW rank \in [S -> W],
         NEW G, Recursive(G, S, T, rank, R)
  PROVE  \E f : Defines(G, f, S, T)
<1> DEFINE Sol(f, w) == Solves(f, G, S, T, rank, R, w)
<1> USE DEF Recursive
<1>1. ASSUME NEW f, NEW g, NEW v \in W, NEW w \in W, Sol(f, v), Sol(g, w), NEW x \in S,
             <<rank[x], v>> \in R \/ rank[x] = v, <<rank[x], w>> \in R \/ rank[x] = w
      PROVE  f[x] = g[x]
  <2> DEFINE B == {u \in W : \E y \in S : /\ rank[y] = u /\ f[y] # g[y]
                                          /\ <<u, v>> \in R \/ u = v
                                          /\ <<u, w>> \in R \/ u = w}
  <2>1. SUFFICES ASSUME B # {} PROVE FALSE
    BY <1>1
  <2>2. PICK u \in B : \A z \in B : ~ (<<z, u>> \in R)
    <3> HIDE DEF B
    <3>1. B \subseteq W BY DEF B
    <3> QED BY <2>1, <3>1, WFMin
  <2>3. PICK y \in S : /\ rank[y] = u /\ f[y] # g[y]
                       /\ <<u, v>> \in R \/ u = v
                       /\ <<u, w>> \in R \/ u = w
    BY <2>2
  <2>4. ASSUME NEW z \in S, <<rank[z], rank[y]>> \in R PROVE f[z] = g[z]
    <3>1. rank[z] \in W /\ rank[z] \notin B BY <2>2, <2>3, <2>4
    <3>2. <<rank[z], v>> \in R /\ <<rank[z], w>> \in R
      BY <2>3, <2>4, <3>1 DEF IsTransitivelyClosedOn
    <3> QED BY <3>1, <3>2
  <2>5. f \in [S -> T] /\ g \in [S -> T] BY <1>1 DEF Solves
  <2>6. G[<<f, y>>] = G[<<g, y>>] BY <2>4, <2>5
  <2>7. f[y] = G[<<f, y>>] /\ g[y] = G[<<g, y>>] BY <1>1, <2>3 DEF Solves
  <2> QED BY <2>3, <2>6, <2>7
<1>a. ASSUME NEW f, NEW g, NEW y \in S, NEW z \in S, Sol(f, rank[z]), Sol(g, rank[y]),
             <<rank[z], rank[y]>> \in R
      PROVE  f[z] = g[z]
  <2> HIDE DEF Sol
  <2>1. PICK v \in W : v = rank[z] OBVIOUS
  <2>2. PICK w \in W : w = rank[y] OBVIOUS
  <2>3. Sol(f, v) /\ Sol(g, w) BY <1>a, <2>1, <2>2
  <2>4. <<rank[z], w>> \in R /\ rank[z] = v BY <1>a, <2>1, <2>2
  <2>5. <<rank[z], v>> \in R \/ rank[z] = v BY <2>4
  <2>6. <<rank[z], w>> \in R \/ rank[z] = w BY <2>4
  <2> QED BY <1>1, <2>3, <2>5, <2>6
<1>2. ASSUME NEW w \in W PROVE \E f : Sol(f, w)
  <2> DEFINE B == {u \in W : ~ \E f : Sol(f, u)}
  <2>1. SUFFICES ASSUME B # {} PROVE FALSE
    BY <1>2
  <2>2. PICK u \in B : \A z \in B : ~ (<<z, u>> \in R)
    <3> HIDE DEF B
    <3>1. B \subseteq W BY DEF B
    <3> QED BY <2>1, <3>1, WFMin
  <2>3. PICK t \in T : TRUE OBVIOUS
  <2> DEFINE F(y) == CHOOSE f : Sol(f, rank[y])
             f1 == [y \in S |-> IF <<rank[y], u>> \in R THEN F(y)[y] ELSE t]
             f2 == [y \in S |-> IF <<rank[y], u>> \in R THEN f1[y] ELSE G[<<f1, y>>]]
  <2>4. \A y \in S : <<rank[y], u>> \in R => Sol(F(y), rank[y])
    <3> SUFFICES ASSUME NEW y \in S, <<rank[y], u>> \in R PROVE Sol(F(y), rank[y])
      OBVIOUS
    <3>1. rank[y] \in W /\ rank[y] \notin B BY <2>2
    <3>2. \E f : Sol(f, rank[y]) BY <3>1
    <3> HIDE DEF Sol
    <3> QED BY <3>2
  <2>5. \A y \in S : <<rank[y], u>> \in R => F(y) \in [S -> T] BY <2>4 DEF Solves
  <2>6. f1 \in [S -> T]
    <3> HIDE DEF F
    <3> QED BY <2>5
  <2>7. \A y \in S : G[<<f1, y>>] \in T BY <2>6
  <2>8. f2 \in [S -> T]
    <3> HIDE DEF f1
    <3> QED BY <2>6, <2>7
  <2>9. ASSUME NEW y \in S, <<rank[y], u>> \in R
        PROVE  f1[y] = G[<<f1, y>>]
    <3>1. f1[y] = F(y)[y] BY <2>9
    <3>2. F(y)[y] = G[<<F(y), y>>] BY <2>4, <2>9 DEF Solves
    <3>3. ASSUME NEW z \in S, <<rank[z], rank[y]>> \in R PROVE f1[z] = F(y)[z]
      <4>1. <<rank[z], u>> \in R BY <2>9, <3>3 DEF IsTransitivelyClosedOn
      <4>2. PICK h : h = F(z) OBVIOUS
      <4>3. PICK k : k = F(y) OBVIOUS
      <4>4. Sol(h, rank[z]) /\ Sol(k, rank[y]) BY <2>4, <2>9, <4>1, <4>2, <4>3
      <4>5. f1[z] = h[z] BY <4>1, <4>2
      <4> HIDE DEF F, Sol, f1
      <4>6. h[z] = k[z] BY <1>a, <3>3, <4>4
      <4> QED BY <4>3, <4>5, <4>6
    <3>4. F(y) \in [S -> T] BY <2>5, <2>9
    <3> HIDE DEF f1, F
    <3>5. G[<<f1, y>>] = G[<<F(y), y>>] BY <2>6, <3>3, <3>4
    <3> QED BY <3>1, <3>2, <3>5
  <2>10. ASSUME NEW y \in S, <<rank[y], u>> \in R \/ rank[y] = u
         PROVE  f2[y] = G[<<f2, y>>]
    <3>1. f2[y] = G[<<f1, y>>] BY <2>9, <2>10
    <3>2. ASSUME NEW z \in S, <<rank[z], rank[y]>> \in R PROVE f1[z] = f2[z]
      <4>1. <<rank[z], u>> \in R
        <5>1. rank[z] \in W /\ rank[y] \in W OBVIOUS
        <5> QED BY <2>10, <3>2, <5>1 DEF IsTransitivelyClosedOn
      <4> HIDE DEF f1
      <4> QED BY <4>1
    <3> HIDE DEF f1, f2
    <3>3. G[<<f1, y>>] = G[<<f2, y>>] BY <2>6, <2>8, <3>2
    <3> QED BY <3>1, <3>3
  <2>11. Sol(f2, u)
    <3> HIDE DEF f1, f2
    <3> QED BY <2>8, <2>10 DEF Solves
  <2> QED BY <2>2, <2>11
<1> DEFINE F(x) == CHOOSE f : Sol(f, rank[x])
           f == [x \in S |-> F(x)[x]]
<1>3. \A x \in S : Sol(F(x), rank[x])
  <2> HIDE DEF Sol
  <2> QED BY <1>2
<1>4. \A x \in S : F(x) \in [S -> T] BY <1>3 DEF Solves
<1>5. f \in [S -> T]
  <2> HIDE DEF F
  <2> QED BY <1>4
<1>6. ASSUME NEW x \in S PROVE f[x] = G[<<f, x>>]
  <2>1. f[x] = F(x)[x] OBVIOUS
  <2>2. F(x)[x] = G[<<F(x), x>>] BY <1>3 DEF Solves
  <2>3. ASSUME NEW z \in S, <<rank[z], rank[x]>> \in R PROVE f[z] = F(x)[z]
    <3>1. PICK h : h = F(z) OBVIOUS
    <3>2. PICK k : k = F(x) OBVIOUS
    <3>3. Sol(h, rank[z]) /\ Sol(k, rank[x]) BY <1>3, <3>1, <3>2
    <3>4. f[z] = h[z] BY <3>1
    <3> HIDE DEF F, Sol, f
    <3>5. h[z] = k[z] BY <1>a, <2>3, <3>3
    <3> QED BY <3>2, <3>4, <3>5
  <2> HIDE DEF f, F
  <2>4. G[<<f, x>>] = G[<<F(x), x>>] BY <1>4, <1>5, <2>3
  <2> QED BY <2>1, <2>2, <2>4
<1> QED
  <2> HIDE DEF f
  <2> QED BY <1>5, <1>6 DEF Defines

\* Steps taken one after the other.
Steps(f, n, first, step) ==
  f = [i \in 0 .. n |-> IF i = 0 THEN first ELSE step[<<i, f[i - 1]>>]]

LEMMA StepsExist ==
  ASSUME NEW n \in Nat, NEW T, NEW first \in T, NEW step \in [(1 .. n) \X T -> T]
  PROVE  \E f \in [0 .. n -> T] : Steps(f, n, first, step)
<1> DEFINE S == 0 .. n
           rank == [i \in S |-> i]
           G == [p \in [S -> T] \X S |-> IF p[2] = 0 THEN first ELSE step[<<p[2], p[1][p[2] - 1]>>]]
<1>1. rank \in [S -> Nat] /\ T # {}
  OBVIOUS
<1>2. G \in [[S -> T] \X S -> T]
  OBVIOUS
<1>3. ASSUME NEW u \in [S -> T], NEW v \in [S -> T], NEW i \in S,
             \A j \in S : <<rank[j], rank[i]>> \in Less => u[j] = v[j]
      PROVE  G[<<u, i>>] = G[<<v, i>>]
  <2>1. CASE i = 0
    BY <2>1
  <2>2. CASE i # 0
    <3>1. i - 1 \in S /\ <<rank[i - 1], rank[i]>> \in Less
      BY <2>2 DEF Less
    <3> QED BY <1>3, <2>2, <3>1
  <2> QED BY <2>1, <2>2
<1>4. \E f : Defines(G, f, S, T)
  <2> HIDE DEF rank, G, S
  <2>1. Recursive(G, S, T, rank, Less)
    BY <1>2, <1>3 DEF Recursive
  <2>2. IsTransitivelyClosedOn(Less, Nat)
    BY DEF Less, IsTransitivelyClosedOn
  <2> QED BY <1>1, <2>1, <2>2, LessIsWellFounded, Recursion
<1>5. PICK f \in [S -> T] : \A i \in S : f[i] = G[<<f, i>>]
  BY <1>4 DEF Defines
<1>6. \A i \in S : f[i] = IF i = 0 THEN first ELSE step[<<i, f[i - 1]>>]
  BY <1>5
<1> QED BY <1>5, <1>6 DEF Steps

\* What holds at 0 and is kept by every step holds at n.
LEMMA StepByStep ==
  ASSUME NEW n \in Nat, NEW S, 0 \in S, \A i \in 1 .. n : i - 1 \in S => i \in S
  PROVE  n \in S
<1> DEFINE U == {i \in Nat : i \in S \/ i > n}
<1>1. 0 \in U
  OBVIOUS
<1>2. ASSUME NEW i \in Nat, i \in U PROVE i + 1 \in U
  <2>1. CASE i + 1 > n
    BY <2>1
  <2>2. CASE ~ (i + 1 > n)
    <3>1. i + 1 \in 1 .. n /\ i \in S /\ (i + 1) - 1 = i
      BY <1>2, <2>2
    <3> QED BY <3>1
  <2> QED BY <2>1, <2>2
<1>3. Nat \subseteq U
  <2> HIDE DEF U
  <2> QED BY <1>1, <1>2, Induction
<1> QED BY <1>3

\* Pairs of naturals, by the first part and then by the second.
Lexical == LexPairOrdering(Less, Less, Nat, Nat)

\* The order of pairs has no endless descent, and is transitive.
LEMMA LexicalIsWellFounded ==
  /\ IsWellFoundedOn(Lexical, Nat \X Nat)
  /\ IsTransitivelyClosedOn(Lexical, Nat \X Nat)
<1>1. IsWellFoundedOn(Lexical, Nat \X Nat)
  BY LessIsWellFounded, WFLexPairOrdering DEF Lexical
<1>2. IsTransitivelyClosedOn(Lexical, Nat \X Nat)
  BY DEF Lexical, LexPairOrdering, Less, IsTransitivelyClosedOn
<1> QED BY <1>1, <1>2

------------------------------------------------------------------------------
\* Folds over lists.

\* The largest of some numbers 1 .. n is one of them.
LEMMA MaxOf ==
  ASSUME NEW n \in Nat, NEW s \in SUBSET (1 .. n), s # {}
  PROVE  Max(s) \in s /\ \A i \in s : Max(s) >= i
<1> DEFINE B == {n - i : i \in s}
<1>1. PICK x \in B : \A y \in B : ~ (<<y, x>> \in Less)
  <2> HIDE DEF B
  <2>1. B \subseteq Nat /\ B # {} BY DEF B
  <2> QED BY <2>1, LessIsWellFounded, WFMin
<1>2. PICK i \in s : x = n - i
  OBVIOUS
<1>3. \A j \in s : i >= j
  <2> SUFFICES ASSUME NEW j \in s, ~ (i >= j) PROVE FALSE
    OBVIOUS
  <2>1. n - j \in B /\ <<n - j, n - i>> \in Less BY DEF Less
  <2> QED BY <1>1, <1>2, <2>1
<1> QED BY <1>3 DEF Max

\* What a fold takes from 1 .. i is what it takes from i and from 1 .. i - 1.
LEMMA MaxOfInterval ==
  ASSUME NEW i \in Nat \ {0}
  PROVE  Max(1 .. i) = i /\ (1 .. i) \ {Max(1 .. i)} = 1 .. i - 1
<1>1. i \in Nat /\ 1 .. i \in SUBSET (1 .. i) /\ 1 .. i # {}
  OBVIOUS
<1>2. Max(1 .. i) \in 1 .. i /\ \A j \in 1 .. i : Max(1 .. i) >= j
  BY <1>1, MaxOf
<1> QED BY <1>2

\* A fold over 1 .. n that starts from e and takes a number with op.
IsFold(e, op, T, n) == e \in T /\ op \in [T \X (1 .. n) -> T]

\* The function such a fold is made of: its value at a set of numbers is what the
\* fold has taken from them.
Folding(it, e, op, T, n) ==
  /\ it \in [SUBSET (1 .. n) -> T]
  /\ \A s \in SUBSET (1 .. n) :
       it[s] = IF s = {} THEN e ELSE op[<<it[s \ {Max(s)}], Max(s)>>]

\* That function exists.
LEMMA FoldExists ==
  ASSUME NEW n \in Nat, NEW T, NEW e, NEW op, IsFold(e, op, T, n)
  PROVE  \E it : Folding(it, e, op, T, n)
<1> DEFINE S == SUBSET (1 .. n)
           rank == [s \in S |-> Cardinality(s)]
           G == [p \in [S -> T] \X S |->
                   IF p[2] = {} THEN e ELSE op[<<p[1][p[2] \ {Max(p[2])}], Max(p[2])>>]]
<1> USE DEF IsFold
<1>1. IsTransitivelyClosedOn(Less, Nat)
  BY DEF Less, IsTransitivelyClosedOn
<1>2. \A s \in S : IsFiniteSet(s) /\ Cardinality(s) \in Nat
  <2>1. IsFiniteSet(1 .. n) BY FS_Interval
  <2> QED BY <2>1, FS_Subset, FS_CardinalityType
<1>3. rank \in [S -> Nat]
  BY <1>2
<1>4. \A s \in S : s # {} => /\ Max(s) \in 1 .. n
                             /\ s \ {Max(s)} \in S
                             /\ <<rank[s \ {Max(s)}], rank[s]>> \in Less
  <2> SUFFICES ASSUME NEW s \in S, s # {}
               PROVE  /\ Max(s) \in 1 .. n
                      /\ s \ {Max(s)} \in S
                      /\ <<rank[s \ {Max(s)}], rank[s]>> \in Less
    OBVIOUS
  <2>1. Max(s) \in s BY MaxOf
  <2>2. Cardinality(s \ {Max(s)}) = Cardinality(s) - 1
    BY <1>2, <2>1, FS_RemoveElement
  <2>3. s \ {Max(s)} \in S BY <2>1
  <2>4. Cardinality(s \ {Max(s)}) \in Nat /\ Cardinality(s) \in Nat BY <1>2, <2>3
  <2>5. rank[s \ {Max(s)}] = Cardinality(s \ {Max(s)}) /\ rank[s] = Cardinality(s)
    BY <2>3
  <2>6. <<Cardinality(s \ {Max(s)}), Cardinality(s)>> \in Less
    BY <2>2, <2>4 DEF Less
  <2> QED BY <2>1, <2>3, <2>5, <2>6
<1>5. G \in [[S -> T] \X S -> T]
  <2> SUFFICES ASSUME NEW f \in [S -> T], NEW s \in S
               PROVE  (IF s = {} THEN e ELSE op[<<f[s \ {Max(s)}], Max(s)>>]) \in T
    OBVIOUS
  <2>1. CASE s = {} BY <2>1
  <2>2. CASE s # {}
    <3>1. f[s \ {Max(s)}] \in T /\ Max(s) \in 1 .. n BY <1>4, <2>2
    <3> QED BY <2>2, <3>1
  <2> QED BY <2>1, <2>2
<1>6. \A f, g \in [S -> T], s \in S :
        (\A y \in S : <<rank[y], rank[s]>> \in Less => f[y] = g[y]) => G[<<f, s>>] = G[<<g, s>>]
  <2> SUFFICES ASSUME NEW f \in [S -> T], NEW g \in [S -> T], NEW s \in S,
                      \A y \in S : <<rank[y], rank[s]>> \in Less => f[y] = g[y]
               PROVE  G[<<f, s>>] = G[<<g, s>>]
    OBVIOUS
  <2>1. CASE s = {} BY <2>1
  <2>2. CASE s # {}
    <3>1. f[s \ {Max(s)}] = g[s \ {Max(s)}]
      <4> HIDE DEF rank, S
      <4> QED BY <1>4, <2>2
    <3> QED BY <2>2, <3>1
  <2> QED BY <2>1, <2>2
<1>7. \E it : Defines(G, it, S, T)
  <2>0. Recursive(G, S, T, rank, Less)
    <3> HIDE DEF rank, G, S
    <3> QED BY <1>5, <1>6 DEF Recursive
  <2> HIDE DEF rank, G, S
  <2>1. T # {} OBVIOUS
  <2> QED BY <1>1, <1>3, <2>0, <2>1, LessIsWellFounded, Recursion
<1>8. PICK it \in [S -> T] : \A s \in S : it[s] = G[<<it, s>>]
  BY <1>7 DEF Defines
<1>9. \A s \in S : it[s] = IF s = {} THEN e ELSE op[<<it[s \ {Max(s)}], Max(s)>>]
  BY <1>8
<1> QED BY <1>9 DEF Folding

\* Append adds one member.
LEMMA MembersOfAppend ==
  ASSUME NEW T, NEW list \in Seq(T), NEW l \in T
  PROVE  ToSet(Append(list, l)) = ToSet(list) \cup {l}
<1> DEFINE n == Len(list)
           more == Append(list, l)
<1>1. /\ n \in Nat /\ DOMAIN list = 1 .. n /\ DOMAIN more = 1 .. n + 1
      /\ \A i \in 1 .. n : more[i] = list[i]
      /\ more[n + 1] = l
  OBVIOUS
<1>2. {more[i] : i \in 1 .. n + 1} = {list[i] : i \in 1 .. n} \cup {l}
  <2> HIDE DEF n, more
  <2>1. 1 .. n + 1 = (1 .. n) \cup {n + 1} BY <1>1
  <2> QED BY <1>1, <2>1
<1> QED BY <1>1, <1>2 DEF ToSet

\* What is kept of a list is a list of the same kind, with the kept members.
LEMMA KeepOnlyMembers ==
  ASSUME NEW T, NEW list \in Seq(T), NEW S
  PROVE  /\ KeepOnly(list, S) \in Seq(T)
         /\ ToSet(KeepOnly(list, S)) = ToSet(list) \cap S
<1> DEFINE N == DOMAIN list
           part(it) == [s \in SUBSET N |->
                          IF s = {} THEN <<>>
                          ELSE IF list[Max(s)] \in S THEN Append(it[s \ {Max(s)}], list[Max(s)])
                          ELSE it[s \ {Max(s)}]]
           kept == CHOOSE it : it = part(it)
           op == [p \in Seq(T) \X (1 .. Len(list)) |->
                    IF list[p[2]] \in S THEN Append(p[1], list[p[2]]) ELSE p[1]]
<1>1. KeepOnly(list, S) = kept[N]
  BY DEF KeepOnly, FoldLeft, MapThenFoldSet
<1>2. N = 1 .. Len(list) /\ Len(list) \in Nat
  OBVIOUS
<1>3. kept = part(kept)
  <2>1. op \in [Seq(T) \X (1 .. Len(list)) -> Seq(T)]
    OBVIOUS
  <2>2. <<>> \in Seq(T)
    OBVIOUS
  <2>3. PICK it : Folding(it, <<>>, op, Seq(T), Len(list))
    <3>1. IsFold(<<>>, op, Seq(T), Len(list)) BY <2>1, <2>2 DEF IsFold
    <3> HIDE DEF op
    <3> QED BY <1>2, <3>1, FoldExists
  <2>4. it = part(it)
    <3>0. it \in [SUBSET N -> Seq(T)] BY <1>2, <2>3 DEF Folding
    <3> SUFFICES ASSUME NEW s \in SUBSET N PROVE it[s] = part(it)[s]
      BY <3>0
    <3>1. CASE s = {} BY <1>2, <2>3, <3>1 DEF Folding
    <3>2. CASE s # {}
      <4>1. Max(s) \in N BY <1>2, <3>2, MaxOf
      <4>2. it[s \ {Max(s)}] \in Seq(T) BY <1>2, <2>3 DEF Folding
      <4>3. it[s] = op[<<it[s \ {Max(s)}], Max(s)>>] BY <1>2, <2>3, <3>2 DEF Folding
      <4> QED BY <1>2, <3>2, <4>1, <4>2, <4>3
    <3> QED BY <3>1, <3>2
  <2> HIDE DEF part
  <2> QED BY <2>4
<1> DEFINE Right(i) == /\ kept[1 .. i] \in Seq(T)
                       /\ ToSet(kept[1 .. i]) = {list[j] : j \in 1 .. i} \cap S
           Done == {i \in Nat : i <= Len(list) => Right(i)}
<1>4. \A s \in SUBSET N :
        kept[s] = IF s = {} THEN <<>>
                  ELSE IF list[Max(s)] \in S THEN Append(kept[s \ {Max(s)}], list[Max(s)])
                  ELSE kept[s \ {Max(s)}]
  <2> HIDE DEF kept
  <2> QED BY <1>3
<1> HIDE DEF kept
<1>5. 0 \in Done
  <2>1. 1 .. 0 = {} /\ 1 .. 0 \in SUBSET N OBVIOUS
  <2>2. kept[1 .. 0] = <<>> BY <1>4, <2>1
  <2>3. ToSet(<<>>) = {} BY DEF ToSet
  <2>4. {list[j] : j \in 1 .. 0} = {} BY <2>1
  <2>5. Right(0) BY <2>2, <2>3, <2>4
  <2> QED BY <2>5
<1>6. ASSUME NEW i \in Nat, i \in Done PROVE i + 1 \in Done
  <2> SUFFICES ASSUME i + 1 <= Len(list) PROVE Right(i + 1)
    OBVIOUS
  <2>1. /\ 1 .. i + 1 \in SUBSET N /\ 1 .. i + 1 # {}
        /\ Max(1 .. i + 1) = i + 1 /\ (1 .. i + 1) \ {Max(1 .. i + 1)} = 1 .. i
    BY <1>2, MaxOfInterval
  <2>2. Right(i)
    BY <1>6
  <2>3. list[i + 1] \in T
    BY <1>2
  <2>4. kept[1 .. i + 1] = IF list[i + 1] \in S THEN Append(kept[1 .. i], list[i + 1])
                           ELSE kept[1 .. i]
    <3>1. kept[1 .. i + 1] = IF list[Max(1 .. i + 1)] \in S
                             THEN Append(kept[(1 .. i + 1) \ {Max(1 .. i + 1)}], list[Max(1 .. i + 1)])
                             ELSE kept[(1 .. i + 1) \ {Max(1 .. i + 1)}]
      BY <1>4, <2>1
    <3> QED BY <2>1, <3>1
  <2>5. {list[j] : j \in 1 .. i + 1} = {list[j] : j \in 1 .. i} \cup {list[i + 1]}
    OBVIOUS
  <2>6. \A l \in T : ToSet(Append(kept[1 .. i], l)) = ToSet(kept[1 .. i]) \cup {l}
    BY <2>2, MembersOfAppend
  <2> QED BY <2>2, <2>3, <2>4, <2>5, <2>6
<1>7. Right(Len(list))
  <2> HIDE DEF Right
  <2>1. Nat \subseteq Done BY <1>5, <1>6, Induction
  <2> QED BY <1>2, <2>1
<1> QED BY <1>1, <1>2, <1>7 DEF ToSet

\* The list of a block is of natural numbers: the link values that are not null.
LEMMA CollectLinksMembers ==
  ASSUME NEW list \in Seq(Int)
  PROVE  /\ CollectLinks(list) \in Seq(Nat)
         /\ ToSet(CollectLinks(list)) = {l \in ToSet(list) : l >= 0}
<1> DEFINE N == DOMAIN list
           part(it) == [s \in SUBSET N |->
                          IF s = {} THEN <<>> ELSE AppendNew(it[s \ {Max(s)}], list[Max(s)])]
           kept == CHOOSE it : it = part(it)
           op == [p \in Seq(Nat) \X (1 .. Len(list)) |-> AppendNew(p[1], list[p[2]])]
<1>1. CollectLinks(list) = kept[N]
  BY DEF CollectLinks, FoldLeft, MapThenFoldSet
<1>2. N = 1 .. Len(list) /\ Len(list) \in Nat
  OBVIOUS
<1>3. \A s \in Seq(Nat), l \in Int :
        /\ AppendNew(s, l) \in Seq(Nat)
        /\ ToSet(AppendNew(s, l)) = ToSet(s) \cup {x \in {l} : x >= 0}
  <2> SUFFICES ASSUME NEW s \in Seq(Nat), NEW l \in Int
               PROVE  /\ AppendNew(s, l) \in Seq(Nat)
                      /\ ToSet(AppendNew(s, l)) = ToSet(s) \cup {x \in {l} : x >= 0}
    OBVIOUS
  <2>1. CASE l < 0
    BY <2>1 DEF AppendNew
  <2>2. CASE l >= 0 /\ Contains(s, l)
    <3>1. l \in ToSet(s) BY <2>2 DEF Contains, ToSet
    <3> QED BY <2>2, <3>1 DEF AppendNew
  <2>3. CASE l >= 0 /\ ~ Contains(s, l)
    <3>1. l \in Nat /\ AppendNew(s, l) = Append(s, l) BY <2>3 DEF AppendNew
    <3> QED BY <2>3, <3>1, MembersOfAppend
  <2> QED BY <2>1, <2>2, <2>3
<1>4. kept = part(kept)
  <2>1. op \in [Seq(Nat) \X (1 .. Len(list)) -> Seq(Nat)]
    BY <1>2, <1>3
  <2>2. PICK it : Folding(it, <<>>, op, Seq(Nat), Len(list))
    <3>1. IsFold(<<>>, op, Seq(Nat), Len(list)) BY <2>1 DEF IsFold
    <3> HIDE DEF op
    <3> QED BY <1>2, <3>1, FoldExists
  <2>3. it = part(it)
    <3>1. it \in [SUBSET N -> Seq(Nat)] BY <1>2, <2>2 DEF Folding
    <3> SUFFICES ASSUME NEW s \in SUBSET N PROVE it[s] = part(it)[s]
      BY <3>1
    <3>2. CASE s = {} BY <1>2, <2>2, <3>2 DEF Folding
    <3>3. CASE s # {}
      <4>1. Max(s) \in N BY <1>2, <3>3, MaxOf
      <4>2. it[s \ {Max(s)}] \in Seq(Nat) BY <3>1
      <4>3. it[s] = op[<<it[s \ {Max(s)}], Max(s)>>] BY <1>2, <2>2, <3>3 DEF Folding
      <4> QED BY <1>2, <3>3, <4>1, <4>2, <4>3
    <3> QED BY <3>2, <3>3
  <2> HIDE DEF part
  <2> QED BY <2>3
<1> DEFINE Right(i) == /\ kept[1 .. i] \in Seq(Nat)
                       /\ ToSet(kept[1 .. i]) = {l \in {list[j] : j \in 1 .. i} : l >= 0}
           Done == {i \in Nat : i <= Len(list) => Right(i)}
<1>5. \A s \in SUBSET N :
        kept[s] = IF s = {} THEN <<>> ELSE AppendNew(kept[s \ {Max(s)}], list[Max(s)])
  <2> HIDE DEF kept
  <2> QED BY <1>4
<1> HIDE DEF kept
<1>6. 0 \in Done
  <2>1. 1 .. 0 = {} /\ 1 .. 0 \in SUBSET N OBVIOUS
  <2>2. kept[1 .. 0] = <<>> BY <1>5, <2>1
  <2>3. ToSet(<<>>) = {} BY DEF ToSet
  <2>4. {list[j] : j \in 1 .. 0} = {} BY <2>1
  <2>5. Right(0) BY <2>2, <2>3, <2>4
  <2> QED BY <2>5
<1>7. ASSUME NEW i \in Nat, i \in Done PROVE i + 1 \in Done
  <2> SUFFICES ASSUME i + 1 <= Len(list) PROVE Right(i + 1)
    OBVIOUS
  <2>1. /\ 1 .. i + 1 \in SUBSET N /\ 1 .. i + 1 # {}
        /\ Max(1 .. i + 1) = i + 1 /\ (1 .. i + 1) \ {Max(1 .. i + 1)} = 1 .. i
    BY <1>2, MaxOfInterval
  <2>2. Right(i)
    BY <1>7
  <2>3. list[i + 1] \in Int
    BY <1>2
  <2>4. kept[1 .. i + 1] = AppendNew(kept[1 .. i], list[i + 1])
    <3>1. kept[1 .. i + 1] = AppendNew(kept[(1 .. i + 1) \ {Max(1 .. i + 1)}], list[Max(1 .. i + 1)])
      BY <1>5, <2>1
    <3> QED BY <2>1, <3>1
  <2>5. {list[j] : j \in 1 .. i + 1} = {list[j] : j \in 1 .. i} \cup {list[i + 1]}
    OBVIOUS
  <2>6. /\ kept[1 .. i + 1] \in Seq(Nat)
        /\ ToSet(kept[1 .. i + 1]) = ToSet(kept[1 .. i]) \cup {x \in {list[i + 1]} : x >= 0}
    <3>1. PICK s \in Seq(Nat) : s = kept[1 .. i] BY <2>2
    <3>2. PICK l \in Int : l = list[i + 1] BY <2>3
    <3>3. AppendNew(s, l) \in Seq(Nat) /\ ToSet(AppendNew(s, l)) = ToSet(s) \cup {x \in {l} : x >= 0}
      BY <1>3
    <3> QED BY <2>4, <3>1, <3>2, <3>3
  <2> QED BY <2>2, <2>5, <2>6
<1>8. Right(Len(list))
  <2> HIDE DEF Right
  <2>1. Nat \subseteq Done BY <1>6, <1>7, Induction
  <2> QED BY <1>2, <2>1
<1> QED BY <1>1, <1>2, <1>8 DEF ToSet

------------------------------------------------------------------------------
\* The walk.

\* A link cache over the blocks D.
Caches(D) == [D -> Seq(Nat)]

\* What the loop of a frame does with its next child.
Turn(f, walk) == IF Head(f.rest) \in f.parents THEN Unlink(f.links, f.block, Head(f.rest))
                 ELSE walk[Call(f, Head(f.rest))]

\* Frames in the order in which a walk meets them, the last first: more blocks on the
\* path, or fewer left in the list.
FrameRank(D) == [f \in Frames(D) |-> <<Cardinality(D \ f.parents), Len(f.rest)>>]

\* The list of a link cache, for any number.
LEMMA LinksOfType ==
  ASSUME NEW D, NEW cl \in Caches(D), NEW b
  PROVE  LinksOf(cl, b) \in Seq(Nat) /\ (b \notin D => LinksOf(cl, b) = <<>>)
  BY DEF LinksOf, Caches

\* Unlink takes one number out of one list.
LEMMA UnlinkEffect ==
  ASSUME NEW D, NEW cl \in Caches(D), NEW b, NEW c
  PROVE  /\ Unlink(cl, b, c) \in Caches(D)
         /\ \A x \in D : x # b => Unlink(cl, b, c)[x] = cl[x]
         /\ b \in D => ToSet(Unlink(cl, b, c)[b]) = ToSet(cl[b]) \ {c}
<1>1. b \in D => /\ KeepOnly(cl[b], ToSet(cl[b]) \ {c}) \in Seq(Nat)
                 /\ ToSet(KeepOnly(cl[b], ToSet(cl[b]) \ {c})) = ToSet(cl[b]) \ {c}
  BY KeepOnlyMembers DEF Caches
<1> QED BY <1>1 DEF Unlink, Caches

\* The ranks are pairs of naturals.
LEMMA FrameRankType ==
  ASSUME NEW D, IsFiniteSet(D)
  PROVE  FrameRank(D) \in [Frames(D) -> Nat \X Nat]
<1> SUFFICES ASSUME NEW f \in Frames(D)
             PROVE  <<Cardinality(D \ f.parents), Len(f.rest)>> \in Nat \X Nat
  BY DEF FrameRank
<1>1. Cardinality(D \ f.parents) \in Nat BY FS_Subset, FS_CardinalityType
<1>2. Len(f.rest) \in Nat BY DEF Frames
<1> QED BY <1>1, <1>2

\* When one pair comes before another.
LEMMA LexicalOf ==
  ASSUME NEW a \in Nat, NEW b \in Nat, NEW c \in Nat, NEW d \in Nat, a < c \/ (a = c /\ b < d)
  PROVE  <<<<a, b>>, <<c, d>>>> \in Lexical
<1>1. <<a, c>> \in Less \/ (a = c /\ <<b, d>> \in Less)
  BY DEF Less
<1> QED BY <1>1 DEF Lexical, LexPairOrdering

\* The frames of a turn are frames, and come later.
LEMMA LaterFrames ==
  ASSUME NEW D, IsFiniteSet(D), NEW f \in Frames(D), f.rest # <<>>, NEW cl \in Caches(D)
  PROVE  /\ Head(f.rest) \in Nat
         /\ NextTurn(f, cl) \in Frames(D)
         /\ <<FrameRank(D)[NextTurn(f, cl)], FrameRank(D)[f]>> \in Lexical
         /\ Call(f, Head(f.rest)) \in Frames(D)
         /\ Head(f.rest) \notin f.parents =>
              <<FrameRank(D)[Call(f, Head(f.rest))], FrameRank(D)[f]>> \in Lexical
<1> DEFINE c == Head(f.rest)
           n == NextTurn(f, cl)
           g == Call(f, c)
<1>1. /\ f.rest \in Seq(Nat) /\ f.parents \in SUBSET Nat /\ f.links \in Caches(D)
      /\ f.block \in Nat \cup {-1}
  BY DEF Frames, Caches
<1>2. /\ c \in Nat /\ Tail(f.rest) \in Seq(Nat) /\ Len(f.rest) \in Nat /\ Len(f.rest) # 0
      /\ Len(Tail(f.rest)) = Len(f.rest) - 1
  BY <1>1
<1>3. n \in Frames(D) /\ n.parents = f.parents /\ n.rest = Tail(f.rest)
  BY <1>1, <1>2 DEF NextTurn, Frames, Caches
<1>4. LinksOf(f.links, c) \in Seq(Nat) /\ (c \notin D => LinksOf(f.links, c) = <<>>)
  BY <1>1, LinksOfType
<1>5. g \in Frames(D) /\ g.parents = f.parents \cup {c} /\ g.rest = LinksOf(f.links, c)
  BY <1>1, <1>2, <1>4 DEF Call, Frames, Caches
<1>6. \A P : IsFiniteSet(D \ P) /\ Cardinality(D \ P) \in Nat
  BY FS_Subset, FS_CardinalityType
<1>7. <<FrameRank(D)[n], FrameRank(D)[f]>> \in Lexical
  <2>1. FrameRank(D)[n] = <<Cardinality(D \ f.parents), Len(f.rest) - 1>>
    BY <1>2, <1>3 DEF FrameRank
  <2>2. FrameRank(D)[f] = <<Cardinality(D \ f.parents), Len(f.rest)>>
    BY DEF FrameRank
  <2>3. Len(f.rest) - 1 \in Nat /\ Len(f.rest) - 1 < Len(f.rest)
    BY <1>2
  <2>4. Cardinality(D \ f.parents) \in Nat
    BY <1>6
  <2> QED BY <1>2, <2>1, <2>2, <2>3, <2>4, LexicalOf
<1>8. ASSUME c \notin f.parents PROVE <<FrameRank(D)[g], FrameRank(D)[f]>> \in Lexical
  <2>1. FrameRank(D)[g] = <<Cardinality(D \ (f.parents \cup {c})), Len(LinksOf(f.links, c))>>
    BY <1>5 DEF FrameRank
  <2>2. FrameRank(D)[f] = <<Cardinality(D \ f.parents), Len(f.rest)>>
    BY DEF FrameRank
  <2>3. Cardinality(D \ f.parents) \in Nat /\ Cardinality(D \ (f.parents \cup {c})) \in Nat
    BY <1>6
  <2>4. Len(LinksOf(f.links, c)) \in Nat
    BY <1>4
  <2>5. CASE c \in D
    <3>1. D \ (f.parents \cup {c}) = (D \ f.parents) \ {c} /\ c \in D \ f.parents
      BY <1>8, <2>5
    <3>2. Cardinality(D \ (f.parents \cup {c})) = Cardinality(D \ f.parents) - 1
      BY <1>6, <3>1, FS_RemoveElement
    <3>3. Cardinality(D \ (f.parents \cup {c})) < Cardinality(D \ f.parents)
      BY <2>3, <3>2
    <3> QED BY <1>2, <2>1, <2>2, <2>3, <2>4, <3>3, LexicalOf
  <2>6. CASE c \notin D
    <3>1. D \ (f.parents \cup {c}) = D \ f.parents
      BY <2>6
    <3>2. Len(LinksOf(f.links, c)) = 0
      BY <1>4, <2>6
    <3>3. Len(LinksOf(f.links, c)) < Len(f.rest)
      BY <1>2, <3>2
    <3> QED BY <1>2, <2>1, <2>2, <2>3, <2>4, <3>1, <3>3, LexicalOf
  <2> QED BY <2>5, <2>6
<1> QED BY <1>2, <1>3, <1>5, <1>7, <1>8

\* A set that has every frame whose later frames it has, has them all.
LEMMA FrameInduction ==
  ASSUME NEW D, IsFiniteSet(D), NEW Q,
         \A f \in Frames(D) :
           \/ f.rest = <<>>
           \/ /\ \A cl \in Caches(D) : NextTurn(f, cl) \in Q
              /\ Head(f.rest) \notin f.parents => Call(f, Head(f.rest)) \in Q
           => f \in Q
  PROVE  Frames(D) \subseteq Q
<1> DEFINE B == {FrameRank(D)[f] : f \in Frames(D) \ Q}
<1>1. SUFFICES ASSUME Frames(D) \ Q # {} PROVE FALSE
  OBVIOUS
<1>2. PICK r \in B : \A y \in B : ~ (<<y, r>> \in Lexical)
  <2>1. B \subseteq Nat \X Nat BY FrameRankType
  <2>2. B # {} BY <1>1
  <2> HIDE DEF B
  <2> QED BY <2>1, <2>2, LexicalIsWellFounded, WFMin
<1>3. PICK f \in Frames(D) \ Q : r = FrameRank(D)[f]
  OBVIOUS
<1>4. \A g \in Frames(D) : <<FrameRank(D)[g], FrameRank(D)[f]>> \in Lexical => g \in Q
  BY <1>2, <1>3
<1>5. f.rest # <<>>
  OBVIOUS
<1>6. f.links \in Caches(D)
  BY DEF Frames, Caches
<1>7. \A cl \in Caches(D) : NextTurn(f, cl) \in Q
  BY <1>4, <1>5, LaterFrames
<1>8. Head(f.rest) \notin f.parents => Call(f, Head(f.rest)) \in Q
  BY <1>4, <1>5, <1>6, LaterFrames
<1> QED BY <1>7, <1>8

\* The walk of a frame, from the walks of the frames that come after it.
LEMMA WalkEquation ==
  ASSUME NEW D, IsFiniteSet(D)
  PROVE  /\ Walk(D) \in [Frames(D) -> Caches(D)]
         /\ \A f \in Frames(D) :
              Walk(D)[f] = IF f.rest = <<>> THEN f.links
                           ELSE Walk(D)[NextTurn(f, Turn(f, Walk(D)))]
<1> DEFINE F == Frames(D)
           T == Caches(D)
           step(walk, f) == IF f.rest = <<>> THEN f.links
                            ELSE walk[NextTurn(f, Turn(f, walk))]
           part(walk) == [f \in F |-> step(walk, f)]
           G == [p \in [F -> T] \X F |-> step(p[1], p[2])]
<1>1. FrameRank(D) \in [F -> Nat \X Nat]
  BY FrameRankType
<1>2. ASSUME NEW walk \in [F -> T], NEW f \in F, f.rest # <<>>
      PROVE  Turn(f, walk) \in T
  <2>1. Call(f, Head(f.rest)) \in F
    <3>1. f.links \in T BY DEF Frames, Caches
    <3> QED BY <1>2, <3>1, LaterFrames
  <2>2. Unlink(f.links, f.block, Head(f.rest)) \in T
    <3>1. f.links \in T BY DEF Frames, Caches
    <3> QED BY <3>1, UnlinkEffect
  <2> QED BY <2>1, <2>2 DEF Turn
<1>3. G \in [[F -> T] \X F -> T]
  <2> SUFFICES ASSUME NEW walk \in [F -> T], NEW f \in F PROVE step(walk, f) \in T
    OBVIOUS
  <2>1. CASE f.rest = <<>> BY <2>1 DEF Frames, Caches
  <2>2. CASE f.rest # <<>>
    <3>1. NextTurn(f, Turn(f, walk)) \in F BY <1>2, <2>2, LaterFrames
    <3> QED BY <2>2, <3>1
  <2> QED BY <2>1, <2>2
<1>4. \A u, v \in [F -> T], f \in F :
        (\A y \in F : <<FrameRank(D)[y], FrameRank(D)[f]>> \in Lexical => u[y] = v[y])
        => G[<<u, f>>] = G[<<v, f>>]
  <2> SUFFICES ASSUME NEW u \in [F -> T], NEW v \in [F -> T], NEW f \in F,
                      \A y \in F : <<FrameRank(D)[y], FrameRank(D)[f]>> \in Lexical => u[y] = v[y]
               PROVE  step(u, f) = step(v, f)
    OBVIOUS
  <2>1. CASE f.rest = <<>> BY <2>1
  <2>2. CASE f.rest # <<>>
    <3>1. f.links \in T BY DEF Frames, Caches
    <3>2. Turn(f, u) = Turn(f, v)
      BY <2>2, <3>1, LaterFrames DEF Turn
    <3>3. Turn(f, u) \in T
      BY <1>2, <2>2
    <3>4. u[NextTurn(f, Turn(f, u))] = v[NextTurn(f, Turn(f, u))]
      BY <2>2, <3>3, LaterFrames
    <3> QED BY <2>2, <3>2, <3>4
  <2> QED BY <2>1, <2>2
<1>5. \E walk : Defines(G, walk, F, T)
  <2>1. T # {}
    <3>1. [x \in D |-> <<>>] \in T BY DEF Caches
    <3> QED BY <3>1
  <2> HIDE DEF G, F, T
  <2>2. Recursive(G, F, T, FrameRank(D), Lexical)
    BY <1>3, <1>4 DEF Recursive
  <2>3. PICK W : W = Nat \X Nat
    OBVIOUS
  <2>4. /\ IsWellFoundedOn(Lexical, W) /\ IsTransitivelyClosedOn(Lexical, W)
        /\ FrameRank(D) \in [F -> W]
    BY <1>1, <2>3, LexicalIsWellFounded
  <2> QED BY <2>1, <2>2, <2>4, Recursion
<1>6. PICK walk \in [F -> T] : \A f \in F : walk[f] = G[<<walk, f>>]
  BY <1>5 DEF Defines
<1>7. \A f \in F : walk[f] = step(walk, f)
  BY <1>6
<1>8. walk = part(walk)
  <2> HIDE DEF step, F, T
  <2> QED BY <1>7
<1> DEFINE w == CHOOSE walk1 : walk1 = part(walk1)
<1>9. Walk(D) = w
  BY DEF Walk, Turn
<1>10. w = part(w)
  <2> HIDE DEF part
  <2> QED BY <1>8
<1> HIDE DEF w
<1>11. \A f \in F : w[f] = step(w, f)
  BY <1>10
<1>12. F \subseteq {f \in F : w[f] \in T}
  <2> DEFINE Q == {f \in F : w[f] \in T}
  <2>1. ASSUME NEW f \in F,
               \/ f.rest = <<>>
               \/ /\ \A cl \in T : NextTurn(f, cl) \in Q
                  /\ Head(f.rest) \notin f.parents => Call(f, Head(f.rest)) \in Q
        PROVE  f \in Q
    <3>1. f.links \in T BY DEF Frames, Caches
    <3>2. CASE f.rest = <<>> BY <1>11, <3>1, <3>2
    <3>3. CASE f.rest # <<>>
      <4>1. Unlink(f.links, f.block, Head(f.rest)) \in T BY <3>1, UnlinkEffect
      <4>2. Turn(f, w) \in T BY <2>1, <3>3, <4>1 DEF Turn
      <4>3. w[NextTurn(f, Turn(f, w))] \in T BY <2>1, <3>3, <4>2
      <4> QED BY <1>11, <3>3, <4>3
    <3> QED BY <3>2, <3>3
  <2> HIDE DEF F, T, Q
  <2>2. F \subseteq Q BY <2>1, FrameInduction DEF F, T
  <2> QED BY <2>2 DEF Q
<1>13. w \in [F -> T]
  <2> HIDE DEF step, F, T
  <2> QED BY <1>10, <1>12
<1> QED
  <2> HIDE DEF F, T
  <2>1. Walk(D) \in [F -> T] BY <1>9, <1>13
  <2>2. \A f \in F : Walk(D)[f] = step(Walk(D), f) BY <1>9, <1>11
  <2> QED BY <2>1, <2>2 DEF F, T

------------------------------------------------------------------------------
\* What a walk keeps.

\* A list is its head and the rest.
LEMMA HeadAndTail ==
  ASSUME NEW T, NEW list \in Seq(T), list # <<>>
  PROVE  ToSet(list) = {Head(list)} \cup ToSet(Tail(list))
<1> DEFINE n == Len(list)
           rest == Tail(list)
<1>1. /\ n \in Nat /\ n # 0 /\ DOMAIN list = 1 .. n /\ DOMAIN rest = 1 .. n - 1
      /\ Head(list) = list[1]
      /\ \A i \in 1 .. n - 1 : rest[i] = list[i + 1]
  OBVIOUS
<1>2. {list[i] : i \in 1 .. n} = {list[1]} \cup {rest[i] : i \in 1 .. n - 1}
  <2> HIDE DEF n, rest
  <2>1. \A i \in 1 .. n : i = 1 \/ (i - 1 \in 1 .. n - 1 /\ list[i] = rest[i - 1])
    BY <1>1
  <2>2. \A i \in 1 .. n - 1 : i + 1 \in 1 .. n
    BY <1>1
  <2> QED BY <1>1, <2>1, <2>2
<1> QED BY <1>1, <1>2 DEF ToSet

\* The frames a call of checkLinks has: the path is of blocks, and ends at the block.
OnPath(D, f) ==
  f.rest # <<>> => /\ f.parents \subseteq D
                   /\ f.block \in f.parents \/ (f.block = -1 /\ f.parents = {})

\* One turn of the loop: its effect on the cache, and the frames it leads to.
LEMMA OneTurn ==
  ASSUME NEW D, IsFiniteSet(D), NEW f \in Frames(D), OnPath(D, f), f.rest # <<>>
  PROVE  /\ Head(f.rest) \in Nat
         /\ ToSet(f.rest) = {Head(f.rest)} \cup ToSet(Tail(f.rest))
         /\ Turn(f, Walk(D)) \in Caches(D)
         /\ NextTurn(f, Turn(f, Walk(D))) \in Frames(D)
         /\ OnPath(D, NextTurn(f, Turn(f, Walk(D))))
         /\ Walk(D)[f] = Walk(D)[NextTurn(f, Turn(f, Walk(D)))]
         /\ Call(f, Head(f.rest)) \in Frames(D)
         /\ Head(f.rest) \notin f.parents => OnPath(D, Call(f, Head(f.rest)))
<1> DEFINE c == Head(f.rest)
<1>1. f.links \in Caches(D) /\ f.rest \in Seq(Nat) /\ f.parents \subseteq Nat
  BY DEF Frames, Caches
<1>2. /\ c \in Nat /\ Call(f, c) \in Frames(D)
      /\ \A cl \in Caches(D) : NextTurn(f, cl) \in Frames(D)
  BY <1>1, LaterFrames
<1>3. Turn(f, Walk(D)) \in Caches(D)
  BY <1>1, <1>2, UnlinkEffect, WalkEquation DEF Turn
<1>4. OnPath(D, NextTurn(f, Turn(f, Walk(D))))
  BY DEF OnPath, NextTurn, Frames
<1>5. OnPath(D, Call(f, c))
  <2>1. c \notin D => LinksOf(f.links, c) = <<>>
    BY <1>1, LinksOfType
  <2> QED BY <2>1 DEF OnPath, Call
<1>6. Walk(D)[f] = Walk(D)[NextTurn(f, Turn(f, Walk(D)))]
  BY WalkEquation
<1>7. ToSet(f.rest) = {c} \cup ToSet(Tail(f.rest))
  BY <1>1, HeadAndTail
<1> QED BY <1>2, <1>3, <1>4, <1>5, <1>6, <1>7

\* What a turn does to the cache, and what the frames after it hold.
LEMMA TurnEffect ==
  ASSUME NEW D, NEW f \in Frames(D), NEW walk
  PROVE  LET c  == Head(f.rest)
             cl == Turn(f, walk)
             n  == NextTurn(f, cl)
             g  == Call(f, c)
         IN  /\ f.links \in Caches(D)
             /\ n.block = f.block /\ n.parents = f.parents /\ n.rest = Tail(f.rest) /\ n.links = cl
             /\ g.block = c /\ g.parents = f.parents \cup {c} /\ g.rest = LinksOf(f.links, c)
             /\ g.links = f.links
             /\ c \notin f.parents => cl = walk[g]
             /\ c \in f.parents =>
                  /\ \A x \in D : x # f.block => cl[x] = f.links[x]
                  /\ f.block \in D => ToSet(cl[f.block]) = ToSet(f.links[f.block]) \ {c}
                  /\ \A x \in D : ToSet(cl[x]) \subseteq ToSet(f.links[x])
<1> DEFINE c  == Head(f.rest)
           cl == Turn(f, walk)
           u  == Unlink(f.links, f.block, c)
<1>1. f.links \in Caches(D)
  BY DEF Frames, Caches
<1>2. LET n == NextTurn(f, cl)
      IN  n.block = f.block /\ n.parents = f.parents /\ n.rest = Tail(f.rest) /\ n.links = cl
  BY DEF NextTurn, Frames
<1>3. LET g == Call(f, c)
      IN  /\ g.block = c /\ g.parents = f.parents \cup {c} /\ g.rest = LinksOf(f.links, c)
          /\ g.links = f.links
  BY DEF Call
<1>4. c \notin f.parents => cl = walk[Call(f, c)]
  BY DEF Turn
<1>5. c \in f.parents => cl = u
  BY DEF Turn
<1>6. /\ \A x \in D : x # f.block => u[x] = f.links[x]
      /\ f.block \in D => ToSet(u[f.block]) = ToSet(f.links[f.block]) \ {c}
  <2>1. PICK links \in Caches(D) : links = f.links
    BY <1>1
  <2>2. PICK b : b = f.block
    OBVIOUS
  <2> HIDE DEF c
  <2>3. /\ \A x \in D : x # b => Unlink(links, b, c)[x] = links[x]
        /\ b \in D => ToSet(Unlink(links, b, c)[b]) = ToSet(links[b]) \ {c}
    BY UnlinkEffect
  <2> QED BY <2>1, <2>2, <2>3
<1>7. \A x \in D : ToSet(u[x]) \subseteq ToSet(f.links[x])
  BY <1>6
<1> HIDE DEF cl, u
<1> QED BY <1>1, <1>2, <1>3, <1>4, <1>5, <1>6, <1>7 DEF cl

\* Induction along a walk: what holds of the frames a turn leads to holds of the frame.
LEMMA WalkInduction ==
  ASSUME NEW D, IsFiniteSet(D), NEW Q,
         \A f \in Frames(D) : f.rest = <<>> => f \in Q,
         \A f \in Frames(D) :
           /\ OnPath(D, f)
           /\ f.rest # <<>>
           /\ NextTurn(f, Turn(f, Walk(D))) \in Q
           /\ Head(f.rest) \notin f.parents => Call(f, Head(f.rest)) \in Q
           => f \in Q
  PROVE  \A f \in Frames(D) : OnPath(D, f) => f \in Q
<1> DEFINE P == {f \in Frames(D) : OnPath(D, f) => f \in Q}
<1>1. ASSUME NEW f \in Frames(D),
             \/ f.rest = <<>>
             \/ /\ \A cl \in Caches(D) : NextTurn(f, cl) \in P
                /\ Head(f.rest) \notin f.parents => Call(f, Head(f.rest)) \in P
      PROVE  f \in P
  <2> SUFFICES ASSUME OnPath(D, f), f.rest # <<>> PROVE f \in Q
    OBVIOUS
  <2>1. Turn(f, Walk(D)) \in Caches(D) /\ OnPath(D, NextTurn(f, Turn(f, Walk(D))))
    BY OneTurn
  <2>2. NextTurn(f, Turn(f, Walk(D))) \in Q
    BY <1>1, <2>1
  <2>3. Head(f.rest) \notin f.parents => Call(f, Head(f.rest)) \in Q
    BY <1>1, OneTurn
  <2> QED BY <2>2, <2>3
<1>2. Frames(D) \subseteq P
  <2> HIDE DEF P
  <2> QED BY <1>1, FrameInduction
<1> QED BY <1>2

\* A walk only takes links out of the cache.
LEMMA WalkShrinks ==
  ASSUME NEW D, IsFiniteSet(D)
  PROVE  \A f \in Frames(D) : OnPath(D, f) =>
           /\ Walk(D)[f] \in Caches(D)
           /\ \A x \in D : ToSet(Walk(D)[f][x]) \subseteq ToSet(f.links[x])
<1> DEFINE Q == {f \in Frames(D) : \A x \in D : ToSet(Walk(D)[f][x]) \subseteq ToSet(f.links[x])}
<1>1. \A f \in Frames(D) : f.rest = <<>> => f \in Q
  BY WalkEquation
<1>2. ASSUME NEW f \in Frames(D), OnPath(D, f), f.rest # <<>>,
             NextTurn(f, Turn(f, Walk(D))) \in Q,
             Head(f.rest) \notin f.parents => Call(f, Head(f.rest)) \in Q
      PROVE  f \in Q
  <2> DEFINE c == Head(f.rest)
             cl == Turn(f, Walk(D))
  <2>2. \A x \in D : ToSet(cl[x]) \subseteq ToSet(f.links[x])
    BY <1>2, TurnEffect
  <2>3. NextTurn(f, cl).links = cl
    BY TurnEffect
  <2>4. Walk(D)[f] = Walk(D)[NextTurn(f, cl)]
    BY <1>2, OneTurn
  <2> HIDE DEF cl
  <2> QED BY <1>2, <2>2, <2>3, <2>4 DEF cl
<1>3. \A f \in Frames(D) : OnPath(D, f) => f \in Q
  <2> HIDE DEF Q
  <2> QED BY <1>1, <1>2, WalkInduction
<1> QED BY <1>3, WalkEquation

\* Blocks the walk is done with: no link leads out of them, and they hold no cycle.
Settled(D, cl, A) ==
  /\ A \subseteq D
  /\ \A a \in A : ToSet(cl[a]) \cap D \subseteq A
  /\ \A S \in SUBSET A : S # {} => \E b \in S : \A a \in S : b \notin ToSet(cl[a])

\* Every set of blocks that has `from` and follows the pairs of E has `to`.
Way(D, E, from, to) ==
  \A S \in SUBSET D : (from \in S /\ \A e \in E : e[1] \in S => e[2] \in S) => to \in S

\* The pairs a link cache makes.
LinkPairs(D, cl) == {e \in D \X D : e[2] \in ToSet(cl[e[1]])}

\* Reaches, in terms of pairs.
LEMMA ReachesIsWay ==
  ASSUME NEW D, NEW cl \in Caches(D), NEW x, NEW y
  PROVE  Reaches(cl, x, y) <=> Way(D, LinkPairs(D, cl), x, y)
<1>1. DOMAIN cl = D
  BY DEF Caches
<1>2. \A S \in SUBSET D : (\A b \in S : ToSet(cl[b]) \cap D \subseteq S)
                          <=> (\A e \in LinkPairs(D, cl) : e[1] \in S => e[2] \in S)
  <2> SUFFICES ASSUME NEW S \in SUBSET D
               PROVE  (\A b \in S : ToSet(cl[b]) \cap D \subseteq S)
                      <=> (\A e \in LinkPairs(D, cl) : e[1] \in S => e[2] \in S)
    OBVIOUS
  <2>1. ASSUME \A b \in S : ToSet(cl[b]) \cap D \subseteq S, NEW e \in LinkPairs(D, cl), e[1] \in S
        PROVE  e[2] \in S
    BY <2>1 DEF LinkPairs
  <2>2. ASSUME \A e \in LinkPairs(D, cl) : e[1] \in S => e[2] \in S,
               NEW b \in S, NEW c \in ToSet(cl[b]) \cap D
        PROVE  c \in S
    <3>1. <<b, c>> \in LinkPairs(D, cl) BY DEF LinkPairs
    <3> QED BY <2>2, <3>1
  <2> QED BY <2>1, <2>2
<1> QED BY <1>1, <1>2 DEF Reaches, Way

\* A way stays one with more pairs, and can be made longer.
LEMMA WayRules ==
  ASSUME NEW D, NEW E
  PROVE  /\ \A x : Way(D, E, x, x)
         /\ \A F, x, y : E \subseteq F /\ Way(D, E, x, y) => Way(D, F, x, y)
         /\ \A x, y, z : Way(D, E, x, y) /\ <<y, z>> \in E => Way(D, E, x, z)
<1>1. \A x, y, z : Way(D, E, x, y) /\ <<y, z>> \in E => Way(D, E, x, z)
  <2> SUFFICES ASSUME NEW x, NEW y, NEW z, Way(D, E, x, y), <<y, z>> \in E,
                      NEW S \in SUBSET D, x \in S, \A e \in E : e[1] \in S => e[2] \in S
               PROVE  z \in S
    BY DEF Way
  <2>1. y \in S BY DEF Way
  <2> QED BY <2>1
<1> QED BY <1>1 DEF Way

\* Among settled blocks no link leads back to where it came from.
LEMMA NoWayBack ==
  ASSUME NEW D, NEW cl \in Caches(D), NEW A, Settled(D, cl, A),
         NEW b \in A, NEW c \in A, c \in ToSet(cl[b]), Reaches(cl, c, b)
  PROVE  FALSE
<1> DEFINE E == LinkPairs(D, cl)
           S == {t \in A : Way(D, E, c, t) /\ Way(D, E, t, b)}
<1>1. Way(D, E, c, b)
  BY ReachesIsWay
<1>2. c \in S
  BY <1>1, WayRules
<1>3. PICK t \in S : \A a \in S : t \notin ToSet(cl[a])
  BY <1>2 DEF Settled
<1>4. b \in S
  BY <1>1, WayRules
<1>5. t # c
  BY <1>3, <1>4
<1> DEFINE B == {x \in D : Way(D, E, c, x)} \ {t}
<1>6. c \in B /\ t \notin B /\ B \in SUBSET D
  BY <1>2, <1>5, WayRules DEF Settled
<1>7. PICK e \in E : e[1] \in B /\ e[2] \notin B
  BY <1>3, <1>6 DEF Way
<1>8. e = <<e[1], e[2]>> /\ e[1] \in D /\ e[2] \in D /\ e[2] \in ToSet(cl[e[1]])
  BY DEF LinkPairs
<1>9. Way(D, E, c, e[2])
  BY <1>7, <1>8, WayRules
<1>10. e[2] = t
  BY <1>7, <1>8, <1>9
<1>11. e[1] \in A
  <2>1. \A f \in E : f[1] \in A => f[2] \in A BY DEF LinkPairs, Settled
  <2>2. A \in SUBSET D BY DEF Settled
  <2> QED BY <1>7, <2>1, <2>2 DEF Way
<1>12. Way(D, E, e[1], b)
  <2> SUFFICES ASSUME NEW X \in SUBSET D, e[1] \in X, \A f \in E : f[1] \in X => f[2] \in X
               PROVE  b \in X
    BY DEF Way
  <2>1. t \in X BY <1>7, <1>10
  <2> QED BY <1>3, <2>1 DEF Way
<1>13. e[1] \in S
  BY <1>7, <1>11, <1>12
<1> QED BY <1>3, <1>8, <1>10, <1>13

\* Settled blocks stay settled while their own lists are unchanged.
LEMMA SettledSame ==
  ASSUME NEW D, NEW cl, NEW new, NEW A, Settled(D, cl, A), \A a \in A : new[a] = cl[a]
  PROVE  Settled(D, new, A)
<1> \A S \in SUBSET A : \A a \in S : new[a] = cl[a]
  OBVIOUS
<1> QED BY DEF Settled

\* Blocks settled apart are settled together.
LEMMA SettledUnion ==
  ASSUME NEW D, NEW cl, NEW A, NEW B, Settled(D, cl, A), Settled(D, cl, B)
  PROVE  Settled(D, cl, A \cup B)
<1> SUFFICES ASSUME NEW S \in SUBSET (A \cup B), S # {}
             PROVE  \E b \in S : \A a \in S : b \notin ToSet(cl[a])
  BY DEF Settled
<1>1. CASE S \subseteq A
  BY <1>1 DEF Settled
<1>2. CASE ~ (S \subseteq A)
  <2>1. S \ A \in SUBSET B /\ S \ A # {}
    BY <1>2
  <2>2. PICK b \in S \ A : \A a \in S \ A : b \notin ToSet(cl[a])
    BY <2>1 DEF Settled
  <2>3. b \in D
    BY <2>1 DEF Settled
  <2>4. \A a \in A : b \notin ToSet(cl[a])
    BY <2>2, <2>3 DEF Settled
  <2> QED BY <2>2, <2>4
<1> QED BY <1>1, <1>2

\* A block whose links lead to settled blocks only is settled with them.
LEMMA SettledMore ==
  ASSUME NEW D, NEW cl, NEW A, Settled(D, cl, A), NEW b \in D, b \notin A,
         ToSet(cl[b]) \cap D \subseteq A
  PROVE  Settled(D, cl, A \cup {b})
<1>1. \A a \in A \cup {b} : b \notin ToSet(cl[a])
  BY DEF Settled
<1> SUFFICES ASSUME NEW S \in SUBSET (A \cup {b}), S # {}
             PROVE  \E x \in S : \A a \in S : x \notin ToSet(cl[a])
  BY DEF Settled
<1>2. CASE b \in S
  BY <1>1, <1>2
<1>3. CASE b \notin S
  <2>1. S \in SUBSET A BY <1>3
  <2> QED BY <2>1 DEF Settled
<1> QED BY <1>2, <1>3

\* A walk that starts inside settled blocks changes nothing.
InsideSettled(D, f, A) ==
  /\ Settled(D, f.links, A)
  /\ f.block \in A
  /\ ToSet(f.rest) \subseteq ToSet(f.links[f.block])
  /\ \A p \in f.parents \cap A : Reaches(f.links, p, f.block)

LEMMA SettledWalk ==
  ASSUME NEW D, IsFiniteSet(D)
  PROVE  \A f \in Frames(D) : OnPath(D, f) =>
           \A A : InsideSettled(D, f, A) => Walk(D)[f] = f.links
<1> DEFINE Q == {f \in Frames(D) : \A A : InsideSettled(D, f, A) => Walk(D)[f] = f.links}
<1>1. \A f \in Frames(D) : f.rest = <<>> => f \in Q
  BY WalkEquation
<1>2. ASSUME NEW f \in Frames(D), OnPath(D, f), f.rest # <<>>,
             NextTurn(f, Turn(f, Walk(D))) \in Q,
             Head(f.rest) \notin f.parents => Call(f, Head(f.rest)) \in Q
      PROVE  f \in Q
  <2> SUFFICES ASSUME NEW A, InsideSettled(D, f, A) PROVE Walk(D)[f] = f.links
    OBVIOUS
  <2> DEFINE b == f.block
             c == Head(f.rest)
             g == Call(f, c)
             cl == Turn(f, Walk(D))
             n == NextTurn(f, cl)
  <2>1. /\ f.links \in Caches(D) /\ c \in Nat /\ c \in ToSet(f.links[b])
        /\ ToSet(Tail(f.rest)) \subseteq ToSet(f.links[b])
        /\ b \in A /\ b \in D /\ Settled(D, f.links, A) /\ f.parents \subseteq D
    <3>1. f.links \in Caches(D) BY DEF Frames, Caches
    <3>2. c \in Nat /\ ToSet(f.rest) = {c} \cup ToSet(Tail(f.rest)) BY <1>2, OneTurn
    <3>3. f.parents \subseteq D BY <1>2 DEF OnPath
    <3>4. b \in A /\ Settled(D, f.links, A) /\ ToSet(f.rest) \subseteq ToSet(f.links[b])
      BY DEF InsideSettled
    <3> QED BY <3>1, <3>2, <3>3, <3>4 DEF Settled
  <2>2. c \in D => c \in A
    BY <2>1 DEF Settled
  <2>3. c \notin f.parents
    BY <2>1, <2>2, NoWayBack DEF InsideSettled
  <2>4. cl = Walk(D)[g]
    BY <2>3, TurnEffect
  <2>5. cl = f.links
    <3>1. CASE c \in D
      <4>1. /\ g.block = c /\ g.parents = f.parents \cup {c} /\ g.links = f.links
            /\ g.rest = f.links[c]
        BY <2>1, <3>1, TurnEffect DEF LinksOf, Caches
      <4>2. \A p \in f.parents \cap A : Reaches(f.links, p, c)
        <5>1. <<b, c>> \in LinkPairs(D, f.links)
          BY <2>1, <3>1 DEF LinkPairs
        <5> QED BY <2>1, <5>1, ReachesIsWay, WayRules DEF InsideSettled
      <4>3. Reaches(f.links, c, c)
        BY <2>1, ReachesIsWay, WayRules
      <4>4. InsideSettled(D, g, A)
        BY <2>1, <2>2, <3>1, <4>1, <4>2, <4>3 DEF InsideSettled
      <4> HIDE DEF g
      <4> QED BY <1>2, <2>3, <2>4, <4>1, <4>4 DEF g
    <3>2. CASE c \notin D
      <4>1. g.rest = <<>> /\ g.links = f.links
        BY <2>1, <3>2, TurnEffect, LinksOfType
      <4>2. g \in Frames(D)
        BY <1>2, OneTurn
      <4> QED BY <2>4, <4>1, <4>2, WalkEquation
    <3> QED BY <3>1, <3>2
  <2>6. n.block = b /\ n.parents = f.parents /\ n.rest = Tail(f.rest) /\ n.links = f.links
    BY <2>5, TurnEffect
  <2>7. InsideSettled(D, n, A)
    BY <2>1, <2>6 DEF InsideSettled
  <2>8. Walk(D)[f] = Walk(D)[n]
    BY <1>2, OneTurn
  <2> HIDE DEF n
  <2> QED BY <1>2, <2>6, <2>7, <2>8 DEF n
<1>3. \A f \in Frames(D) : OnPath(D, f) => f \in Q
  <2> HIDE DEF Q
  <2> QED BY <1>1, <1>2, WalkInduction
<1> QED BY <1>3

\* A walk that starts outside settled blocks leaves their links alone.
LEMMA SettledKept ==
  ASSUME NEW D, IsFiniteSet(D)
  PROVE  \A f \in Frames(D) : OnPath(D, f) =>
           \A A : Settled(D, f.links, A) /\ f.block \notin A /\ A \cap f.parents = {} =>
                  \A a \in A : Walk(D)[f][a] = f.links[a]
<1> DEFINE Apart(f, A) == Settled(D, f.links, A) /\ f.block \notin A /\ A \cap f.parents = {}
           Q == {f \in Frames(D) : \A A : Apart(f, A) => \A a \in A : Walk(D)[f][a] = f.links[a]}
<1>1. \A f \in Frames(D) : f.rest = <<>> => f \in Q
  BY WalkEquation
<1>2. ASSUME NEW f \in Frames(D), OnPath(D, f), f.rest # <<>>,
             NextTurn(f, Turn(f, Walk(D))) \in Q,
             Head(f.rest) \notin f.parents => Call(f, Head(f.rest)) \in Q
      PROVE  f \in Q
  <2> SUFFICES ASSUME NEW A, Apart(f, A)
               PROVE  \A a \in A : Walk(D)[f][a] = f.links[a]
    OBVIOUS
  <2> DEFINE c == Head(f.rest)
             g == Call(f, c)
             cl == Turn(f, Walk(D))
             n == NextTurn(f, cl)
  <2>1. f.links \in Caches(D) /\ A \subseteq D
    BY TurnEffect DEF Settled
  <2>2. \A a \in A : cl[a] = f.links[a]
    <3>1. CASE c \in f.parents
      BY <2>1, <3>1, TurnEffect
    <3>2. CASE c \notin f.parents
      <4>1. /\ cl = Walk(D)[g] /\ g.links = f.links /\ g.block = c
            /\ g.parents = f.parents \cup {c} /\ g.rest = LinksOf(f.links, c)
        BY <3>2, TurnEffect
      <4>2. CASE c \notin A
        <5>1. Apart(g, A) BY <4>1, <4>2
        <5> HIDE DEF g, Apart
        <5> QED BY <1>2, <3>2, <4>1, <5>1 DEF g
      <4>3. CASE c \in A
        <5>1. g \in Frames(D) /\ OnPath(D, g)
          BY <1>2, <3>2, OneTurn
        <5>2. ToSet(g.rest) \subseteq ToSet(g.links[c])
          BY <2>1, <4>1, <4>3 DEF LinksOf, Caches
        <5>3. g.parents \cap A = {c} /\ Reaches(f.links, c, c)
          BY <2>1, <4>1, <4>3, ReachesIsWay, WayRules
        <5>4. InsideSettled(D, g, A)
          BY <4>1, <4>3, <5>2, <5>3 DEF InsideSettled
        <5>5. Walk(D)[g] = g.links
          BY <5>1, <5>4, SettledWalk
        <5> QED BY <4>1, <5>5
      <4> QED BY <4>2, <4>3
    <3> QED BY <3>1, <3>2
  <2>3. n.block = f.block /\ n.parents = f.parents /\ n.links = cl
    BY TurnEffect
  <2>4. Apart(n, A)
    <3>1. Settled(D, cl, A) BY <2>2, SettledSame
    <3> QED BY <2>3, <3>1
  <2>5. Walk(D)[f] = Walk(D)[n]
    BY <1>2, OneTurn
  <2> HIDE DEF n, Apart, cl
  <2> QED BY <1>2, <2>2, <2>3, <2>4, <2>5 DEF n, cl
<1>3. \A f \in Frames(D) : OnPath(D, f) => f \in Q
  <2> HIDE DEF Q
  <2> QED BY <1>1, <1>2, WalkInduction
<1> QED BY <1>3

\* The lists of the blocks above a call are unchanged when it returns, and its own
\* block loses links to the blocks on the path only.
LEMMA PathKept ==
  ASSUME NEW D, IsFiniteSet(D)
  PROVE  \A f \in Frames(D) : OnPath(D, f) =>
           /\ \A p \in f.parents \cap D : p # f.block => Walk(D)[f][p] = f.links[p]
           /\ f.block \in f.parents \cap D =>
                ToSet(f.links[f.block]) \ f.parents \subseteq ToSet(Walk(D)[f][f.block])
<1> DEFINE Kept(f) ==
             /\ \A p \in f.parents \cap D : p # f.block => Walk(D)[f][p] = f.links[p]
             /\ f.block \in f.parents \cap D =>
                  ToSet(f.links[f.block]) \ f.parents \subseteq ToSet(Walk(D)[f][f.block])
           Q == {f \in Frames(D) : Kept(f)}
<1>1. \A f \in Frames(D) : f.rest = <<>> => f \in Q
  BY WalkEquation
<1>2. ASSUME NEW f \in Frames(D), OnPath(D, f), f.rest # <<>>,
             NextTurn(f, Turn(f, Walk(D))) \in Q,
             Head(f.rest) \notin f.parents => Call(f, Head(f.rest)) \in Q
      PROVE  f \in Q
  <2> DEFINE c == Head(f.rest)
             g == Call(f, c)
             cl == Turn(f, Walk(D))
             n == NextTurn(f, cl)
  <2>1. /\ \A p \in f.parents \cap D : p # f.block => cl[p] = f.links[p]
        /\ f.block \in f.parents \cap D =>
             ToSet(f.links[f.block]) \ f.parents \subseteq ToSet(cl[f.block])
    <3>1. CASE c \in f.parents
      BY <3>1, TurnEffect
    <3>2. CASE c \notin f.parents
      <4>1. /\ cl = Walk(D)[g] /\ g.links = f.links /\ g.block = c
            /\ g.parents = f.parents \cup {c}
        BY <3>2, TurnEffect
      <4>2. Kept(g)
        BY <1>2, <3>2
      <4>3. \A p \in f.parents \cap D : cl[p] = f.links[p]
        BY <3>2, <4>1, <4>2
      <4> QED BY <4>3
    <3> QED BY <3>1, <3>2
  <2>2. n.block = f.block /\ n.parents = f.parents /\ n.links = cl
    BY TurnEffect
  <2>3. Walk(D)[f] = Walk(D)[n]
    BY <1>2, OneTurn
  <2>4. Kept(n)
    BY <1>2
  <2> HIDE DEF n, cl
  <2> QED BY <2>1, <2>2, <2>3, <2>4
<1>3. \A f \in Frames(D) : OnPath(D, f) => f \in Q
  <2> HIDE DEF Q
  <2> QED BY <1>1, <1>2, WalkInduction
<1> QED BY <1>3

------------------------------------------------------------------------------
\* What a walk achieves.

\* The pairs that stay in the cache cl when a call for block b has settled A: those of
\* the path above it (P), those out of A, and those from b into A.
Staying(D, cl, b, A, P) ==
  P \cup {e \in LinkPairs(D, cl) : e[1] \in A \/ (e[1] = b /\ e[2] \in A)}

\* P leads from every block of the path to the block of the frame, and what is left of
\* its list is still linked, or on the path.
Led(D, f, P) ==
  /\ P \subseteq D \X D
  /\ \A p \in f.parents : Way(D, P, p, f.block)
  /\ f.block \in D => ToSet(f.rest) \subseteq ToSet(f.links[f.block]) \cup f.parents

\* The call has settled A, no block of the path among them; every child is settled or
\* its link dropped; and each dropped link leads back by pairs that stay.
Done(D, f, cl, P, A) ==
  /\ Settled(D, cl, A)
  /\ A \cap f.parents = {} /\ f.block \notin A
  /\ \A c \in ToSet(f.rest) \cap D :
       c \in A \/ (c \in f.parents /\ (f.block \in D => c \notin ToSet(cl[f.block])))
  /\ \A x \in D : \A y \in ToSet(f.links[x]) \ ToSet(cl[x]) :
       y \in D /\ Way(D, Staying(D, cl, f.block, A, P), y, x)

LEMMA WalkDone ==
  ASSUME NEW D, IsFiniteSet(D), D \subseteq Nat
  PROVE  \A f \in Frames(D) : OnPath(D, f) =>
           \A P : Led(D, f, P) => \E A : Done(D, f, Walk(D)[f], P, A)
<1> DEFINE Q == {f \in Frames(D) : \A P : Led(D, f, P) => \E A : Done(D, f, Walk(D)[f], P, A)}
<1>1. ASSUME NEW f \in Frames(D), f.rest = <<>> PROVE f \in Q
  <2>1. Walk(D)[f] = f.links /\ ToSet(f.rest) = {}
    BY <1>1, WalkEquation DEF ToSet
  <2>2. \A P : Done(D, f, Walk(D)[f], P, {})
    BY <2>1 DEF Done, Settled
  <2> QED BY <2>2
<1>2. ASSUME NEW f \in Frames(D), OnPath(D, f), f.rest # <<>>,
             NextTurn(f, Turn(f, Walk(D))) \in Q,
             Head(f.rest) \notin f.parents => Call(f, Head(f.rest)) \in Q
      PROVE  f \in Q
  <2> SUFFICES ASSUME NEW P, Led(D, f, P) PROVE \E A : Done(D, f, Walk(D)[f], P, A)
    OBVIOUS
  <2> DEFINE b == f.block
             c == Head(f.rest)
             g == Call(f, c)
             cl == Turn(f, Walk(D))
             n == NextTurn(f, cl)
             end == Walk(D)[f]
  <2>1. /\ f.links \in Caches(D) /\ cl \in Caches(D) /\ n \in Frames(D) /\ OnPath(D, n)
        /\ end = Walk(D)[n] /\ ToSet(f.rest) = {c} \cup ToSet(n.rest)
        /\ n.block = b /\ n.parents = f.parents /\ n.links = cl
    BY <1>2, OneTurn, TurnEffect
  <2>2. end \in Caches(D) /\ \A x \in D : ToSet(end[x]) \subseteq ToSet(cl[x])
    BY <2>1, WalkShrinks
  <2>3. f.parents \subseteq D /\ (b \in f.parents \/ (b = -1 /\ f.parents = {}))
    BY <1>2 DEF OnPath
  <2>4. CASE c \in f.parents
    <3>1. /\ \A x \in D : x # b => cl[x] = f.links[x]
          /\ b \in D /\ ToSet(cl[b]) = ToSet(f.links[b]) \ {c}
      <4>1. b \in D
        BY <2>3, <2>4
      <4>2. /\ \A x \in D : x # b => cl[x] = f.links[x]
            /\ b \in D => ToSet(cl[b]) = ToSet(f.links[b]) \ {c}
        BY <2>4, TurnEffect
      <4> QED BY <4>1, <4>2
    <3>2. Led(D, n, P)
      BY <2>1, <2>4, <3>1 DEF Led
    <3>3. PICK A : Done(D, n, end, P, A)
      <4> HIDE DEF n, end
      <4> QED BY <1>2, <2>1, <3>2 DEF n
    <3>4. Way(D, P, c, b) /\ P \subseteq Staying(D, end, b, A, P)
      BY <2>4 DEF Led, Staying
    <3>5. Way(D, Staying(D, end, b, A, P), c, b)
      BY <3>4, WayRules
    <3> HIDE DEF n, cl, end
    <3>6. \A x \in D : \A y \in ToSet(f.links[x]) \ ToSet(end[x]) :
            y \in D /\ Way(D, Staying(D, end, b, A, P), y, x)
      <4> SUFFICES ASSUME NEW x \in D, NEW y \in ToSet(f.links[x]) \ ToSet(end[x])
                   PROVE  y \in D /\ Way(D, Staying(D, end, b, A, P), y, x)
        OBVIOUS
      <4>1. CASE y \in ToSet(cl[x])
        BY <2>1, <3>3, <4>1 DEF Done
      <4>2. CASE y \notin ToSet(cl[x])
        <5>1. x = b /\ y = c BY <3>1, <4>2
        <5> QED BY <2>3, <2>4, <3>5, <5>1
      <4> QED BY <4>1, <4>2
    <3>7. c \notin ToSet(end[b])
      BY <2>2, <3>1
    <3>8. Done(D, f, end, P, A)
      BY <2>1, <2>4, <3>3, <3>6, <3>7 DEF Done
    <3> QED BY <3>8 DEF end
  <2>5. CASE c \notin f.parents /\ c \notin D
    <3>1. cl = f.links
      <4>1. /\ cl = Walk(D)[g] /\ g.links = f.links /\ g.rest = LinksOf(f.links, c)
            /\ g \in Frames(D)
        BY <1>2, <2>5, OneTurn, TurnEffect
      <4>2. g.rest = <<>>
        BY <2>1, <2>5, <4>1, LinksOfType
      <4> QED BY <4>1, <4>2, WalkEquation
    <3>2. Led(D, n, P)
      BY <2>1, <3>1 DEF Led
    <3>3. PICK A : Done(D, n, end, P, A)
      <4> HIDE DEF n, end
      <4> QED BY <1>2, <2>1, <3>2 DEF n
    <3> HIDE DEF n, cl, end
    <3>4. Done(D, f, end, P, A)
      BY <2>1, <2>5, <3>1, <3>3 DEF Done
    <3> QED BY <3>4 DEF end
  <2>6. CASE c \notin f.parents /\ c \in D
    <3> DEFINE P1 == IF b \in D THEN P \cup {<<b, c>>} ELSE P
    <3>1. /\ g \in Frames(D) /\ OnPath(D, g) /\ cl = Walk(D)[g]
          /\ g.block = c /\ g.parents = f.parents \cup {c} /\ g.links = f.links
          /\ ToSet(g.rest) = ToSet(f.links[c])
      BY <1>2, <2>1, <2>6, OneTurn, TurnEffect DEF LinksOf, Caches
    <3>2. \A p \in g.parents : Way(D, P1, p, c)
      <4>1. Way(D, P1, c, c) BY WayRules
      <4>2. ASSUME NEW p \in f.parents PROVE Way(D, P1, p, c)
        <5>1. b \in D BY <2>3, <4>2
        <5>2. Way(D, P, p, b) BY <4>2 DEF Led
        <5>3. P \subseteq P1 /\ <<b, c>> \in P1 BY <5>1
        <5> HIDE DEF P1
        <5>4. Way(D, P1, p, b) BY <5>2, <5>3, WayRules
        <5> QED BY <5>3, <5>4, WayRules
      <4> HIDE DEF P1
      <4> QED BY <3>1, <4>1, <4>2
    <3>3. Led(D, g, P1)
      <4>1. P1 \subseteq D \X D BY <2>6 DEF Led
      <4> HIDE DEF P1
      <4> QED BY <3>1, <3>2, <4>1 DEF Led
    <3>4. PICK A1 : Done(D, g, cl, P1, A1)
      <4> HIDE DEF g, cl, P1
      <4> QED BY <1>2, <2>6, <3>1, <3>3 DEF g
    <3> DEFINE B == A1 \cup {c}
    <3>5. Settled(D, cl, B)
      <4>1. Settled(D, cl, A1) /\ c \notin A1 /\ A1 \cap g.parents = {}
        BY <3>1, <3>4 DEF Done
      <4>2. ToSet(cl[c]) \subseteq ToSet(f.links[c])
        BY <2>6, <3>1, WalkShrinks
      <4>3. ToSet(cl[c]) \cap D \subseteq A1
        BY <2>6, <3>1, <3>4, <4>2 DEF Done
      <4> HIDE DEF cl
      <4> QED BY <2>6, <4>1, <4>3, SettledMore
    <3>6. B \cap f.parents = {} /\ b \notin B /\ B \subseteq D
      <4>1. A1 \cap g.parents = {} /\ A1 \subseteq D BY <3>4 DEF Done, Settled
      <4>2. b \notin B
        <5>1. CASE b \in f.parents BY <2>6, <3>1, <4>1, <5>1
        <5>2. CASE b = -1
          <6>1. -1 \notin D OBVIOUS
          <6> QED BY <2>6, <4>1, <5>2, <6>1
        <5> QED BY <2>3, <5>1, <5>2
      <4> QED BY <2>6, <3>1, <4>1, <4>2
    <3>7. \A x \in B : end[x] = cl[x]
      <4> HIDE DEF B
      <4> QED BY <2>1, <3>5, <3>6, SettledKept
    <3>8. b \in D => ToSet(cl[b]) = ToSet(f.links[b])
      <4>1. b \in D => b \in g.parents \cap D /\ b # c
        BY <2>3, <2>6, <3>1
      <4>2. b \in D => cl[b] = g.links[b]
        BY <3>1, <4>1, PathKept
      <4> QED BY <3>1, <4>2
    <3>9. Led(D, n, P)
      BY <2>1, <3>8 DEF Led
    <3>10. PICK A2 : Done(D, n, end, P, A2)
      <4> HIDE DEF n, end
      <4> QED BY <1>2, <2>1, <3>9 DEF n
    <3> DEFINE A == B \cup A2
    <3>11. Settled(D, end, A)
      <4>1. Settled(D, end, B)
        <5> HIDE DEF B, end, cl
        <5> QED BY <3>5, <3>7, SettledSame
      <4>2. Settled(D, end, A2)
        BY <3>10 DEF Done
      <4> HIDE DEF B, end
      <4> QED BY <4>1, <4>2, SettledUnion
    <3>12. A \cap f.parents = {} /\ b \notin A
      <4>1. A2 \cap f.parents = {} /\ b \notin A2
        BY <2>1, <3>10 DEF Done
      <4> HIDE DEF B
      <4> QED BY <3>6, <4>1
    <3>13. \A x \in ToSet(f.rest) \cap D :
             x \in A \/ (x \in f.parents /\ (b \in D => x \notin ToSet(end[b])))
      <4> HIDE DEF n, end, cl
      <4> QED BY <2>1, <3>10 DEF Done
    <3>14. b \in D => <<b, c>> \in LinkPairs(D, end)
      <4> SUFFICES ASSUME b \in D PROVE c \in ToSet(end[b])
        BY <2>6 DEF LinkPairs
      <4>1. b \in f.parents
        BY <2>3
      <4>2. c \in ToSet(cl[b])
        BY <2>1, <2>6, <3>8 DEF Led
      <4> QED BY <2>1, <2>6, <4>1, <4>2, PathKept
    <3>15. Staying(D, cl, c, A1, P1) \subseteq Staying(D, end, b, A, P)
      <4>1. \A e \in LinkPairs(D, cl) : e[1] \in B => e \in LinkPairs(D, end)
        BY <3>7 DEF LinkPairs
      <4>2. P1 \subseteq Staying(D, end, b, A, P)
        BY <3>14 DEF Staying
      <4> HIDE DEF P1, cl, end
      <4> QED BY <4>1, <4>2 DEF Staying
    <3>16. Staying(D, end, b, A2, P) \subseteq Staying(D, end, b, A, P)
      <4> HIDE DEF end, B
      <4> QED BY DEF Staying
    <3>17. \A x \in D : \A y \in ToSet(f.links[x]) \ ToSet(end[x]) :
             y \in D /\ Way(D, Staying(D, end, b, A, P), y, x)
      <4> SUFFICES ASSUME NEW x \in D, NEW y \in ToSet(f.links[x]) \ ToSet(end[x])
                   PROVE  y \in D /\ Way(D, Staying(D, end, b, A, P), y, x)
        OBVIOUS
      <4> HIDE DEF P1, A, cl, end, n, g
      <4>1. CASE y \in ToSet(cl[x])
        <5>1. y \in D /\ Way(D, Staying(D, end, b, A2, P), y, x)
          BY <2>1, <3>10, <4>1 DEF Done
        <5> QED BY <3>16, <5>1, WayRules
      <4>2. CASE y \notin ToSet(cl[x])
        <5>1. y \in D /\ Way(D, Staying(D, cl, c, A1, P1), y, x)
          BY <3>1, <3>4, <4>2 DEF Done
        <5> QED BY <3>15, <5>1, WayRules
      <4> QED BY <4>1, <4>2
    <3> HIDE DEF A, end
    <3>18. Done(D, f, end, P, A)
      BY <3>11, <3>12, <3>13, <3>17 DEF Done
    <3> QED BY <3>18 DEF end
  <2> QED BY <2>4, <2>5, <2>6
<1>3. \A f \in Frames(D) : OnPath(D, f) => f \in Q
  <2> HIDE DEF Q
  <2> QED BY <1>1, <1>2, WalkInduction
<1> QED BY <1>3

------------------------------------------------------------------------------
\* What updateLinks promises.

\* The loop over the blocks meets each of them.
LEMMA BlockOrderMembers ==
  ASSUME NEW n \in Nat
  PROVE  BlockOrder(n) \in Seq(Nat) /\ ToSet(BlockOrder(n)) = 0 .. n - 1
<1>1. BlockOrder(n) \in Seq(Nat) /\ DOMAIN BlockOrder(n) = 1 .. n
  BY DEF BlockOrder
<1>2. \A c \in 0 .. n - 1 : c + 1 \in 1 .. n /\ BlockOrder(n)[c + 1] = c
  BY DEF BlockOrder
<1>3. \A i \in 1 .. n : BlockOrder(n)[i] \in 0 .. n - 1
  BY DEF BlockOrder
<1> QED BY <1>1, <1>2, <1>3 DEF ToSet

\* checkLinks leaves a cache without cycles, and drops only links that the links it
\* leaves lead back from: each would have closed a cycle.
LEMMA CheckLinksPromise ==
  ASSUME NEW n \in Nat, NEW raw \in Caches(0 .. n - 1)
  PROVE  /\ CheckLinks(raw) \in Caches(0 .. n - 1)
         /\ Acyclic(CheckLinks(raw))
         /\ \A x \in 0 .. n - 1 : ToSet(CheckLinks(raw)[x]) \subseteq ToSet(raw[x])
         /\ \A x \in 0 .. n - 1 : \A y \in ToSet(raw[x]) \ ToSet(CheckLinks(raw)[x]) :
              y \in 0 .. n - 1 /\ Reaches(CheckLinks(raw), y, x) /\ Reaches(raw, y, x)
<1> DEFINE D == 0 .. n - 1
           f == [block |-> -1, parents |-> {}, rest |-> BlockOrder(n), links |-> raw]
           cl == CheckLinks(raw)
<1>1. IsFiniteSet(D) /\ Cardinality(D) = n /\ D \subseteq Nat
  BY FS_Interval
<1>2. cl = Walk(D)[f]
  BY <1>1 DEF CheckLinks, Caches
<1>3. f \in Frames(D) /\ OnPath(D, f)
  <2>1. BlockOrder(n) \in Seq(Nat) BY BlockOrderMembers
  <2> QED BY <2>1 DEF Frames, Caches, OnPath
<1>4. cl \in Caches(D) /\ \A x \in D : ToSet(cl[x]) \subseteq ToSet(raw[x])
  <2>1. f.links = raw OBVIOUS
  <2> HIDE DEF f, D, cl
  <2> QED BY <1>1, <1>2, <1>3, <2>1, WalkShrinks
<1>5. Led(D, f, {})
  BY DEF Led
<1>6. PICK A : Done(D, f, cl, {}, A)
  <2> HIDE DEF f, D, cl
  <2> QED BY <1>1, <1>2, <1>3, <1>5, WalkDone
<1>7. A = D
  <2>1. ToSet(f.rest) = D /\ f.parents = {} BY BlockOrderMembers
  <2> HIDE DEF f, D, cl
  <2> QED BY <1>6, <2>1 DEF Done, Settled
<1>8. DOMAIN cl = D /\ DOMAIN raw = D
  BY <1>4 DEF Caches
<1>9. Acyclic(cl)
  BY <1>6, <1>7, <1>8 DEF Done, Settled, Acyclic
<1>10. Staying(D, cl, -1, D, {}) \subseteq LinkPairs(D, cl) /\ LinkPairs(D, cl) \subseteq LinkPairs(D, raw)
  BY <1>4 DEF Staying, LinkPairs
<1>11. ASSUME NEW x \in D, NEW y \in ToSet(raw[x]) \ ToSet(cl[x])
       PROVE  y \in D /\ Reaches(cl, y, x) /\ Reaches(raw, y, x)
  <2>1. f.links = raw /\ f.block = -1 OBVIOUS
  <2> HIDE DEF f, D, cl
  <2>2. y \in D /\ Way(D, Staying(D, cl, -1, D, {}), y, x)
    BY <1>6, <1>7, <1>11, <2>1 DEF Done
  <2>3. Way(D, LinkPairs(D, cl), y, x) /\ Way(D, LinkPairs(D, raw), y, x)
    BY <1>10, <2>2, WayRules
  <2>4. raw \in Caches(D) BY DEF D
  <2> QED BY <1>4, <2>2, <2>3, <2>4, ReachesIsWay
<1> QED BY <1>4, <1>9, <1>11

\* The roots are the blocks no link names.
LEMMA RootLinksMembers ==
  ASSUME NEW n \in Nat, NEW cl \in Caches(0 .. n - 1)
  PROVE  /\ RootLinks(cl) \in Seq(Nat)
         /\ ToSet(RootLinks(cl)) = (0 .. n - 1) \ HasRefs(cl)
<1>1. DOMAIN cl = 0 .. n - 1 /\ Cardinality(0 .. n - 1) = n
  BY FS_Interval DEF Caches
<1>2. BlockOrder(n) \in Seq(Nat) /\ ToSet(BlockOrder(n)) = 0 .. n - 1
  BY BlockOrderMembers
<1>3. RootLinks(cl) = KeepOnly(BlockOrder(n), (0 .. n - 1) \ HasRefs(cl))
  BY <1>1 DEF RootLinks
<1> DEFINE roots == (0 .. n - 1) \ HasRefs(cl)
<1>4. /\ KeepOnly(BlockOrder(n), roots) \in Seq(Nat)
      /\ ToSet(KeepOnly(BlockOrder(n), roots)) = ToSet(BlockOrder(n)) \cap roots
  <2> HIDE DEF roots
  <2> QED BY <1>2, KeepOnlyMembers
<1> QED BY <1>2, <1>3, <1>4

\* In a cache without cycles every block is below a root.
LEMMA BelowARoot ==
  ASSUME NEW n \in Nat, NEW cl \in Caches(0 .. n - 1), Acyclic(cl), NEW b \in 0 .. n - 1
  PROVE  \E r \in ToSet(RootLinks(cl)) : Reaches(cl, r, b)
<1> DEFINE D == 0 .. n - 1
           E == LinkPairs(D, cl)
           S == {t \in D : Way(D, E, t, b)}
<1>1. DOMAIN cl = D
  BY DEF Caches
<1>2. b \in S
  BY WayRules
<1>3. PICK r \in S : \A a \in S : r \notin ToSet(cl[a])
  <2>1. S \in SUBSET DOMAIN cl /\ S # {} BY <1>1, <1>2
  <2> HIDE DEF S
  <2> QED BY <2>1 DEF Acyclic
<1>4. \A a \in D : r \notin ToSet(cl[a])
  <2> SUFFICES ASSUME NEW a \in D, r \in ToSet(cl[a]) PROVE FALSE
    OBVIOUS
  <2>1. <<a, r>> \in E
    BY DEF LinkPairs
  <2>2. Way(D, E, a, b)
    BY <1>3, <2>1 DEF Way
  <2> QED BY <1>3, <2>2
<1>5. r \in D \ HasRefs(cl)
  BY <1>1, <1>4 DEF HasRefs
<1>6. Reaches(cl, r, b)
  BY <1>3, ReachesIsWay
<1> QED BY <1>5, <1>6, RootLinksMembers
==============================================================================
