------------------------ MODULE PipelineBuilder_proofs ------------------------
(***************************************************************************)
(* Theorems about PipelineGraph and PipelineBuilder, for any lists of      *)
(* outputs and any machines.                                               *)
(*                                                                         *)
(* The plan (GraphInv): every chain is PlannedChain of its output, a       *)
(* formula for what computeChain and optimizeFramerateScaleGroups make     *)
(* together; the nodes form a tree; each chain has a track in it, a way    *)
(* from the source through nodes like its elements; and each node was made *)
(* for an element of a chain. Streams are followed along the tracks, and   *)
(* scales counted by what is on the tracks before them.                    *)
(*                                                                         *)
(* The build (BuilderInv): the memory of the scales is what                *)
(* determineHwScaling found, tees are where the tree branches, and the     *)
(* valves are those of the branches linked so far.                         *)
(*                                                                         *)
(* PathTo, StreamAt and Resolved are recursive over the tree. That such a  *)
(* function satisfies its defining equation is proved first, from the      *)
(* order of the node numbers.                                              *)
(***************************************************************************)
EXTENDS PipelineBuilder, FiniteSetTheorems, SequenceTheorems,
        WellFoundedInduction, TLAPS

-----------------------------------------------------------------------------
(* Recursion over a tree.                                                  *)

(* A set of numbers has a least one.                                       *)
LEMMA LeastNat ==
  ASSUME NEW T \in SUBSET Nat, T # {}
  PROVE  \E x \in T : \A y \in T : x <= y
<1>1. \E R : /\ IsWellFoundedOn(R, Nat)
             /\ \A x, y \in Nat : x < y => <<x, y>> \in R
  <2> DEFINE R == OpToRel(<, Nat)
  <2>1. IsWellFoundedOn(R, Nat)
    BY NatLessThanWellFounded
  <2>2. \A x, y \in Nat : x < y => <<x, y>> \in R
    BY DEF OpToRel
  <2> HIDE DEF R
  <2> QED  BY <2>1, <2>2
<1>2. PICK R : /\ IsWellFoundedOn(R, Nat)
               /\ \A x, y \in Nat : x < y => <<x, y>> \in R
  BY <1>1
<1>3. \E x \in T : \A y \in T : ~ (<<y, x>> \in R)
  <2> IsWellFoundedOn(R, Nat) /\ T \subseteq Nat /\ T # {}
    BY <1>2
  <2> QED  BY WFMin
<1>4. \A x, y \in T : ~(<<y, x>> \in R) => x <= y
  BY <1>2
<1> QED  BY <1>3, <1>4

(* Whether a function on 1 .. N can be defined by recursion from n to      *)
(* up[n]: by base where that is 0, else by a step G from the value there.  *)
RecursionDefines(N, up, V, base, G) ==
  \E f \in [1 .. N -> V] :
    \A n \in 1 .. N :
      f[n] = IF up[n] = 0 THEN base[n] ELSE G[<<n, f[up[n]]>>]

(* It can be if up leads down.                                             *)
LEMMA TreeRecursion ==
  ASSUME NEW N \in Nat,
         NEW up \in [1 .. N -> Nat], \A n \in 1 .. N : up[n] < n,
         NEW V, NEW base \in [1 .. N -> V], NEW G \in [(1 .. N) \X V -> V]
  PROVE  RecursionDefines(N, up, V, base, G)
<1> DEFINE Step(f, n) == IF up[n] = 0 THEN base[n] ELSE G[<<n, f[up[n]]>>]
           Upto(k) == \E f \in [1 .. k -> V] : \A n \in 1 .. k : f[n] = Step(f, n)
           T == {k \in 0 .. N : ~Upto(k)}
<1>1. Upto(0)
  <2>1. [n \in 1 .. 0 |-> base[n]] \in [1 .. 0 -> V]
    OBVIOUS
  <2>2. \A n \in 1 .. 0 : FALSE
    OBVIOUS
  <2> HIDE DEF Step
  <2> QED  BY <2>1, <2>2
<1>2. ASSUME NEW k \in 1 .. N, Upto(k - 1)
      PROVE  Upto(k)
  <2>1. PICK f \in [1 .. k - 1 -> V] : \A n \in 1 .. k - 1 : f[n] = Step(f, n)
    BY <1>2
  <2> DEFINE g == [n \in 1 .. k |-> IF n = k THEN Step(f, k) ELSE f[n]]
  <2>2. k \in 1 .. N /\ up[k] \in 0 .. k - 1
    OBVIOUS
  <2>3. Step(f, k) \in V
    <3>1. CASE up[k] = 0
      BY <3>1
    <3>2. CASE up[k] # 0
      <4>1. up[k] \in 1 .. k - 1
        BY <2>2, <3>2
      <4>2. f[up[k]] \in V
        BY <4>1
      <4> QED  BY <3>2, <4>2
    <3> QED  BY <3>1, <3>2
  <2>4. g \in [1 .. k -> V]
    <3>1. \A n \in 1 .. k : n # k => n \in 1 .. k - 1
      OBVIOUS
    <3> HIDE DEF Step
    <3> QED  BY <2>3, <3>1
  <2>5. ASSUME NEW n \in 1 .. k
        PROVE  g[n] = Step(g, n)
    <3>1. up[n] \in 0 .. n - 1 /\ (n # k => n \in 1 .. k - 1)
      OBVIOUS
    <3>2. up[n] # 0 => up[n] \in 1 .. k - 1 /\ up[n] \in 1 .. k /\ up[n] # k
      BY <3>1
    <3>3. up[n] # 0 => g[up[n]] = f[up[n]]
      BY <3>2
    <3>4. Step(g, n) = Step(f, n)
      <4> HIDE DEF g
      <4>1. CASE up[n] = 0
        BY <4>1
      <4>2. CASE up[n] # 0
        BY <3>3, <4>2
      <4> QED  BY <4>1, <4>2
    <3>5. g[n] = Step(f, n)
      <4>1. CASE n = k
        BY <4>1
      <4>2. CASE n # k
        <5>1. n \in 1 .. k - 1
          BY <3>1, <4>2
        <5>2. g[n] = f[n]
          BY <4>2
        <5> QED  BY <2>1, <5>1, <5>2
      <4> QED  BY <4>1, <4>2
    <3> QED  BY <3>4, <3>5
  <2> HIDE DEF g, Step
  <2> QED  BY <2>4, <2>5
<1>3. T = {}
  <2> HIDE DEF Upto
  <2> SUFFICES ASSUME T # {} PROVE FALSE
    OBVIOUS
  <2>1. PICK k \in T : \A j \in T : k <= j
    <3>1. T \in SUBSET Nat
      OBVIOUS
    <3> QED  BY <3>1, LeastNat
  <2>2. k # 0
    BY <1>1
  <2>3. k \in 1 .. N /\ k - 1 \in 0 .. N /\ ~(k <= k - 1)
    BY <2>2
  <2>4. Upto(k - 1)
    BY <2>1, <2>3
  <2>5. Upto(k)
    BY <1>2, <2>3, <2>4
  <2> QED  BY <2>5
<1>4. Upto(N)
  <2> HIDE DEF Upto
  <2>1. N \in 0 .. N
    OBVIOUS
  <2> QED  BY <1>3, <2>1
<1> QED  BY <1>4 DEF RecursionDefines

-----------------------------------------------------------------------------
(* Sequences of anything.                                                  *)

IsSeq(s) == s \in Seq(ToSet(s))

(* A sequence is a function on the numbers up to its length.               *)
LEMMA SeqParts ==
  ASSUME NEW s, IsSeq(s)
  PROVE  /\ Len(s) \in Nat /\ DOMAIN s = 1 .. Len(s)
         /\ s = [i \in 1 .. Len(s) |-> s[i]]
BY DEF IsSeq

(* And any such function is a sequence.                                    *)
LEMMA SeqMade ==
  ASSUME NEW s, NEW n \in Nat, s = [i \in 1 .. n |-> s[i]]
  PROVE  IsSeq(s) /\ Len(s) = n
<1>1. DOMAIN s = 1 .. n
  OBVIOUS
<1>2. s \in [1 .. n -> ToSet(s)]
  BY <1>1 DEF ToSet
<1>3. s \in Seq(ToSet(s))
  BY <1>2
<1> QED  BY <1>1, <1>3 DEF IsSeq

(* What Append does.                                                       *)
LEMMA AppendParts ==
  ASSUME NEW s, IsSeq(s), NEW e
  PROVE  LET t == Append(s, e) IN
         /\ IsSeq(t) /\ Len(t) = Len(s) + 1 /\ Len(s) \in Nat
         /\ DOMAIN t = 1 .. Len(s) + 1
         /\ t[Len(s) + 1] = e
         /\ \A i \in 1 .. Len(s) : t[i] = s[i]
<1> DEFINE S == ToSet(s) \cup {e}
           t == Append(s, e)
<1>1. s \in Seq(S) /\ e \in S
  BY DEF IsSeq
<1> HIDE DEF S
<1>2. /\ t \in Seq(S) /\ Len(t) = Len(s) + 1 /\ Len(s) \in Nat
      /\ t[Len(s) + 1] = e
      /\ \A i \in 1 .. Len(s) : t[i] = s[i]
  BY <1>1
<1> HIDE DEF t
<1>3. /\ Len(s) + 1 \in Nat /\ DOMAIN t = 1 .. Len(s) + 1
      /\ t = [i \in 1 .. Len(s) + 1 |-> t[i]]
  BY <1>2
<1>4. IsSeq(t)
  BY <1>3, SeqMade
<1> QED  BY <1>2, <1>3, <1>4 DEF t

(* What concatenation does.                                                *)
LEMMA ConcatParts ==
  ASSUME NEW s, IsSeq(s), NEW r, IsSeq(r)
  PROVE  LET t == s \o r IN
         /\ IsSeq(t) /\ Len(t) = Len(s) + Len(r)
         /\ Len(s) \in Nat /\ Len(r) \in Nat
         /\ DOMAIN t = 1 .. Len(s) + Len(r)
         /\ \A i \in 1 .. Len(s) : t[i] = s[i]
         /\ \A i \in 1 .. Len(r) : t[Len(s) + i] = r[i]
<1> DEFINE S == ToSet(s) \cup ToSet(r)
           t == s \o r
<1>1. s \in Seq(S) /\ r \in Seq(S)
  BY DEF IsSeq
<1> HIDE DEF S
<1>2. /\ t \in Seq(S) /\ Len(t) = Len(s) + Len(r)
      /\ Len(s) \in Nat /\ Len(r) \in Nat
      /\ \A i \in 1 .. Len(s) : t[i] = s[i]
      /\ \A i \in 1 .. Len(r) : t[Len(s) + i] = r[i]
  BY <1>1
<1> HIDE DEF t
<1>3. /\ Len(s) + Len(r) \in Nat /\ DOMAIN t = 1 .. Len(s) + Len(r)
      /\ t = [i \in 1 .. Len(s) + Len(r) |-> t[i]]
  BY <1>2
<1>4. IsSeq(t)
  BY <1>3, SeqMade
<1> QED  BY <1>2, <1>3, <1>4 DEF t

(* The same, by name.                                                     *)
Joins(t, s, r) ==
  /\ IsSeq(t) /\ Len(t) = Len(s) + Len(r)
  /\ DOMAIN t = 1 .. Len(s) + Len(r)
  /\ \A i \in 1 .. Len(s) : t[i] = s[i]
  /\ \A i \in 1 .. Len(r) : t[Len(s) + i] = r[i]

(* So does concatenation.                                                  *)
LEMMA ConcatJoins ==
  ASSUME NEW s, IsSeq(s), NEW r, IsSeq(r)
  PROVE  Joins(s \o r, s, r)
<1> DEFINE t == s \o r
<1>1. /\ IsSeq(t) /\ Len(t) = Len(s) + Len(r)
      /\ DOMAIN t = 1 .. Len(s) + Len(r)
      /\ \A i \in 1 .. Len(s) : t[i] = s[i]
      /\ \A i \in 1 .. Len(r) : t[Len(s) + i] = r[i]
  BY ConcatParts
<1> HIDE DEF t
<1> QED  BY <1>1 DEF Joins, t

-----------------------------------------------------------------------------
(* Paths in the tree.                                                      *)

(* The source is the root, and a node is younger than its input.           *)
Tree ==
  /\ IsSeq(nodes) /\ Len(nodes) # 0
  /\ nodes[1].input = 0
  /\ \A n \in 2 .. Len(nodes) : nodes[n].input \in 1 .. n - 1

(* Its nodes are numbered.                                                 *)
LEMMA TreeNodes ==
  ASSUME Tree
  PROVE  Nodes = 1 .. Len(nodes) /\ Len(nodes) \in Nat \ {0} /\ 1 \in Nodes
BY SeqParts DEF Tree, Nodes

(* A node's input is an earlier node, and only the root has none.          *)
LEMMA NodeInput ==
  ASSUME Tree, NEW n \in Nodes
  PROVE  /\ n \in Nat \ {0} /\ nodes[n].input \in 0 .. n - 1
         /\ nodes[n].input # 0 => nodes[n].input \in Nodes
         /\ (nodes[n].input = 0) <=> (n = 1)
<1>1. n \in 1 .. Len(nodes) /\ Len(nodes) \in Nat
  BY TreeNodes
<1>2. CASE n = 1
  BY <1>1, <1>2 DEF Tree
<1>3. CASE n # 1
  <2>1. n \in 2 .. Len(nodes)
    BY <1>1, <1>3
  <2>2. nodes[n].input \in 1 .. n - 1
    BY <2>1 DEF Tree
  <2>3. nodes[n].input \in 1 .. Len(nodes)
    BY <1>1, <2>2
  <2> QED  BY <1>1, <1>3, <2>2, <2>3, TreeNodes
<1> QED  BY <1>2, <1>3

(* What holds of a node whose input it holds of holds of every node.       *)
LEMMA TreeInduction ==
  ASSUME Tree, NEW T,
         \A n \in Nodes : nodes[n].input \in T \cup {0} => n \in T
  PROVE  Nodes \subseteq T
<1> DEFINE U == {n \in Nodes : n \notin T}
<1> SUFFICES ASSUME U # {} PROVE FALSE
  OBVIOUS
<1>1. U \in SUBSET Nat
  BY TreeNodes
<1>2. PICK n \in U : \A m \in U : n <= m
  BY <1>1, LeastNat
<1>3. n \in Nodes /\ n \notin T
  OBVIOUS
<1>4. nodes[n].input \notin U
  <2>1. n \in Nat /\ nodes[n].input \in 0 .. n - 1
    BY <1>3, NodeInput
  <2> HIDE DEF U
  <2> QED  BY <1>2, <2>1
<1>5. nodes[n].input = 0 \/ nodes[n].input \in T
  BY <1>3, <1>4, NodeInput
<1> QED  BY <1>3, <1>5

(* Every node has a path.                                                  *)
LEMMA Paths ==
  ASSUME Tree
  PROVE  /\ Nodes = 1 .. Len(nodes) /\ Len(nodes) \in Nat /\ 1 \in Nodes
         /\ \A n \in Nodes :
              /\ PathTo[n] \in Seq(Nodes)
              /\ PathTo[n] = IF nodes[n].input = 0 THEN <<n>>
                             ELSE Append(PathTo[nodes[n].input], n)
<1>1. Nodes = 1 .. Len(nodes) /\ Len(nodes) \in Nat /\ 1 \in Nodes
  BY TreeNodes
<1> DEFINE N == Len(nodes)
           up == [n \in 1 .. N |-> nodes[n].input]
           V == Seq(1 .. N)
           base == [n \in 1 .. N |-> <<n>>]
           G == [x \in (1 .. N) \X V |-> Append(x[2], x[1])]
           Step(f) == [n \in DOMAIN nodes |->
                         IF nodes[n].input = 0 THEN <<n>>
                         ELSE Append(f[nodes[n].input], n)]
<1>2. up \in [1 .. N -> Nat] /\ \A n \in 1 .. N : up[n] \in 0 .. n - 1
  BY <1>1 DEF Tree
<1>3. base \in [1 .. N -> V] /\ G \in [(1 .. N) \X V -> V]
  OBVIOUS
<1>4. PICK f \in [1 .. N -> V] :
        \A n \in 1 .. N :
          f[n] = IF up[n] = 0 THEN base[n] ELSE G[<<n, f[up[n]]>>]
  <2>1. N \in Nat /\ \A n \in 1 .. N : up[n] < n
    BY <1>1, <1>2
  <2> HIDE DEF N, V, base, G, up
  <2>2. RecursionDefines(N, up, V, base, G)
    BY <1>2, <1>3, <2>1, TreeRecursion
  <2> QED  BY <2>2 DEF RecursionDefines
<1>5. ASSUME NEW n \in 1 .. N
      PROVE  f[n] = IF nodes[n].input = 0 THEN <<n>>
                    ELSE Append(f[nodes[n].input], n)
  <2>1. CASE nodes[n].input = 0
    BY <1>4, <2>1
  <2>2. CASE nodes[n].input # 0
    <3>1. nodes[n].input \in 1 .. N
      BY <1>1, <1>2, <2>2
    <3>2. f[nodes[n].input] \in V
      BY <3>1
    <3>3. f[n] = G[<<n, f[nodes[n].input]>>]
      BY <1>4, <2>2
    <3>4. G[<<n, f[nodes[n].input]>>] = Append(f[nodes[n].input], n)
      BY <3>2
    <3> QED  BY <2>2, <3>3, <3>4
  <2> QED  BY <2>1, <2>2
<1>6. f = Step(f)
  <2> DEFINE g == Step(f)
  <2>1. \A n \in 1 .. N : g[n] = f[n]
    BY <1>1, <1>5 DEF Nodes
  <2>2. g = [n \in 1 .. N |-> g[n]] /\ f = [n \in 1 .. N |-> f[n]]
    BY <1>1 DEF Nodes
  <2> HIDE DEF g
  <2>3. f = g
    BY <2>1, <2>2
  <2> QED  BY <2>3 DEF g
<1>7. PathTo = Step(PathTo)
  BY <1>6 DEF PathTo
<1>8. \A n \in Nodes : PathTo[n] = IF nodes[n].input = 0 THEN <<n>>
                                  ELSE Append(PathTo[nodes[n].input], n)
  <2> DEFINE g == Step(PathTo)
  <2>1. \A n \in Nodes : g[n] = IF nodes[n].input = 0 THEN <<n>>
                                ELSE Append(PathTo[nodes[n].input], n)
    BY DEF Nodes
  <2> HIDE DEF g
  <2>2. PathTo = g
    BY <1>7 DEF g
  <2> QED  BY <2>1, <2>2
<1>9. ASSUME NEW n \in Nodes, nodes[n].input # 0, PathTo[nodes[n].input] \in Seq(Nodes)
      PROVE  PathTo[n] \in Seq(Nodes)
  <2>1. PathTo[n] = Append(PathTo[nodes[n].input], n)
    BY <1>8, <1>9
  <2> DEFINE q == PathTo[nodes[n].input]
  <2> HIDE DEF q
  <2>2. q \in Seq(Nodes)
    BY <1>9 DEF q
  <2>3. Append(q, n) \in Seq(Nodes)
    BY <2>2
  <2> QED  BY <2>1, <2>3 DEF q
<1>10. \A n \in Nodes : PathTo[n] \in Seq(Nodes)
  <2> DEFINE T == {n \in Nodes : PathTo[n] \in Seq(Nodes)}
  <2>1. ASSUME NEW n \in Nodes, nodes[n].input \in T \cup {0}
        PROVE  PathTo[n] \in Seq(Nodes)
    <3>1. CASE nodes[n].input = 0
      <4>1. PathTo[n] = <<n>>
        BY <1>8, <3>1
      <4> QED  BY <4>1
    <3>2. CASE nodes[n].input # 0
      BY <1>9, <2>1, <3>2
    <3> QED  BY <3>1, <3>2
  <2>2. Nodes \subseteq T
    <3>1. \A n \in Nodes : nodes[n].input \in T \cup {0} => n \in T
      BY <2>1
    <3> HIDE DEF T
    <3> QED  BY <3>1, TreeInduction
  <2> QED  BY <2>2
<1> QED  BY <1>1, <1>8, <1>10

(* The nodes on the way to a node, itself included.                        *)
On(n) == ToSet(PathTo[n])

(* A path is that of the input and the node.                               *)
LEMMA PathStep ==
  ASSUME Tree, NEW n \in Nodes
  PROVE  On(n) = {n} \cup (IF nodes[n].input = 0 THEN {} ELSE On(nodes[n].input))
<1>1. CASE nodes[n].input = 0
  <2>1. PathTo[n] = <<n>>
    BY <1>1, Paths
  <2> QED  BY <1>1, <2>1 DEF On, ToSet
<1>2. CASE nodes[n].input # 0
  <2> DEFINE q == PathTo[nodes[n].input]
  <2>1. PathTo[n] = Append(q, n) /\ q \in Seq(Nodes)
    BY <1>2, Paths, NodeInput
  <2> HIDE DEF q
  <2>2. ToSet(Append(q, n)) = ToSet(q) \cup {n}
    <3>1. /\ Len(q) \in Nat /\ DOMAIN q = 1 .. Len(q)
          /\ DOMAIN Append(q, n) = 1 .. Len(q) + 1
          /\ Append(q, n)[Len(q) + 1] = n
          /\ \A i \in 1 .. Len(q) : Append(q, n)[i] = q[i]
      BY <2>1
    <3> HIDE DEF q
    <3>2. \A i \in 1 .. Len(q) + 1 : i = Len(q) + 1 \/ i \in 1 .. Len(q)
      BY <3>1
    <3>3. \A i \in 1 .. Len(q) : i \in 1 .. Len(q) + 1
      BY <3>1
    <3>4. Len(q) + 1 \in 1 .. Len(q) + 1
      BY <3>1
    <3> QED  BY <3>1, <3>2, <3>3, <3>4 DEF ToSet
  <2> QED  BY <1>2, <2>1, <2>2 DEF On, q
<1> QED  BY <1>1, <1>2

(* A path leads up from the root, holds the path of each of its nodes and, *)
(* of each but the last, a child.                                          *)
PathOK(s) ==
  /\ On(s) \subseteq 1 .. s /\ s \in On(s) /\ 1 \in On(s)
  /\ \A e \in On(s) : On(e) \subseteq On(s)
  /\ \A e, n \in On(s) : n <= e => n \in On(e)
  /\ \A e \in On(s) : e # s => \E c \in On(s) : nodes[c].input = e

(* Every path is like this.                                                *)
LEMMA PathsOK ==
  ASSUME Tree
  PROVE  \A s \in Nodes : PathOK(s) /\ On(s) \subseteq Nodes
<1> DEFINE T == {s \in Nodes : PathOK(s)}
<1>1. ASSUME NEW s \in Nodes, nodes[s].input = 0
      PROVE  PathOK(s)
  <2>1. On(s) = {s} /\ s = 1
    BY <1>1, PathStep, NodeInput
  <2> QED  BY <2>1 DEF PathOK
<1>2. ASSUME NEW s \in Nodes, nodes[s].input # 0, PathOK(nodes[s].input)
      PROVE  PathOK(s)
  <2> DEFINE p == nodes[s].input
  <2>1. On(s) = {s} \cup On(p) /\ p \in 1 .. s - 1 /\ s \in Nat
    BY <1>2, PathStep, NodeInput
  <2>2. PathOK(p)
    BY <1>2
  <2> HIDE DEF p
  <2>3. On(s) \subseteq 1 .. s /\ s \in On(s) /\ 1 \in On(s)
    BY <2>1, <2>2 DEF PathOK
  <2>4. \A e \in On(s) : On(e) \subseteq On(s)
    BY <2>1, <2>2 DEF PathOK
  <2>5. ASSUME NEW e \in On(s), NEW n \in On(s), n <= e
        PROVE  n \in On(e)
    <3>1. CASE e = s
      BY <3>1
    <3>2. CASE e # s
      <4>1. e \in On(p) /\ e \in 1 .. p
        BY <2>1, <2>2, <3>2 DEF PathOK
      <4>2. n # s
        BY <2>1, <2>5, <4>1
      <4>3. n \in On(p)
        BY <2>1, <4>2
      <4> QED  BY <2>2, <2>5, <4>1, <4>3 DEF PathOK
    <3> QED  BY <3>1, <3>2
  <2>6. ASSUME NEW e \in On(s), e # s
        PROVE  \E c \in On(s) : nodes[c].input = e
    <3>1. e \in On(p)
      BY <2>1, <2>6
    <3>2. CASE e = p
      BY <2>1, <3>2 DEF p
    <3>3. CASE e # p
      <4>1. \E c \in On(p) : nodes[c].input = e
        BY <2>2, <3>1, <3>3 DEF PathOK
      <4> QED  BY <2>1, <4>1
    <3> QED  BY <3>2, <3>3
  <2> QED  BY <2>3, <2>4, <2>5, <2>6 DEF PathOK
<1>3. Nodes \subseteq T
  <2>1. \A s \in Nodes : nodes[s].input \in T \cup {0} => s \in T
    BY <1>1, <1>2
  <2> HIDE DEF T
  <2> QED  BY <2>1, TreeInduction
<1>4. ASSUME NEW s \in Nodes
      PROVE  On(s) \subseteq Nodes
  <2>1. On(s) \subseteq 1 .. s /\ s \in 1 .. Len(nodes) /\ Len(nodes) \in Nat
    BY <1>3, TreeNodes DEF PathOK
  <2> QED  BY <2>1, TreeNodes
<1> QED  BY <1>3, <1>4

-----------------------------------------------------------------------------
(* Chains: what moving and inserting limits makes of them.                 *)

(* Sequences without or with one element.                                  *)
LEMMA ShortSeqs ==
  /\ IsSeq(<<>>) /\ Len(<<>>) = 0
  /\ \A e : IsSeq(<<e>>) /\ Len(<<e>>) = 1 /\ <<e>>[1] = e
  /\ \A cond, e : IsSeq(If(cond, e))
<1>1. <<>> \in Seq(ToSet(<<>>))
  OBVIOUS
<1>2. ASSUME NEW e
      PROVE  <<e>> \in Seq(ToSet(<<e>>)) /\ Len(<<e>>) = 1 /\ <<e>>[1] = e
  <2>1. e \in ToSet(<<e>>)
    BY DEF ToSet
  <2>2. <<e>> \in Seq({e})
    OBVIOUS
  <2> QED  BY <2>1
<1> QED  BY <1>1, <1>2 DEF IsSeq, If

(* Sequences with the same elements are the same.                          *)
LEMMA SameSeq ==
  ASSUME NEW s, IsSeq(s), NEW t, IsSeq(t), Len(s) = Len(t),
         \A i \in 1 .. Len(s) : s[i] = t[i]
  PROVE  s = t
<1>1. s = [i \in 1 .. Len(s) |-> s[i]] /\ t = [i \in 1 .. Len(t) |-> t[i]]
  BY SeqParts
<1> QED  BY <1>1

(* Concatenation with nothing, and in any order.                           *)
LEMMA ConcatFacts ==
  ASSUME NEW s, IsSeq(s), NEW t, IsSeq(t), NEW u, IsSeq(u)
  PROVE  /\ s \o <<>> = s /\ <<>> \o s = s
         /\ (s \o t) \o u = s \o (t \o u)
<1> DEFINE S == ToSet(s) \cup ToSet(t) \cup ToSet(u)
<1>1. s \in Seq(S) /\ t \in Seq(S) /\ u \in Seq(S)
  BY DEF IsSeq
<1> HIDE DEF S
<1> QED  BY <1>1, ConcatEmptySeq, ConcatAssociative

(* A part of a sequence.                                                   *)
LEMMA SubSeqParts ==
  ASSUME NEW s, NEW m \in Nat \ {0}, NEW n \in Nat, m <= n + 1
  PROVE  LET r == SubSeq(s, m, n) IN
         /\ IsSeq(r) /\ Len(r) = n - m + 1
         /\ \A i \in 1 .. n - m + 1 : r[i] = s[m + i - 1]
<1> DEFINE S == {s[i] : i \in m .. n}
           r == SubSeq(s, m, n)
<1>1. /\ r \in Seq(S)
      /\ Len(r) = IF m <= n THEN n - m + 1 ELSE 0
      /\ \A i \in 1 .. n - m + 1 : r[i] = s[m + i - 1]
  <2>1. \A i \in m .. n : s[i] \in S
    OBVIOUS
  <2> HIDE DEF S
  <2> QED  BY <2>1, SubSeqProperties
<1> HIDE DEF S, r
<1>2. /\ Len(r) = n - m + 1 /\ Len(r) \in Nat
      /\ r = [i \in 1 .. Len(r) |-> r[i]]
  BY <1>1
<1>3. IsSeq(r)
  BY <1>2, SeqMade
<1> QED  BY <1>1, <1>2, <1>3 DEF r

(* An element inserted where one sequence ends and the next begins.        *)
LEMMA InsertBetween ==
  ASSUME NEW s, IsSeq(s), NEW t, IsSeq(t), NEW e
  PROVE  InsertAt(s \o t, Len(s) + 1, e) = s \o <<e>> \o t
<1> DEFINE u == s \o t
           a == SubSeq(u, 1, Len(s))
           b == SubSeq(u, Len(s) + 1, Len(u))
<1>1. /\ Len(s) \in Nat /\ Len(t) \in Nat /\ Len(u) = Len(s) + Len(t)
      /\ \A i \in 1 .. Len(s) : u[i] = s[i]
      /\ \A i \in 1 .. Len(t) : u[Len(s) + i] = t[i]
  BY ConcatParts
<1> HIDE DEF u
<1>2. a = s
  <2>1. /\ IsSeq(a) /\ Len(a) = Len(s)
        /\ \A i \in 1 .. Len(s) : a[i] = u[1 + i - 1]
    BY <1>1, SubSeqParts
  <2> HIDE DEF a
  <2>2. \A i \in 1 .. Len(s) : a[i] = s[i]
    BY <1>1, <2>1
  <2> QED  BY <2>1, <2>2, SameSeq
<1>3. b = t
  <2>1. /\ IsSeq(b) /\ Len(b) = Len(u) - (Len(s) + 1) + 1
        /\ \A i \in 1 .. Len(u) - (Len(s) + 1) + 1 : b[i] = u[Len(s) + 1 + i - 1]
    BY <1>1, SubSeqParts
  <2> HIDE DEF b
  <2>2. Len(b) = Len(t) /\ \A i \in 1 .. Len(t) : b[i] = t[i]
    BY <1>1, <2>1
  <2> QED  BY <2>1, <2>2, SameSeq
<1>4. InsertAt(u, Len(s) + 1, e) = a \o <<e>> \o b
  <2>1. (Len(s) + 1) - 1 = Len(s)
    BY <1>1
  <2> QED  BY <2>1 DEF InsertAt
<1> QED  BY <1>2, <1>3, <1>4 DEF u

(* Without its first element a sequence is the rest.                       *)
LEMMA TailOfConcat ==
  ASSUME NEW e, NEW s, IsSeq(s)
  PROVE  /\ Head(<<e>> \o s) = e /\ Tail(<<e>> \o s) = s /\ <<e>> \o s # <<>>
         /\ \A x : ReplaceAt(<<e>> \o s, 1, x) = <<x>> \o s
<1> DEFINE u == <<e>> \o s
<1>1. /\ IsSeq(u) /\ Len(u) = 1 + Len(s) /\ Len(s) \in Nat /\ u[1] = e
      /\ DOMAIN u = 1 .. 1 + Len(s)
      /\ \A i \in 1 .. Len(s) : u[1 + i] = s[i]
  BY ShortSeqs, ConcatParts
<1> HIDE DEF u
<1>3. u # <<>> /\ Head(u) = e
  BY <1>1, ShortSeqs DEF IsSeq
<1>4. Tail(u) = s
  <2>1. Tail(u) \in Seq(ToSet(u)) /\ Len(Tail(u)) = Len(s)
        /\ \A i \in 1 .. Len(s) : Tail(u)[i] = u[i + 1]
    BY <1>1, <1>3 DEF IsSeq
  <2> DEFINE r == Tail(u)
             R == ToSet(u)
  <2>a. r \in Seq(R) /\ Len(r) = Len(s) /\ \A i \in 1 .. Len(s) : r[i] = u[i + 1]
    BY <2>1
  <2> HIDE DEF r, R
  <2>2. r = [i \in 1 .. Len(s) |-> r[i]] /\ \A i \in 1 .. Len(s) : r[i] = s[i]
    BY <1>1, <2>a
  <2>3. IsSeq(r) /\ Len(r) = Len(s)
    BY <1>1, <2>2, SeqMade
  <2> QED  BY <2>2, <2>3, SameSeq DEF r
<1>5. ASSUME NEW x
      PROVE  ReplaceAt(u, 1, x) = <<x>> \o s
  <2> DEFINE v == <<x>> \o s
             w == [u EXCEPT ![1] = x]
  <2>1. /\ IsSeq(v) /\ Len(v) = 1 + Len(s) /\ v[1] = x
        /\ \A i \in 1 .. Len(s) : v[1 + i] = s[i]
    BY ShortSeqs, ConcatParts
  <2> HIDE DEF v
  <2>2. /\ 1 + Len(s) \in Nat /\ w = [i \in 1 .. 1 + Len(s) |-> w[i]]
        /\ w[1] = x /\ \A i \in 1 .. 1 + Len(s) : i # 1 => w[i] = u[i]
    <3>1. u = [i \in 1 .. 1 + Len(s) |-> u[i]] /\ 1 \in 1 .. 1 + Len(s)
      BY <1>1, SeqParts
    <3>2. w = [i \in 1 .. 1 + Len(s) |-> IF i = 1 THEN x ELSE u[i]]
      BY <1>1, <3>1
    <3>3. 1 + Len(s) \in Nat
      BY <1>1
    <3> HIDE DEF w
    <3> QED  BY <3>1, <3>2, <3>3
  <2> HIDE DEF w
  <2>3. IsSeq(w) /\ Len(w) = 1 + Len(s)
    BY <2>2, SeqMade
  <2>4. \A i \in 1 .. 1 + Len(s) : i = 1 \/ (i - 1 \in 1 .. Len(s) /\ 1 + (i - 1) = i)
    BY <1>1
  <2>5. \A i \in 1 .. 1 + Len(s) : w[i] = v[i]
    BY <1>1, <2>1, <2>2, <2>4
  <2>6. w = v
    BY <2>1, <2>3, <2>5, SameSeq
  <2> QED  BY <2>6 DEF v, w, ReplaceAt
<1> QED  BY <1>3, <1>4, <1>5 DEF u

(* A least number of a set is its minimum.                                 *)
LEMMA LeastIsMin ==
  ASSUME NEW S \in SUBSET Nat, NEW x \in S, \A y \in S : x <= y
  PROVE  Min(S) = x
<1>1. Min(S) \in S /\ \A y \in S : Min(S) <= y
  BY DEF Min
<1>2. \A m \in Nat : m \in S /\ (\A y \in S : m <= y) => m = x
  OBVIOUS
<1> QED  BY <1>1, <1>2

(* The scale of a chain is where the elements before it end.               *)
LEMMA ScaleFound ==
  ASSUME NEW s, IsSeq(s), \A i \in 1 .. Len(s) : s[i].type # "Scale",
         NEW e, e.type = "Scale", NEW t, IsSeq(t)
  PROVE  /\ ScaleIndex(s \o <<e>> \o t) = Len(s) + 1
         /\ (s \o <<e>> \o t)[Len(s) + 1] = e
         /\ Len(s) \in Nat
<1> DEFINE v == s \o <<e>>
           u == v \o t
<1>1. /\ IsSeq(v) /\ Len(v) = Len(s) + 1 /\ Len(s) \in Nat
      /\ \A i \in 1 .. Len(s) : v[i] = s[i]
      /\ v[Len(s) + 1] = e
  BY ShortSeqs, ConcatParts
<1> HIDE DEF v
<1>2. /\ IsSeq(u) /\ Len(u) = Len(s) + 1 + Len(t) /\ Len(t) \in Nat
      /\ \A i \in 1 .. Len(s) : u[i] = s[i]
      /\ u[Len(s) + 1] = e
  <2>1. /\ IsSeq(u) /\ Len(u) = Len(v) + Len(t) /\ Len(t) \in Nat
        /\ \A i \in 1 .. Len(v) : u[i] = v[i]
    BY ZenonT(30), <1>1, ConcatParts
  <2> HIDE DEF u
  <2>2. Len(s) + 1 \in 1 .. Len(v) /\ \A i \in 1 .. Len(s) : i \in 1 .. Len(v)
    BY <1>1
  <2> QED  BY <1>1, <2>1, <2>2
<1> HIDE DEF u
<1> DEFINE I == {i \in 1 .. Len(u) : u[i].type = "Scale"}
<1>3. Len(s) + 1 \in I /\ \A i \in I : Len(s) + 1 <= i
  BY <1>1, <1>2
<1>4. I \subseteq Nat
  OBVIOUS
<1>5. ScaleIndex(u) = Min(I)
  BY <1>3 DEF ScaleIndex, SelectInSeq
<1> HIDE DEF I
<1>6. Min(I) = Len(s) + 1
  BY <1>3, <1>4, LeastIsMin
<1> QED  BY <1>1, <1>2, <1>5, <1>6 DEF u, v

(* And 0 if it has none.                                                   *)
LEMMA NoScaleFound ==
  ASSUME NEW s, \A i \in 1 .. Len(s) : s[i].type # "Scale"
  PROVE  ScaleIndex(s) = 0
BY DEF ScaleIndex, SelectInSeq

-----------------------------------------------------------------------------
(* The greedy grouping of framerates.                                      *)

(* A finite set of numbers has a greatest one.                             *)
LEMMA GreatestNat ==
  ASSUME NEW S \in SUBSET Nat, IsFiniteSet(S), S # {}
  PROVE  \E x \in S : \A y \in S : y <= x
<1> DEFINE HasGreatest(T) == \E x \in T : \A y \in T : y <= x
           Bad == {T \in SUBSET S : T # {} /\ ~HasGreatest(T)}
           Cards == {Cardinality(T) : T \in Bad}
<1> SUFFICES ASSUME Bad # {} PROVE FALSE
  OBVIOUS
<1>1. \A T \in SUBSET S : IsFiniteSet(T) /\ Cardinality(T) \in Nat
  BY FS_Subset, FS_CardinalityType
<1>2. Cards \in SUBSET Nat /\ Cards # {}
  <2> HIDE DEF HasGreatest
  <2> QED  BY <1>1
<1>3. PICK c \in Cards : \A d \in Cards : c <= d
  <2> HIDE DEF Cards
  <2> QED  BY <1>2, LeastNat
<1>4. PICK T \in Bad : Cardinality(T) = c
  <2> HIDE DEF HasGreatest
  <2> QED  OBVIOUS
<1>5. T \in SUBSET S /\ T # {} /\ ~HasGreatest(T) /\ T \subseteq Nat
  <2> HIDE DEF HasGreatest
  <2> QED  OBVIOUS
<1>6. PICK x \in T : TRUE
  BY <1>5
<1> DEFINE U == T \ {x}
<1>7. U \in SUBSET S /\ Cardinality(U) = Cardinality(T) - 1
  BY <1>1, <1>5, FS_RemoveElement
<1>8. HasGreatest(U) \/ U = {}
  <2> HIDE DEF HasGreatest, U
  <2> SUFFICES ASSUME ~HasGreatest(U), U # {} PROVE FALSE
    OBVIOUS
  <2>1. U \in Bad
    BY <1>7
  <2>2. Cardinality(U) \in Cards
    BY <2>1
  <2>3. Cardinality(T) \in Nat /\ c <= Cardinality(U)
    BY <1>1, <1>3, <1>5, <2>2
  <2> QED  BY <1>4, <1>7, <2>3
<1>9. CASE U = {}
  <2>1. \A y \in T : y = x
    BY <1>9
  <2>2. x \in T /\ x \in Nat
    BY <1>5, <1>6
  <2> QED  BY <1>5, <2>1, <2>2
<1>10. CASE HasGreatest(U)
  <2>1. PICK m \in U : \A y \in U : y <= m
    BY <1>10
  <2>2. m \in T /\ x \in T /\ m \in Nat /\ x \in Nat /\ \A y \in T : y = x \/ y \in U
    BY <1>5, <2>1
  <2>3. CASE m <= x
    BY <1>5, <2>1, <2>2, <2>3
  <2>4. CASE x <= m
    BY <1>5, <2>1, <2>2, <2>4
  <2> QED  BY <2>2, <2>3, <2>4
<1> QED  BY <1>8, <1>9, <1>10

(* What is the multiple of a multiple, and of itself.                      *)
LEMMA Multiples ==
  ASSUME NEW r \in Nat \ {0}
  PROVE  /\ IsMultiple(r, r)
         /\ \A s \in Nat \ {0} : IsMultiple(s, r) => s >= r
         /\ \A s, t \in Nat \ {0} :
              IsMultiple(s, r) /\ IsMultiple(t, s) => IsMultiple(t, r)
<1>1. IsMultiple(r, r)
  BY DEF IsMultiple
<1>2. ASSUME NEW s \in Nat \ {0}, IsMultiple(s, r)
      PROVE  s >= r
  <2>1. s < r => s % r = s
    OBVIOUS
  <2> QED  BY <1>2, <2>1 DEF IsMultiple
<1>3. ASSUME NEW s \in Nat \ {0}, NEW t \in Nat \ {0},
             IsMultiple(s, r), IsMultiple(t, s)
      PROVE  IsMultiple(t, r)
  <2>1. PICK a \in Nat : s = r * a
    <3>1. s \div r \in Nat /\ s = r * (s \div r) + (s % r)
      OBVIOUS
    <3>2. s % r = 0
      BY <1>3 DEF IsMultiple
    <3>3. s = r * (s \div r)
      BY <3>1, <3>2
    <3> QED  BY <3>1, <3>3
  <2>2. PICK b \in Nat : t = s * b
    <3>1. t \div s \in Nat /\ t = s * (t \div s) + (t % s)
      OBVIOUS
    <3>2. t % s = 0
      BY <1>3 DEF IsMultiple
    <3>3. t = s * (t \div s)
      BY <3>1, <3>2
    <3> QED  BY <3>1, <3>3
  <2>3. t = r * (a * b) /\ a * b \in Nat
    BY <2>1, <2>2
  <2> DEFINE k == a * b
  <2> HIDE DEF k
  <2>4. t = r * k /\ k \in Nat
    BY <2>3 DEF k
  <2>5. t % r = 0
    BY <2>4
  <2> QED  BY <2>5 DEF IsMultiple
<1> QED  BY <1>1, <1>2, <1>3

(* The rates no higher one is a multiple of.                               *)
Top(rates) ==
  {r \in rates : ~ \E s \in rates : s > r /\ IsMultiple(s, r)}

(* If there is a higher multiple, there is one of these.                   *)
LEMMA TopIsEnough ==
  ASSUME NEW rates \in SUBSET (Nat \ {0}), IsFiniteSet(rates), NEW r \in rates
  PROVE  r \notin Top(rates) => \E l \in Top(rates) : l > r /\ IsMultiple(l, r)
<1> SUFFICES ASSUME r \notin Top(rates)
             PROVE  \E l \in Top(rates) : l > r /\ IsMultiple(l, r)
  OBVIOUS
<1> DEFINE S == {s \in rates : s > r /\ IsMultiple(s, r)}
<1>1. S # {} /\ S \in SUBSET Nat /\ IsFiniteSet(S)
  BY FS_Subset DEF Top
<1>2. PICK l \in S : \A s \in S : s <= l
  <2> HIDE DEF S
  <2> QED  BY <1>1, GreatestNat
<1>3. l \in rates /\ l > r /\ IsMultiple(l, r) /\ l \in Nat \ {0} /\ r \in Nat \ {0}
  OBVIOUS
<1>4. ASSUME NEW t \in rates, t > l, IsMultiple(t, l)
      PROVE  FALSE
  <2>1. t \in Nat \ {0} /\ t > r
    BY <1>3, <1>4
  <2>2. IsMultiple(t, r)
    BY <1>3, <1>4, <2>1, Multiples
  <2>3. t <= l
    BY <1>2, <2>1, <2>2
  <2> QED  BY <1>3, <1>4, <2>1, <2>3
<1>5. l \in Top(rates)
  BY <1>3, <1>4 DEF Top
<1> QED  BY <1>3, <1>5

(* The leaders are these rates, and a rate is led by a multiple of it.     *)
LEMMA LeaderParts ==
  ASSUME NEW rates \in SUBSET (Nat \ {0}), IsFiniteSet(rates), NEW rate \in rates
  PROVE  /\ Leader(rates, rate) \in Top(rates)
         /\ Leader(rates, rate) \in Nat \ {0}
         /\ IsMultiple(Leader(rates, rate), rate)
         /\ Leader(rates, rate) >= rate
         /\ rate \in Top(rates) => Leader(rates, rate) = rate
<1> DEFINE Led(f, r) == \E l \in rates : l > r /\ f[l] /\ IsMultiple(l, r)
           Rec(f) == [r \in rates |-> ~Led(f, r)]
           top == [r \in rates |-> r \in Top(rates)]
           leads == CHOOSE f : f = Rec(f)
           Candidates == {l \in rates : leads[l] /\ IsMultiple(l, rate)}
<1>1. Leader(rates, rate) = Max(Candidates)
  BY DEF Leader
<1>2. \A r \in rates : r \in Top(rates) <=> ~Led(top, r)
  <2>1. ASSUME NEW r \in rates
        PROVE  r \in Top(rates) <=> ~Led(top, r)
    <3>1. \A l \in rates : top[l] <=> l \in Top(rates)
      OBVIOUS
    <3>2. Led(top, r) <=> \E l \in Top(rates) : l > r /\ IsMultiple(l, r)
      BY <3>1 DEF Top
    <3>3. r \in Top(rates) => ~ \E l \in Top(rates) : l > r /\ IsMultiple(l, r)
      BY DEF Top
    <3> QED  BY <3>2, <3>3, TopIsEnough
  <2> QED  BY <2>1
<1>3. top = Rec(top)
  <2> HIDE DEF Led
  <2> QED  BY <1>2
<1>4. leads = Rec(leads)
  BY <1>3
<1>5. \A r \in rates : leads[r] <=> r \in Top(rates)
  <2> DEFINE D == {r \in rates : ~(leads[r] <=> r \in Top(rates))}
  <2> SUFFICES ASSUME D # {} PROVE FALSE
    OBVIOUS
  <2>1. D \in SUBSET Nat /\ IsFiniteSet(D)
    BY FS_Subset
  <2>2. PICK m \in D : \A r \in D : r <= m
    <3> HIDE DEF D
    <3> QED  BY <2>1, GreatestNat
  <2>3. m \in rates /\ m \in Nat
    OBVIOUS
  <2>4. \A l \in rates : l > m => (leads[l] <=> l \in Top(rates))
    <3>1. \A l \in rates : l > m => l \in Nat /\ ~(l <= m)
      BY <2>3
    <3> HIDE DEF leads
    <3> QED  BY <2>2, <3>1
  <2>5. Led(leads, m) <=> Led(top, m)
    <3> HIDE DEF leads
    <3> QED  BY <2>4
  <2>6. leads[m] <=> ~Led(leads, m)
    <3> HIDE DEF leads, Led
    <3> QED  BY <1>4, <2>3
  <2> HIDE DEF leads, Led, top
  <2> QED  BY <1>2, <2>3, <2>5, <2>6
<1>6. Candidates = {l \in Top(rates) : IsMultiple(l, rate)}
  <2> HIDE DEF leads
  <2> QED  BY <1>5 DEF Top
<1>7. Candidates # {} /\ Candidates \in SUBSET Nat /\ IsFiniteSet(Candidates)
  <2>1. Candidates # {}
    <3> HIDE DEF Candidates
    <3> QED  BY <1>6, TopIsEnough, Multiples
  <2>2. Candidates \in SUBSET rates
    <3> HIDE DEF leads
    <3> QED  OBVIOUS
  <2> HIDE DEF Candidates
  <2> QED  BY <2>1, <2>2, FS_Subset
<1> HIDE DEF Candidates
<1>8. Max(Candidates) \in Candidates
  <2>1. \E x \in Candidates : \A y \in Candidates : y <= x
    BY <1>7, GreatestNat
  <2>2. \E x \in Candidates : \A y \in Candidates : x >= y
    BY <1>7, <2>1
  <2> QED  BY <2>2 DEF Max
<1>9. /\ Leader(rates, rate) \in Top(rates) /\ Leader(rates, rate) \in rates
      /\ IsMultiple(Leader(rates, rate), rate)
  BY <1>1, <1>6, <1>8 DEF Top
<1> DEFINE leader == Leader(rates, rate)
<1> HIDE DEF leader
<1>10. leader \in Top(rates) /\ leader \in Nat \ {0} /\ IsMultiple(leader, rate)
       /\ rate \in Nat \ {0} /\ leader \in rates
  BY <1>9 DEF leader
<1>11. leader >= rate
  BY <1>10, Multiples
<1>12. rate \in Top(rates) => leader = rate
  <2>1. rate \in Top(rates) => ~(leader > rate)
    BY <1>10 DEF Top
  <2> QED  BY <1>10, <1>11, <2>1
<1> QED  BY <1>10, <1>11, <1>12 DEF leader

-----------------------------------------------------------------------------
(* The chain of an output, as computed and as optimized.                   *)

Passthrough(c) == ~NeedsScale(c) /\ ~NeedsFramerate(c) /\ input \in c.formats

Limiting(c) == If(NeedsFramerate(c), FramerateLimit(c.framerate))
Decoding(c) == If(NeedsDecode(c), Decoder(input))
Scaling(c)  == If(NeedsScale(c), Scale(c.size))
Encoding(c) == If(NeedsEncode(c), Encoder(EncoderKey(c)))

(* The rates of the outputs of a size.                                     *)
Rates(size) == {outputs[i].framerate : i \in {j \in Indices : outputs[j].size = size}}

(* The limits before and after the scale.                                  *)
LeaderOf(c) == Leader(Rates(c.size), c.framerate)

Before(c) ==
  IF ~NeedsScale(c) THEN Limiting(c)
  ELSE If(0 \notin Rates(c.size), FramerateLimit(LeaderOf(c)))

After(c) ==
  If(/\ NeedsScale(c) /\ NeedsFramerate(c)
     /\ 0 \in Rates(c.size) \/ c.framerate < LeaderOf(c),
     FramerateLimit(c.framerate))

PlannedChain(c) ==
  IF Passthrough(c) THEN <<>>
  ELSE Before(c) \o Decoding(c) \o Scaling(c) \o After(c) \o Encoding(c)

(* No element of a sequence is a scale.                                    *)
Unscaled(s) == IsSeq(s) /\ \A i \in 1 .. Len(s) : s[i].type # "Scale"

(* Limits, decoders and encoders are not scales.                           *)
LEMMA UnscaledParts ==
  /\ \A c : Unscaled(Limiting(c)) /\ Unscaled(Decoding(c)) /\ Unscaled(Encoding(c))
  /\ \A rate : Unscaled(<<FramerateLimit(rate)>>)
  /\ \A s, t : Unscaled(s) /\ Unscaled(t) => Unscaled(s \o t)
<1>1. ASSUME NEW e, e.type # "Scale", NEW cond
      PROVE  Unscaled(<<e>>) /\ Unscaled(If(cond, e))
  <2>1. Unscaled(<<e>>)
    BY <1>1, ShortSeqs DEF Unscaled
  <2>2. Unscaled(<<>>)
    BY ShortSeqs DEF Unscaled
  <2> QED  BY <2>1, <2>2 DEF If
<1>2. ASSUME NEW s, NEW t, Unscaled(s), Unscaled(t)
      PROVE  Unscaled(s \o t)
  <2> DEFINE u == s \o t
  <2>1. /\ IsSeq(u) /\ Len(u) = Len(s) + Len(t) /\ Len(s) \in Nat /\ Len(t) \in Nat
        /\ \A i \in 1 .. Len(s) : u[i] = s[i]
        /\ \A i \in 1 .. Len(t) : u[Len(s) + i] = t[i]
    BY <1>2, ConcatParts DEF Unscaled
  <2> HIDE DEF u
  <2>2. ASSUME NEW i \in 1 .. Len(u)
        PROVE  u[i].type # "Scale"
    <3>1. CASE i \in 1 .. Len(s)
      BY <1>2, <2>1, <3>1 DEF Unscaled
    <3>2. CASE i \notin 1 .. Len(s)
      <4>1. i - Len(s) \in 1 .. Len(t) /\ i = Len(s) + (i - Len(s))
        BY <2>1, <3>2
      <4> QED  BY <1>2, <2>1, <4>1 DEF Unscaled
    <3> QED  BY <3>1, <3>2
  <2> QED  BY <2>1, <2>2 DEF Unscaled, u
<1>3. /\ \A rate : FramerateLimit(rate).type # "Scale"
      /\ \A f : Decoder(f).type # "Scale" /\ \A k : Encoder(k).type # "Scale"
  BY DEF FramerateLimit, Decoder, Encoder
<1> QED  BY <1>1, <1>2, <1>3 DEF Limiting, Decoding, Encoding

(* A scaling output's chain: where its scale is, and what it begins with.  *)
LEMMA ScalingChain ==
  ASSUME NEW c, NeedsScale(c)
  PROVE  /\ Chain(c) = Limiting(c) \o Decoding(c) \o <<Scale(c.size)>> \o Encoding(c)
         /\ ScaleIndex(Chain(c)) = Len(Limiting(c) \o Decoding(c)) + 1
         /\ ScaleIndex(Chain(c)) > 0
         /\ Chain(c)[ScaleIndex(Chain(c))] = Scale(c.size)
         /\ Limited(Chain(c)) <=> NeedsFramerate(c)
         /\ NeedsFramerate(c) => Head(Chain(c)) = FramerateLimit(c.framerate)
<1> DEFINE s == Limiting(c) \o Decoding(c)
           e == Scale(c.size)
           t == Encoding(c)
<1>1. Chain(c) = s \o <<e>> \o t
  BY DEF Chain, Limiting, Decoding, Encoding, If
<1>2. Unscaled(s) /\ IsSeq(t) /\ e.type = "Scale" /\ IsSeq(<<e>>)
  BY UnscaledParts, ShortSeqs DEF Unscaled, Scale
<1>3. /\ ScaleIndex(Chain(c)) = Len(s) + 1 /\ Chain(c)[Len(s) + 1] = e
      /\ Len(s) \in Nat
  <2> HIDE DEF s, e, t
  <2> QED  BY <1>1, <1>2, ScaleFound DEF Unscaled
<1>4. ASSUME NEW x, NEW r, IsSeq(r), Chain(c) = <<x>> \o r
      PROVE  Limited(Chain(c)) <=> x.type = "FramerateLimit"
  <2>1. Chain(c) # <<>> /\ Head(Chain(c)) = x
    BY <1>4, TailOfConcat
  <2> QED  BY <2>1 DEF Limited
<1>5. IsSeq(Decoding(c)) /\ IsSeq(<<e>> \o t)
  BY <1>2, UnscaledParts, ConcatParts DEF Unscaled
<1>6. ASSUME NeedsFramerate(c)
      PROVE  Limited(Chain(c)) /\ Head(Chain(c)) = FramerateLimit(c.framerate)
  <2> DEFINE x == FramerateLimit(c.framerate)
             r == Decoding(c) \o <<e>> \o t
  <2>1. Limiting(c) = <<x>> /\ IsSeq(<<x>>)
    BY <1>6, ShortSeqs DEF Limiting, If
  <2>2. IsSeq(Decoding(c) \o <<e>>) /\ IsSeq(r)
    BY <1>2, <1>5, ConcatParts
  <2> HIDE DEF x, e, t
  <2>3. Chain(c) = <<x>> \o r
    BY SMTT(30), <1>1, <1>2, <1>5, <2>1, <2>2, ConcatFacts
  <2>4. Head(Chain(c)) = x /\ x.type = "FramerateLimit"
    BY <2>2, <2>3, TailOfConcat DEF x, FramerateLimit
  <2> QED  BY <1>4, <2>2, <2>3, <2>4 DEF x
<1>7. ASSUME ~NeedsFramerate(c)
      PROVE  ~Limited(Chain(c))
  <2>1. Limiting(c) = <<>> /\ s = Decoding(c)
    BY <1>5, <1>7, ConcatFacts DEF Limiting, If
  <2>2. ~Limited(Chain(c))
    <3>1. CASE NeedsDecode(c)
      <4>1. Decoding(c) = <<Decoder(input)>> /\ IsSeq(<<Decoder(input)>>)
        BY <3>1, ShortSeqs DEF Decoding, If
      <4> HIDE DEF e, t
      <4>2. Chain(c) = <<Decoder(input)>> \o (<<e>> \o t)
        BY <1>1, <1>2, <2>1, <4>1, ConcatFacts
      <4>3. Decoder(input).type # "FramerateLimit"
        BY DEF Decoder
      <4> QED  BY <1>4, <1>5, <4>2, <4>3
    <3>2. CASE ~NeedsDecode(c)
      <4>1. Decoding(c) = <<>>
        BY <3>2 DEF Decoding, If
      <4> HIDE DEF e, t
      <4>2. Chain(c) = <<e>> \o t
        BY <1>1, <1>2, <2>1, <4>1, ConcatFacts
      <4>3. e.type # "FramerateLimit"
        BY <1>2
      <4> QED  BY <1>2, <1>4, <4>2, <4>3
    <3> QED  BY <3>1, <3>2
  <2> QED  BY <2>2
<1>8. /\ ScaleIndex(Chain(c)) = Len(s) + 1 /\ ScaleIndex(Chain(c)) > 0
      /\ Chain(c)[ScaleIndex(Chain(c))] = e
  BY <1>3
<1> QED  BY <1>1, <1>6, <1>7, <1>8

(* And the chain of one that does not scale.                               *)
LEMMA UnscalingChain ==
  ASSUME NEW c, ~NeedsScale(c)
  PROVE  /\ ScaleIndex(Chain(c)) = 0
         /\ ~Passthrough(c) =>
              Chain(c) = Limiting(c) \o Decoding(c) \o Encoding(c)
<1>1. Unscaled(<<>>)
  BY ShortSeqs DEF Unscaled
<1>2. /\ ~Passthrough(c) =>
           Chain(c) = Limiting(c) \o Decoding(c) \o <<>> \o Encoding(c)
      /\ Passthrough(c) => Chain(c) = <<>>
  BY DEF Chain, Passthrough, Limiting, Decoding, Encoding, If
<1>3. /\ Unscaled(Limiting(c) \o Decoding(c))
      /\ Unscaled(Limiting(c) \o Decoding(c) \o Encoding(c))
  BY UnscaledParts
<1>4. Limiting(c) \o Decoding(c) \o <<>> = Limiting(c) \o Decoding(c)
  BY <1>3, ConcatFacts DEF Unscaled
<1>5. Unscaled(Chain(c))
  BY <1>1, <1>2, <1>3, <1>4
<1> QED  BY <1>2, <1>4, <1>5, NoScaleFound DEF Unscaled

(* The limit moves behind the scale.                                       *)
LimitMoves(fl, d, sc, e) ==
  LimitAfterScale(<<fl>> \o d \o <<sc>> \o e) = d \o <<sc>> \o <<fl>> \o e

(* And so LimitAfterScale moves it.                                        *)
LEMMA LimitAfterScaleIs ==
  ASSUME NEW fl, fl.type # "Scale", NEW d, Unscaled(d),
         NEW sc, sc.type = "Scale", NEW e, IsSeq(e)
  PROVE  LimitMoves(fl, d, sc, e)
<1> DEFINE chain == <<fl>> \o d \o <<sc>> \o e
           rest == d \o <<sc>>
<1>1. /\ IsSeq(<<fl>>) /\ Len(<<fl>>) = 1 /\ IsSeq(<<sc>>) /\ Len(<<sc>>) = 1
      /\ IsSeq(d) /\ Len(d) \in Nat
  BY ShortSeqs, SeqParts DEF Unscaled
<1>2. IsSeq(rest) /\ Len(rest) = Len(d) + 1 /\ IsSeq(rest \o e)
  BY <1>1, ConcatParts
<1>3. chain = <<fl>> \o (rest \o e)
  <2>1. <<fl>> \o d \o <<sc>> = <<fl>> \o rest
    BY <1>1, ConcatFacts
  <2>2. chain = (<<fl>> \o rest) \o e
    BY <2>1
  <2>3. IsSeq(<<fl>>) /\ IsSeq(rest)
    BY <1>1, <1>2
  <2> HIDE DEF rest, chain
  <2>4. (<<fl>> \o rest) \o e = <<fl>> \o (rest \o e)
    BY <2>3, ConcatFacts
  <2> QED  BY <2>2, <2>4
<1>4. Head(chain) = fl /\ Tail(chain) = rest \o e
  <2> HIDE DEF rest, chain
  <2> QED  BY <1>2, <1>3, TailOfConcat
<1>5. ScaleIndex(chain) = Len(rest) + 1
  <2>1. Unscaled(<<fl>> \o d) /\ Len(<<fl>> \o d) = 1 + Len(d)
    <3>1. Unscaled(<<fl>>)
      BY ShortSeqs DEF Unscaled
    <3> QED  BY <1>1, <3>1, UnscaledParts, ConcatParts
  <2>2. ScaleIndex(chain) = Len(<<fl>> \o d) + 1
    BY <2>1, ScaleFound DEF Unscaled
  <2> QED  BY <1>1, <1>2, <2>1, <2>2
<1>6. InsertAt(rest \o e, Len(rest) + 1, fl) = rest \o <<fl>> \o e
  BY <1>2, InsertBetween
<1> QED  BY <1>4, <1>5, <1>6 DEF LimitAfterScale, LimitMoves

(* The leader's limit is before the scale, the chain's own after it.       *)
LeaderLimits(leader, fl, d, sc, e) ==
  LedBy(leader, <<fl>> \o d \o <<sc>> \o e) =
    <<FramerateLimit(leader)>> \o d \o <<sc>> \o If(fl.config < leader, fl) \o e

(* And so LedBy arranges them.                                             *)
LEMMA LedByIs ==
  ASSUME NEW fl, NEW leader, NEW d, Unscaled(d),
         NEW sc, sc.type = "Scale", NEW e, IsSeq(e)
  PROVE  LeaderLimits(leader, fl, d, sc, e)
<1> DEFINE chain == <<fl>> \o d \o <<sc>> \o e
           led == ReplaceAt(chain, 1, FramerateLimit(leader))
           x == FramerateLimit(leader)
           front == <<x>> \o d
           upto == front \o <<sc>>
<1>1. \A y : IsSeq(<<y>>) /\ Len(<<y>>) = 1
  BY ShortSeqs
<1>2. IsSeq(d) /\ Unscaled(<<x>>)
  BY UnscaledParts DEF Unscaled
<1>3. IsSeq(d \o <<sc>>) /\ IsSeq(d \o <<sc>> \o e)
  BY <1>1, <1>2, ConcatParts
<1>4. \A y : <<y>> \o d \o <<sc>> \o e = <<y>> \o (d \o <<sc>> \o e)
  <2> TAKE y
  <2> DEFINE ds == d \o <<sc>>
  <2>1. <<y>> \o d \o <<sc>> = <<y>> \o ds
    BY <1>1, <1>2, ConcatFacts
  <2>2. IsSeq(ds)
    BY <1>3
  <2> HIDE DEF ds
  <2>3. (<<y>> \o ds) \o e = <<y>> \o (ds \o e)
    BY <1>1, <2>2, ConcatFacts
  <2> QED  BY <2>1, <2>3 DEF ds
<1>5. Head(chain) = fl /\ led = <<x>> \o d \o <<sc>> \o e
  <2> DEFINE r == d \o <<sc>> \o e
  <2>1. chain = <<fl>> \o r /\ IsSeq(r)
    BY <1>3, <1>4
  <2> HIDE DEF r, chain, x
  <2>2. Head(chain) = fl /\ ReplaceAt(chain, 1, x) = <<x>> \o r
    BY ZenonT(30), <2>1, TailOfConcat
  <2> QED  BY <1>4, <2>2 DEF r, x
<1>6. Unscaled(front)
  BY <1>2, UnscaledParts
<1>7. ScaleIndex(led) = Len(front) + 1
  <2>1. led = front \o <<sc>> \o e
    BY <1>5
  <2> HIDE DEF led, front
  <2>2. ScaleIndex(front \o <<sc>> \o e) = Len(front) + 1
    BY <1>6, ScaleFound DEF Unscaled
  <2> QED  BY <2>1, <2>2
<1>8. IsSeq(upto) /\ Len(upto) = Len(front) + 1
  BY <1>1, <1>6, ConcatParts DEF Unscaled
<1>9. InsertAt(led, ScaleIndex(led) + 1, fl) = upto \o <<fl>> \o e
  <2> HIDE DEF upto, front
  <2>1. InsertAt(upto \o e, Len(upto) + 1, fl) = upto \o <<fl>> \o e
    BY <1>8, InsertBetween
  <2>2. led = upto \o e
    BY <1>5 DEF upto, front
  <2> HIDE DEF led
  <2> QED  BY <1>7, <1>8, <2>1, <2>2
<1>10. LedBy(leader, chain) = IF fl.config < leader THEN upto \o <<fl>> \o e ELSE led
  BY <1>5, <1>9 DEF LedBy
<1>11. upto \o <<>> = upto
  <2> HIDE DEF upto
  <2> QED  BY <1>8, ConcatFacts
<1>12. CASE fl.config < leader
  BY <1>10, <1>12 DEF If, LeaderLimits
<1>13. CASE ~(fl.config < leader)
  <2>1. If(fl.config < leader, fl) = <<>>
    BY <1>13 DEF If
  <2>2. LedBy(leader, chain) = upto \o e
    BY <1>5, <1>10, <1>13
  <2> QED  BY <1>11, <2>1, <2>2 DEF LeaderLimits
<1> QED  BY <1>12, <1>13

(* The outputs are numbered, and the rates of a size finitely many.        *)
LEMMA OutputFacts ==
  ASSUME outputs \in OutputLists
  PROVE  /\ Len(outputs) \in Nat /\ Indices = 1 .. Len(outputs)
         /\ IsFiniteSet(Indices)
         /\ \A i \in Indices : /\ outputs[i].formats \subseteq Formats
                               /\ outputs[i].formats # {}
                               /\ outputs[i].framerate \in Nat
         /\ \A size : Rates(size) \in SUBSET Nat /\ IsFiniteSet(Rates(size))
<1>1. /\ Len(outputs) \in Nat /\ Indices = 1 .. Len(outputs)
      /\ \A i \in Indices : /\ outputs[i].formats \subseteq Formats
                            /\ outputs[i].formats # {}
                            /\ outputs[i].framerate \in Nat
  BY PlanAssumption DEF Indices
<1>2. IsFiniteSet(Indices)
  BY <1>1, FS_Interval
<1>3. ASSUME NEW size
      PROVE  Rates(size) \in SUBSET Nat /\ IsFiniteSet(Rates(size))
  <2> DEFINE J == {j \in Indices : outputs[j].size = size}
             f == [j \in J |-> outputs[j].framerate]
  <2>1. IsFiniteSet(J)
    BY <1>2, FS_Subset
  <2>2. f \in Surjection(J, Rates(size))
    BY DEF Surjection, Rates
  <2>3. IsFiniteSet(Rates(size))
    <3> HIDE DEF J, f
    <3> QED  BY <2>1, <2>2, FS_Surjection
  <2> QED  BY <1>1, <2>3 DEF Rates
<1> QED  BY <1>1, <1>2, <1>3

(* The chains of a group are those of the outputs of the same size.        *)
LEMMA GroupIs ==
  ASSUME outputs \in OutputLists,
         chains = [j \in Indices |-> Chain(outputs[j])],
         NEW i \in Indices
  PROVE  ScaleGroup(i) = IF NeedsScale(outputs[i])
                         THEN {j \in Indices : outputs[j].size = outputs[i].size}
                         ELSE {}
<1>1. ASSUME NEW j \in Indices
      PROVE  /\ ScaleIndex(chains[j]) > 0 <=> NeedsScale(outputs[j])
             /\ NeedsScale(outputs[j]) =>
                  chains[j][ScaleIndex(chains[j])] = Scale(outputs[j].size)
  <2>1. chains[j] = Chain(outputs[j])
    OBVIOUS
  <2>2. CASE NeedsScale(outputs[j])
    BY <2>1, <2>2, ScalingChain
  <2>3. CASE ~NeedsScale(outputs[j])
    BY <2>1, <2>3, UnscalingChain
  <2> QED  BY <2>2, <2>3
<1>2. \A s, t : Scale(s) = Scale(t) <=> s = t
  BY DEF Scale
<1>3. \A j \in Indices : outputs[j].size = outputs[i].size =>
                           (NeedsScale(outputs[j]) <=> NeedsScale(outputs[i]))
  BY DEF NeedsScale
<1>4. \A j \in Indices :
        j \in ScaleGroup(i) <=> /\ NeedsScale(outputs[i]) /\ NeedsScale(outputs[j])
                                /\ outputs[j].size = outputs[i].size
  BY <1>1, <1>2 DEF ScaleGroup
<1> QED  BY <1>3, <1>4 DEF ScaleGroup

(* The whole of what optimizeFramerateScaleGroups does.                    *)
LEMMA OptimizedIs ==
  ASSUME outputs \in OutputLists,
         chains = [j \in Indices |-> Chain(outputs[j])],
         NEW i \in Indices
  PROVE  Optimized(i) = PlannedChain(outputs[i])
<1> DEFINE c == outputs[i]
           d == Decoding(c)
           e == Encoding(c)
           sc == Scale(c.size)
           fl == FramerateLimit(c.framerate)
           group == ScaleGroup(i)
<1>1. /\ chains[i] = Chain(c) /\ IsSeq(d) /\ IsSeq(e) /\ IsSeq(Limiting(c))
      /\ Unscaled(d) /\ sc.type = "Scale" /\ fl.type # "Scale"
      /\ fl.config = c.framerate /\ c.framerate \in Nat
      /\ IsSeq(<<sc>>) /\ IsSeq(d \o <<sc>>)
  BY UnscaledParts, OutputFacts, ShortSeqs, ConcatParts
     DEF Unscaled, Scale, FramerateLimit
<1>2. ASSUME ~NeedsScale(c)
      PROVE  Optimized(i) = PlannedChain(c)
  <2>1. Cardinality(group) <= 1
    <3>1. group = {}
      BY <1>2, GroupIs
    <3> QED  BY <3>1, FS_EmptySet
  <2>2. Optimized(i) = Chain(c)
    BY <1>1, <2>1 DEF Optimized
  <2>3. CASE Passthrough(c)
    BY <2>2, <2>3 DEF Chain, Passthrough, PlannedChain
  <2>4. CASE ~Passthrough(c)
    <3>1. Before(c) = Limiting(c) /\ Scaling(c) = <<>> /\ After(c) = <<>>
      BY <1>2 DEF Before, Scaling, After, If
    <3>2. IsSeq(Limiting(c) \o d)
      BY <1>1, ConcatParts
    <3>3. Limiting(c) \o d \o <<>> = Limiting(c) \o d
      <4> DEFINE u == Limiting(c) \o d
      <4> HIDE DEF u
      <4>1. IsSeq(u)
        BY <3>2 DEF u
      <4>2. u \o <<>> = u
        BY <4>1, ConcatFacts
      <4> QED  BY <4>2 DEF u
    <3>4. PlannedChain(c) = Limiting(c) \o d \o <<>> \o <<>> \o e
      BY <2>4, <3>1 DEF PlannedChain
    <3>5. Chain(c) = Limiting(c) \o d \o e
      BY <1>2, <2>4, UnscalingChain
    <3> QED  BY <2>2, <3>3, <3>4, <3>5
  <2> QED  BY <2>3, <2>4
<1>3. ASSUME NeedsScale(c)
      PROVE  Optimized(i) = PlannedChain(c)
  <2> DEFINE R == Rates(c.size)
  <2>1. group = {j \in Indices : outputs[j].size = c.size} /\ i \in group
    BY <1>3, GroupIs
  <2>2. /\ PlannedChain(c) = Before(c) \o d \o <<sc>> \o After(c) \o e
        /\ Before(c) = If(0 \notin R, FramerateLimit(Leader(R, c.framerate)))
        /\ After(c) = If(c.framerate # 0 /\ (0 \in R \/ c.framerate < Leader(R, c.framerate)), fl)
    BY <1>3 DEF PlannedChain, Passthrough, Before, After, Scaling, LeaderOf, If,
                NeedsFramerate
  <2>3. /\ Chain(c) = Limiting(c) \o d \o <<sc>> \o e
        /\ Limiting(c) = If(c.framerate # 0, fl)
    BY <1>3, ScalingChain DEF Limiting, NeedsFramerate
  <2>4. R = {outputs[j].framerate : j \in group} /\ c.framerate \in R
        /\ R \in SUBSET Nat /\ IsFiniteSet(R) /\ IsFiniteSet(group)
    BY <2>1, OutputFacts, FS_Subset DEF Rates
  <2>5. ASSUME NEW j \in group
        PROVE  /\ Limited(chains[j]) <=> outputs[j].framerate # 0
               /\ outputs[j].framerate # 0 => Head(chains[j]).config = outputs[j].framerate
    <3>1. chains[j] = Chain(outputs[j]) /\ NeedsScale(outputs[j])
      BY <1>3, <2>1 DEF NeedsScale
    <3> DEFINE o == outputs[j]
    <3>2. NeedsScale(o)
      BY <3>1
    <3> HIDE DEF o
    <3>3. /\ Limited(Chain(o)) <=> NeedsFramerate(o)
          /\ NeedsFramerate(o) => Head(Chain(o)) = FramerateLimit(o.framerate)
      BY <3>2, ScalingChain
    <3>4. FramerateLimit(o.framerate).config = o.framerate
      BY DEF FramerateLimit
    <3> QED  BY <3>1, <3>3, <3>4 DEF NeedsFramerate, o
  <2>6. /\ (\E j \in group : ~Limited(chains[j])) <=> 0 \in R
        /\ Limited(chains[i]) <=> c.framerate # 0
        /\ 0 \notin R => {Head(chains[j]).config : j \in group} = R
        /\ c.framerate # 0 => Head(chains[i]).config = c.framerate
    BY <2>1, <2>4, <2>5
  <2>7. \A s : IsSeq(s) => s \o <<>> = s /\ <<>> \o s = s
    BY ConcatFacts
  <2>8. <<>> \o d \o <<sc>> \o e = d \o <<sc>> \o e
    BY <1>1, <2>7
  <2>9. ASSUME Cardinality(group) <= 1
        PROVE  Optimized(i) = PlannedChain(c)
    <3>1. group = {i}
      <4>1. /\ Cardinality(group \ {i}) = Cardinality(group) - 1
            /\ IsFiniteSet(group \ {i}) /\ Cardinality(group) \in Nat
            /\ Cardinality(group \ {i}) \in Nat
        BY <2>1, <2>4, FS_RemoveElement, FS_Subset, FS_CardinalityType
      <4>2. Cardinality(group \ {i}) = 0
        BY <2>9, <4>1
      <4>3. group \ {i} = {}
        BY <4>1, <4>2, FS_EmptySet
      <4> QED  BY <2>1, <4>3
    <3>2. R = {c.framerate}
      BY <2>4, <3>1
    <3>3. Optimized(i) = Chain(c)
      BY <1>1, <2>9 DEF Optimized
    <3>4. Before(c) = Limiting(c) /\ After(c) = <<>>
      <4>1. CASE c.framerate = 0
        BY <2>2, <2>3, <3>2, <4>1 DEF If
      <4>2. CASE c.framerate # 0
        <5>1. R \in SUBSET (Nat \ {0}) /\ c.framerate \in Top(R) /\ 0 \notin R
          BY <1>1, <3>2, <4>2 DEF Top
        <5>2. Leader(R, c.framerate) = c.framerate
          BY <2>4, <5>1, LeaderParts
        <5>3. ~(c.framerate < c.framerate)
          BY <1>1
        <5> QED  BY <2>2, <2>3, <4>2, <5>1, <5>2, <5>3 DEF If
      <4> QED  BY <4>1, <4>2
    <3>5. IsSeq(Limiting(c) \o d) /\ IsSeq(Limiting(c) \o d \o <<sc>>)
      BY <1>1, ConcatParts
    <3>6. Limiting(c) \o d \o <<sc>> \o <<>> = Limiting(c) \o d \o <<sc>>
      BY <2>7, <3>5
    <3> QED  BY <2>2, <2>3, <3>3, <3>4, <3>6
  <2>10. ASSUME ~(Cardinality(group) <= 1), 0 \in R
         PROVE  Optimized(i) = PlannedChain(c)
    <3>1. Optimized(i) = IF c.framerate # 0 THEN LimitAfterScale(Chain(c)) ELSE Chain(c)
      BY <1>1, <2>6, <2>10 DEF Optimized
    <3>2. Before(c) = <<>> /\ After(c) = If(c.framerate # 0, fl)
      BY <2>2, <2>10 DEF If
    <3>3. CASE c.framerate # 0
      <4>1. Chain(c) = <<fl>> \o d \o <<sc>> \o e
        BY <2>3, <3>3 DEF If
      <4>2. Optimized(i) = d \o <<sc>> \o <<fl>> \o e
        <5>1. Unscaled(d) /\ IsSeq(e) /\ sc.type = "Scale" /\ fl.type # "Scale"
          BY <1>1
        <5> HIDE DEF d, e, sc, fl
        <5>2. LimitMoves(fl, d, sc, e)
          BY <5>1, LimitAfterScaleIs
        <5> QED  BY <3>1, <3>3, <4>1, <5>2 DEF LimitMoves
      <4>3. PlannedChain(c) = <<>> \o d \o <<sc>> \o <<fl>> \o e
        BY <2>2, <3>2, <3>3 DEF If
      <4>4. <<>> \o d = d
        BY <1>1, <2>7
      <4> QED  BY <4>2, <4>3, <4>4
    <3>4. CASE c.framerate = 0
      <4>1. Chain(c) = d \o <<sc>> \o e
        BY <2>3, <2>8, <3>4 DEF If
      <4>2. PlannedChain(c) = <<>> \o d \o <<sc>> \o <<>> \o e
        BY <2>2, <3>2, <3>4 DEF If
      <4>3. <<>> \o d = d /\ d \o <<sc>> \o <<>> = d \o <<sc>>
        BY <1>1, <2>7
      <4> QED  BY <3>1, <3>4, <4>1, <4>2, <4>3
    <3> QED  BY <3>3, <3>4
  <2>11. ASSUME ~(Cardinality(group) <= 1), 0 \notin R
         PROVE  Optimized(i) = PlannedChain(c)
    <3> DEFINE leader == Leader(R, c.framerate)
    <3>1. c.framerate # 0
      BY <2>4, <2>11
    <3>2. Optimized(i) = LedBy(leader, Chain(c))
      BY <1>1, <2>6, <2>11, <3>1 DEF Optimized
    <3>3. Chain(c) = <<fl>> \o d \o <<sc>> \o e
      BY <2>3, <3>1 DEF If
    <3>4. Optimized(i) = <<FramerateLimit(leader)>> \o d \o <<sc>>
                           \o If(c.framerate < leader, fl) \o e
      <4>1. Unscaled(d) /\ IsSeq(e) /\ sc.type = "Scale" /\ fl.config = c.framerate
        BY <1>1
      <4> HIDE DEF d, e, sc, fl, leader
      <4>2. LeaderLimits(leader, fl, d, sc, e)
        BY <4>1, LedByIs
      <4> QED  BY <3>2, <3>3, <4>1, <4>2 DEF LeaderLimits
    <3>5. /\ Before(c) = <<FramerateLimit(leader)>>
          /\ After(c) = If(c.framerate < leader, fl)
      BY <2>2, <2>11, <3>1 DEF If
    <3> QED  BY <2>2, <3>4, <3>5
  <2> QED  BY <2>9, <2>10, <2>11
<1> QED  BY <1>2, <1>3

-----------------------------------------------------------------------------
(* The elements chains and trees are made of.                              *)

Elements ==
  {FramerateLimit(r) : r \in Nat}
    \cup {Decoder(f) : f \in {input} \cap Compressed}
    \cup {Scale(outputs[i].size) : i \in Indices}
    \cup {Encoder(EncoderKey(outputs[i])) :
            i \in {j \in Indices : TargetCompressed(outputs[j]) \in Compressed}}

(* The computed and the planned chain of an output consist of them.        *)
LEMMA ChainElements ==
  ASSUME input \in InputFormats, outputs \in OutputLists, NEW i \in Indices
  PROVE  /\ Chain(outputs[i]) \in Seq(Elements)
         /\ PlannedChain(outputs[i]) \in Seq(Elements)
<1> DEFINE c == outputs[i]
<1>1. \A cond, e : (cond => e \in Elements) => If(cond, e) \in Seq(Elements)
  BY DEF If
<1>2. Limiting(c) \in Seq(Elements)
  <2>1. FramerateLimit(c.framerate) \in Elements
    BY OutputFacts DEF Elements
  <2> QED  BY <1>1, <2>1 DEF Limiting
<1>3. Decoding(c) \in Seq(Elements)
  <2>1. NeedsDecode(c) => Decoder(input) \in Elements
    BY DEF NeedsDecode, Elements
  <2> QED  BY <1>1, <2>1 DEF Decoding
<1>4. Scaling(c) \in Seq(Elements)
  <2>1. Scale(c.size) \in Elements
    BY DEF Elements
  <2> QED  BY <1>1, <2>1 DEF Scaling
<1>5. Encoding(c) \in Seq(Elements)
  <2>1. NeedsEncode(c) => TargetCompressed(c) \in Compressed
    BY DEF NeedsEncode, TargetCompressed, Compressed, Formats
  <2>2. NeedsEncode(c) => Encoder(EncoderKey(c)) \in Elements
    BY <2>1 DEF Elements
  <2> QED  BY <1>1, <2>2 DEF Encoding
<1>6. Before(c) \in Seq(Elements)
  <2>1. 0 \notin Rates(c.size) => FramerateLimit(LeaderOf(c)) \in Elements
    <3>1. /\ c.framerate \in Rates(c.size) /\ IsFiniteSet(Rates(c.size))
          /\ 0 \notin Rates(c.size) => Rates(c.size) \in SUBSET (Nat \ {0})
      BY OutputFacts DEF Rates
    <3>2. 0 \notin Rates(c.size) => LeaderOf(c) \in Nat
      BY <3>1, LeaderParts DEF LeaderOf
    <3> QED  BY <3>2 DEF Elements
  <2> QED  BY <1>1, <1>2, <2>1 DEF Before
<1>7. After(c) \in Seq(Elements)
  <2>1. FramerateLimit(c.framerate) \in Elements
    BY OutputFacts DEF Elements
  <2> QED  BY <1>1, <2>1 DEF After
<1>8. \A s, t \in Seq(Elements) : s \o t \in Seq(Elements)
  OBVIOUS
<1>9. <<>> \in Seq(Elements)
  OBVIOUS
<1>10. Chain(c) = <<>> \/ Chain(c) = Limiting(c) \o Decoding(c) \o Scaling(c) \o Encoding(c)
  BY DEF Chain, Limiting, Decoding, Scaling, Encoding
<1>11. Limiting(c) \o Decoding(c) \o Scaling(c) \o Encoding(c) \in Seq(Elements)
  BY <1>2, <1>3, <1>4, <1>5, <1>8
<1>12. Before(c) \o Decoding(c) \o Scaling(c) \o After(c) \o Encoding(c) \in Seq(Elements)
  BY <1>3, <1>4, <1>5, <1>6, <1>7, <1>8
<1> QED  BY <1>9, <1>10, <1>11, <1>12 DEF PlannedChain

(* What an element can be.                                                 *)
LEMMA ElementParts ==
  ASSUME NEW e \in Elements, outputs \in OutputLists
  PROVE  /\ e.type \in {"FramerateLimit", "Decoder", "Scale", "Encoder"}
         /\ e.type = "Decoder" => e.config = input /\ input \in Compressed
         /\ e.type = "Encoder" =>
              \E i \in Indices : /\ e.config = EncoderKey(outputs[i])
                                 /\ e.config.codec \in Compressed
BY DEF Elements, FramerateLimit, Decoder, Scale, Encoder, EncoderKey

-----------------------------------------------------------------------------
(* The invariant of the planning.                                          *)

(* The nodes that are not sinks: those of the chains, and the source.      *)
Inner == IF Planned THEN Len(nodes) - Len(outputs) ELSE Len(nodes)

(* The way a chain of which m elements are merged takes through the tree,  *)
(* to node p.                                                              *)
IsTrack(t, tree, chain, m, p) ==
  /\ t \in [0 .. m -> DOMAIN tree] /\ t[0] = 1 /\ t[m] = p
  /\ \A k \in 1 .. m :
       /\ tree[t[k]].input = t[k - 1]
       /\ tree[t[k]].type = chain[k].type
       /\ SameConfig(tree[t[k]], chain[k])

(* Output i has a way to its parent, and one through node n made for it.   *)
Tracked(i) == \E t : IsTrack(t, nodes, chains[i], merged[i], parent[i])

MadeFor(n, i) ==
  \E t, k : /\ IsTrack(t, nodes, chains[i], merged[i], parent[i])
            /\ k \in 1 .. merged[i] /\ t[k] = n
            /\ nodes[n] = Node(chains[i][k], nodes[n].input)

Configured ==
  /\ input \in InputFormats /\ outputs \in OutputLists
  /\ phase \in {"compute", "optimize", "merge", "planned", "realize", "link",
                "built"}

ChainsPlanned ==
  chains = [i \in Indices |->
              IF phase = "compute" THEN <<>>
              ELSE IF phase = "optimize" THEN Chain(outputs[i])
              ELSE PlannedChain(outputs[i])]

Progress ==
  /\ parent \in [Indices -> 1 .. Inner] /\ merged \in [Indices -> Nat]
  /\ \A i \in Indices :
       /\ merged[i] <= Len(chains[i])
       /\ phase \in {"compute", "optimize"} => merged[i] = 0
       /\ Planned => merged[i] = Len(chains[i])
  /\ phase \in {"compute", "optimize"} => Len(nodes) = 1

SinksLast ==
  /\ Inner \in Nat \ {0}
  /\ nodes[1].type = "Source"
  /\ Planned => \A i \in Indices :
                  nodes[Inner + i] = Node([type |-> "Sink", config |-> i], parent[i])

(* Children of one node differ, but for encoders, whose framerates may.    *)
Siblings ==
  \A m, n \in 2 .. Inner :
    /\ nodes[m].input = nodes[n].input /\ nodes[m].type = nodes[n].type
    /\ nodes[m].config = nodes[n].config /\ nodes[m].type # "Encoder"
    => m = n

GraphInv ==
  /\ Configured
  /\ ChainsPlanned
  /\ Tree
  /\ Progress
  /\ SinksLast
  /\ \A i \in Indices : Tracked(i)
  /\ \A n \in 2 .. Inner : \E i \in Indices : MadeFor(n, i)
  /\ Siblings

(* A build begins as the invariant says.                                   *)
LEMMA GraphInvInit ==
  ASSUME GraphInit
  PROVE  GraphInv
<1>1. /\ Configured /\ ChainsPlanned
  BY DEF GraphInit, Configured, ChainsPlanned, Indices
<1> DEFINE source == [type |-> "Source", config |-> input, input |-> 0]
<1>2. nodes = <<source>> /\ IsSeq(nodes) /\ Len(nodes) = 1 /\ nodes[1] = source
  BY ShortSeqs DEF GraphInit
<1>3. Inner = 1
  BY <1>2 DEF GraphInit, Inner, Planned
<1>4. Tree /\ SinksLast /\ Siblings /\ 2 .. Inner = {}
  BY <1>2, <1>3 DEF Tree, SinksLast, Siblings, Planned, GraphInit
<1>5. ASSUME NEW i \in Indices
      PROVE  chains[i] = <<>> /\ merged[i] = 0 /\ parent[i] = 1
  BY DEF GraphInit, Indices
<1>6. Progress
  <2>1. parent \in [Indices -> 1 .. Inner] /\ merged \in [Indices -> Nat]
    BY <1>3 DEF GraphInit, Indices
  <2> QED  BY <1>2, <1>5, <2>1, ShortSeqs DEF Progress, Planned, GraphInit
<1>7. ASSUME NEW i \in Indices
      PROVE  Tracked(i)
  <2> DEFINE t == [k \in 0 .. 0 |-> 1]
  <2>1. DOMAIN nodes = 1 .. 1
    BY <1>2, SeqParts
  <2>2. IsTrack(t, nodes, chains[i], 0, 1)
    BY <2>1 DEF IsTrack
  <2> QED  BY <1>5, <2>2 DEF Tracked
<1> QED  BY <1>1, <1>4, <1>6, <1>7 DEF GraphInv

(* A track stays one as the tree grows.                                    *)
LEMMA TrackKept ==
  ASSUME NEW A, NEW B, \A n \in DOMAIN A : n \in DOMAIN B /\ B[n] = A[n],
         NEW chain, NEW m \in Nat, NEW p, NEW t, IsTrack(t, A, chain, m, p)
  PROVE  IsTrack(t, B, chain, m, p)
<1>1. t \in [0 .. m -> DOMAIN A] /\ t \in [0 .. m -> DOMAIN B]
  BY DEF IsTrack
<1>2. \A k \in 1 .. m : k \in 0 .. m /\ t[k] \in DOMAIN A /\ B[t[k]] = A[t[k]]
  BY <1>1
<1> QED  BY <1>1, <1>2 DEF IsTrack

(* It goes on to a child that is like the next element.                    *)
ExtendTrack(t, m, q) == [k \in 0 .. m + 1 |-> IF k = m + 1 THEN q ELSE t[k]]

Continues(tree, chain, m, p, q) ==
  /\ q \in DOMAIN tree /\ tree[q].input = p
  /\ tree[q].type = chain[m + 1].type /\ SameConfig(tree[q], chain[m + 1])

Extends(u, t, m, q) == u[m + 1] = q /\ \A k \in 0 .. m : u[k] = t[k]

(* And is then the track of one element more.                              *)
LEMMA TrackExtended ==
  ASSUME NEW tree, NEW chain, NEW m \in Nat, NEW p, NEW t,
         IsTrack(t, tree, chain, m, p), NEW q, Continues(tree, chain, m, p, q)
  PROVE  /\ IsTrack(ExtendTrack(t, m, q), tree, chain, m + 1, q)
         /\ Extends(ExtendTrack(t, m, q), t, m, q)
<1> DEFINE u == ExtendTrack(t, m, q)
<1>1. /\ t \in [0 .. m -> DOMAIN tree] /\ t[0] = 1 /\ t[m] = p
      /\ \A k \in 1 .. m : /\ tree[t[k]].input = t[k - 1]
                           /\ tree[t[k]].type = chain[k].type
                           /\ SameConfig(tree[t[k]], chain[k])
  BY DEF IsTrack
<1>5. /\ q \in DOMAIN tree /\ tree[q].input = p
      /\ tree[q].type = chain[m + 1].type /\ SameConfig(tree[q], chain[m + 1])
  BY DEF Continues
<1>2. /\ u[m + 1] = q /\ \A k \in 0 .. m : u[k] = t[k]
      /\ u \in [0 .. m + 1 -> DOMAIN tree]
  <2>1. \A k \in 0 .. m + 1 : k = m + 1 \/ k \in 0 .. m
    OBVIOUS
  <2>2. \A k \in 0 .. m : k \in 0 .. m + 1 /\ k # m + 1
    OBVIOUS
  <2>3. m + 1 \in 0 .. m + 1
    OBVIOUS
  <2> QED  BY <1>1, <1>5, <2>1, <2>2, <2>3 DEF ExtendTrack
<1> HIDE DEF u
<1>3. ASSUME NEW k \in 1 .. m + 1
      PROVE  /\ tree[u[k]].input = u[k - 1]
             /\ tree[u[k]].type = chain[k].type
             /\ SameConfig(tree[u[k]], chain[k])
  <2>1. CASE k = m + 1
    <3>1. k - 1 = m /\ m \in 0 .. m
      BY <2>1
    <3>2. u[k] = q /\ u[k - 1] = p
      BY <1>1, <1>2, <2>1, <3>1
    <3> QED  BY <1>5, <2>1, <3>2
  <2>2. CASE k # m + 1
    <3>1. k \in 1 .. m /\ k \in 0 .. m /\ k - 1 \in 0 .. m
      BY <2>2
    <3>2. u[k] = t[k] /\ u[k - 1] = t[k - 1]
      BY <1>2, <3>1
    <3> QED  BY <1>1, <3>1, <3>2
  <2> QED  BY <2>1, <2>2
<1>4. u[0] = 1
  BY <1>1, <1>2
<1> QED  BY <1>2, <1>3, <1>4 DEF IsTrack, Extends, u

(* Before anything is merged, every output is at the source.               *)
LEMMA TrackStart ==
  ASSUME NEW tree, 1 \in DOMAIN tree, NEW chain
  PROVE  IsTrack([k \in 0 .. 0 |-> 1], tree, chain, 0, 1)
BY DEF IsTrack

(* The chains are computed, and then optimized, as the invariant says.     *)
LEMMA GraphInvChains ==
  ASSUME GraphInv, ComputeChains \/ OptimizeFramerateScaleGroups
  PROVE  GraphInv'
<1>1. Configured'
  BY DEF GraphInv, Configured, ComputeChains, OptimizeFramerateScaleGroups
<1>2. ChainsPlanned'
  <2>1. CASE ComputeChains
    <3>1. /\ chains' = [i \in Indices |-> Chain(outputs[i])]
          /\ Indices' = Indices /\ phase' = "optimize"
      BY <2>1 DEF ComputeChains, Indices
    <3>2. \A i \in Indices : Chain(outputs[i])' = Chain(outputs[i])
      BY <2>1 DEF ComputeChains, Chain, NeedsDecode, NeedsEncode
    <3> QED  BY <3>1, <3>2 DEF ChainsPlanned
  <2>2. CASE OptimizeFramerateScaleGroups
    <3>1. /\ outputs \in OutputLists
          /\ chains = [j \in Indices |-> Chain(outputs[j])]
      BY <2>2 DEF GraphInv, Configured, ChainsPlanned, OptimizeFramerateScaleGroups
    <3>2. \A i \in Indices : Optimized(i) = PlannedChain(outputs[i])
      BY <3>1, OptimizedIs
    <3>3. chains' = [i \in Indices |-> PlannedChain(outputs[i])]
      BY <2>2, <3>2 DEF OptimizeFramerateScaleGroups
    <3>4. \A i \in Indices : PlannedChain(outputs[i])' = PlannedChain(outputs[i])
      BY <2>2 DEF OptimizeFramerateScaleGroups, PlannedChain, Passthrough, Before,
           Decoding, Scaling, After, Encoding, Limiting, NeedsDecode, NeedsEncode,
           LeaderOf, Rates, Indices
    <3>5. Indices' = Indices /\ phase' = "merge"
      BY <2>2 DEF OptimizeFramerateScaleGroups, Indices
    <3> QED  BY <3>3, <3>4, <3>5 DEF ChainsPlanned
  <2> QED  BY <2>1, <2>2
<1>3. /\ UNCHANGED <<input, outputs, nodes, parent, merged>> /\ Indices' = Indices
      /\ ~Planned /\ ~Planned'
      /\ phase \in {"compute", "optimize"} /\ phase' \in {"optimize", "merge"}
  BY DEF ComputeChains, OptimizeFramerateScaleGroups, Planned, Indices
<1>4. Inner' = Inner /\ Inner = 1 /\ Len(nodes) = 1 /\ Tree' /\ Nodes' = Nodes /\ 1 \in Nodes
  BY <1>3, TreeNodes DEF Inner, Tree, GraphInv, Progress, Nodes
<1>5. \A i \in Indices : merged[i] = 0 /\ parent[i] = 1
  BY <1>3, <1>4 DEF GraphInv, Progress
<1>6. \A i \in Indices : Len(chains'[i]) \in Nat
  <2>1. \A i \in Indices : chains'[i] = Chain(outputs[i]) \/ chains'[i] = PlannedChain(outputs[i])
    <3>1. CASE ComputeChains
      BY <3>1 DEF ComputeChains
    <3>2. CASE OptimizeFramerateScaleGroups
      <4>1. /\ outputs \in OutputLists
            /\ chains = [j \in Indices |-> Chain(outputs[j])]
        BY <3>2 DEF GraphInv, Configured, ChainsPlanned, OptimizeFramerateScaleGroups
      <4> QED  BY <3>2, <4>1, OptimizedIs DEF OptimizeFramerateScaleGroups
    <3> QED  BY <3>1, <3>2
  <2>2. \A i \in Indices : Chain(outputs[i]) \in Seq(Elements)
                           /\ PlannedChain(outputs[i]) \in Seq(Elements)
    BY ChainElements DEF GraphInv, Configured
  <2>3. \A s \in Seq(Elements) : Len(s) \in Nat
    OBVIOUS
  <2> QED  BY <2>1, <2>2, <2>3
<1>7. Progress'
  <2>1. parent' \in [Indices' -> 1 .. Inner'] /\ merged' \in [Indices' -> Nat]
    BY <1>3, <1>4 DEF GraphInv, Progress
  <2>2. \A i \in Indices' : merged'[i] = 0 /\ 0 <= Len(chains'[i])
    BY <1>3, <1>5, <1>6
  <2> QED  BY <1>3, <1>4, <2>1, <2>2 DEF Progress
<1>8. SinksLast' /\ Siblings'
  BY <1>3, <1>4 DEF GraphInv, SinksLast, Siblings
<1>9. ASSUME NEW i \in Indices'
      PROVE  Tracked(i)'
  <2>1. i \in Indices /\ merged'[i] = 0 /\ parent'[i] = 1 /\ 1 \in DOMAIN nodes'
    BY <1>3, <1>4, <1>5 DEF Nodes
  <2> QED  BY <2>1, TrackStart DEF Tracked
<1>10. 2 .. Inner' = {}
  BY <1>4
<1> QED  BY <1>1, <1>2, <1>4, <1>7, <1>8, <1>9, <1>10 DEF GraphInv

(* A matching child is one of the parent's children.                       *)
LEMMA MatchFound ==
  ASSUME Tree, NEW from, NEW e, Matches(from, e) # {}
  PROVE  /\ Min(Matches(from, e)) \in Nodes
         /\ LET m == Min(Matches(from, e)) IN
            /\ nodes[m].input = from /\ nodes[m].type = e.type
            /\ SameConfig(nodes[m], e)
<1> DEFINE S == Matches(from, e)
<1>1. \A m \in S : /\ m \in Nodes /\ nodes[m].input = from
                   /\ nodes[m].type = e.type /\ SameConfig(nodes[m], e)
  BY DEF Matches, ChildrenOf, Nodes
<1>2. S \in SUBSET Nat /\ S # {}
  BY <1>1, TreeNodes
<1> HIDE DEF S
<1>3. PICK x \in S : \A y \in S : x <= y
  BY <1>2, LeastNat
<1>4. Min(S) = x
  BY <1>2, <1>3, LeastIsMin
<1> QED  BY <1>1, <1>4 DEF S

(* How merging element e of a chain at the node from, reached by output i, *)
(* takes it to node p of the new tree.                                     *)
Merged(i, e, from, p) ==
  /\ IsSeq(nodes') /\ DOMAIN nodes' = 1 .. Len(nodes')
  /\ Len(nodes') \in {Len(nodes), Len(nodes) + 1}
  /\ \A n \in Nodes : n \in DOMAIN nodes' /\ nodes'[n] = nodes[n]
  /\ parent' = [parent EXCEPT ![i] = p]
  /\ p \in 1 .. Len(nodes')
  /\ nodes'[p].input = from /\ nodes'[p].type = e.type
  /\ SameConfig(nodes'[p], e)
  /\ Len(nodes') = Len(nodes) + 1 =>
       /\ p = Len(nodes) + 1
       /\ nodes'[p] = Node(e, from) /\ Matches(from, e) = {}

(* This is what MergeElement does.                                         *)
LEMMA MergeElementParts ==
  ASSUME Tree, parent \in [Indices -> Nodes], NEW i \in Indices, MergeElement(i)
  PROVE  Merged(i, chains[i][merged[i] + 1], parent[i], parent'[i])
<1> DEFINE e == chains[i][merged[i] + 1]
           from == parent[i]
           found == Matches(from, e)
           p == parent'[i]
           N == Len(nodes)
<1>1. Nodes = 1 .. N /\ N \in Nat /\ IsSeq(nodes) /\ DOMAIN nodes = 1 .. N
  BY TreeNodes DEF Tree, Nodes
<1>2. IF found # {}
      THEN /\ parent' = [parent EXCEPT ![i] = Min(found)]
           /\ UNCHANGED nodes
      ELSE /\ nodes' = Append(nodes, Node(e, from))
           /\ parent' = [parent EXCEPT ![i] = Len(nodes) + 1]
  BY DEF MergeElement
<1> HIDE DEF e
<1>3. CASE found # {}
  <2>1. parent' = [parent EXCEPT ![i] = p] /\ p = Min(found) /\ nodes' = nodes
    BY <1>2, <1>3
  <2>2. p \in 1 .. N /\ nodes[p].input = from /\ nodes[p].type = e.type
        /\ SameConfig(nodes[p], e)
    <3> HIDE DEF p, from
    <3> QED  BY <1>1, <1>3, <2>1, MatchFound
  <2>3. Len(nodes') = N /\ N # N + 1
    <3>1. nodes' = nodes
      BY <2>1
    <3>2. N \in Nat
      BY <1>1
    <3> HIDE DEF N
    <3>3. N # N + 1
      BY <3>2
    <3> QED  BY <3>1, <3>3 DEF N
  <2> HIDE DEF p, from
  <2>4. Merged(i, e, from, p)
    BY <1>1, <2>1, <2>2, <2>3 DEF Merged
  <2> QED  BY <2>4 DEF e, p, from
<1>4. CASE found = {}
  <2> DEFINE x == Node(e, from)
  <2>1. /\ IsSeq(nodes') /\ Len(nodes') = N + 1 /\ DOMAIN nodes' = 1 .. N + 1
        /\ nodes'[N + 1] = x /\ \A n \in 1 .. N : nodes'[n] = nodes[n]
    <3>1. nodes' = Append(nodes, x)
      BY <1>2, <1>4
    <3> HIDE DEF x
    <3> QED  BY <1>1, <3>1, AppendParts
  <2>2. parent' = [parent EXCEPT ![i] = p] /\ p = N + 1
    BY <1>2, <1>4
  <2>3. x.input = from /\ x.type = e.type /\ SameConfig(x, e)
    BY DEF Node, SameConfig, SameRate
  <2> HIDE DEF x
  <2>4. \A n \in Nodes : n \in DOMAIN nodes' /\ nodes'[n] = nodes[n]
    BY <1>1, <2>1
  <2>5. p \in 1 .. Len(nodes')
    BY <1>1, <2>1, <2>2
  <2> HIDE DEF p, from
  <2>6. Merged(i, e, from, p)
    BY <1>1, <1>4, <2>1, <2>2, <2>3, <2>4, <2>5 DEF Merged, x
  <2> QED  BY <2>6 DEF e, p, from
<1> QED  BY <1>3, <1>4

(* The merge of an element preserves the invariant.                        *)
LEMMA GraphInvMerge ==
  ASSUME GraphInv, NEW i \in Indices, MergeElement(i)
  PROVE  GraphInv'
<1> DEFINE e == chains[i][merged[i] + 1]
           from == parent[i]
           p == parent'[i]
           N == Len(nodes)
           M == Len(nodes')
<1>1. /\ phase = "merge" /\ phase' = "merge" /\ ~Planned /\ ~Planned'
      /\ UNCHANGED <<input, outputs, chains>>
      /\ merged' = [merged EXCEPT ![i] = @ + 1]
      /\ Indices' = Indices
  BY DEF MergeElement, Planned, Indices
<1>2. /\ Inner = N /\ Inner' = M /\ N \in Nat \ {0} /\ Nodes = 1 .. N
      /\ parent \in [Indices -> Nodes] /\ from \in Nodes
      /\ merged \in [Indices -> Nat] /\ merged[i] \in Nat
      /\ Tree
  BY <1>1, TreeNodes DEF GraphInv, Progress, Inner
<1>3. merged[i] < Len(chains[i]) /\ Len(chains[i]) \in Nat
  <2>1. merged[i] < Len(chains[i])
    BY DEF MergeElement, NextToMerge
  <2>2. chains[i] \in Seq(Elements)
    BY <1>1, ChainElements DEF GraphInv, Configured, ChainsPlanned
  <2> QED  BY <2>1, <2>2
<1>4. Merged(i, e, from, p)
  BY <1>2, MergeElementParts
<1> HIDE DEF e, from, p
<1>5. /\ IsSeq(nodes') /\ DOMAIN nodes' = 1 .. M /\ M \in {N, N + 1}
      /\ \A n \in Nodes : n \in DOMAIN nodes' /\ nodes'[n] = nodes[n]
      /\ parent' = [parent EXCEPT ![i] = p] /\ p \in 1 .. M
      /\ nodes'[p].input = from /\ nodes'[p].type = e.type
      /\ SameConfig(nodes'[p], e)
      /\ M = N + 1 => /\ p = N + 1 /\ nodes'[p] = Node(e, from)
                      /\ Matches(from, e) = {}
  BY <1>4 DEF Merged
<1>6. /\ M \in Nat \ {0}
      /\ \A n \in 2 .. M :
           n \notin Nodes => /\ M = N + 1 /\ n = p /\ nodes'[n] = Node(e, from)
                            /\ Matches(from, e) = {}
  <2>1. M \in Nat \ {0} /\ (M = N \/ M = N + 1)
    BY <1>2, <1>5
  <2>2. \A n \in 2 .. M : n \notin Nodes => M = N + 1 /\ n = N + 1
    BY <1>2, <2>1
  <2> HIDE DEF N, M
  <2> QED  BY <1>5, <2>1, <2>2
<1>7. Configured' /\ ChainsPlanned'
  <2>1. Configured'
    BY <1>1 DEF GraphInv, Configured
  <2>2. \A j \in Indices : PlannedChain(outputs[j])' = PlannedChain(outputs[j])
    BY <1>1 DEF PlannedChain, Passthrough, Before, Decoding, Scaling, After, Encoding,
                Limiting, NeedsDecode, NeedsEncode, LeaderOf, Rates
  <2>3. chains = [j \in Indices |-> PlannedChain(outputs[j])]
    BY <1>1 DEF GraphInv, ChainsPlanned
  <2> QED  BY <1>1, <2>1, <2>2, <2>3 DEF ChainsPlanned
<1>8. Tree'
  <2>1. nodes'[1].input = 0
    <3>1. 1 \in Nodes /\ nodes[1].input = 0
      BY <1>2 DEF Tree
    <3> QED  BY <1>5, <3>1
  <2>2. ASSUME NEW n \in 2 .. M
        PROVE  nodes'[n].input \in 1 .. n - 1
    <3>1. CASE n \in Nodes
      BY <1>2, <1>5, <3>1 DEF Tree
    <3>2. CASE n \notin Nodes
      <4>1. n = p /\ M = N + 1
        BY <1>6, <3>2
      <4>2. n = N + 1 /\ nodes'[n].input = from
        BY <1>5, <4>1
      <4> QED  BY <1>2, <4>2
    <3> QED  BY <3>1, <3>2
  <2> QED  BY <1>5, <1>6, <2>1, <2>2 DEF Tree
<1>9. Progress'
  <2>1. parent' \in [Indices -> 1 .. M]
    <3>1. \A n \in Nodes : n \in 1 .. M
      BY <1>5
    <3> QED  BY <1>2, <1>5, <3>1
  <2>2. merged' \in [Indices -> Nat]
    BY <1>1, <1>2
  <2>3. ASSUME NEW j \in Indices
        PROVE  merged'[j] <= Len(chains'[j])
    <3>1. CASE j = i
      BY <1>1, <1>2, <1>3, <3>1
    <3>2. CASE j # i
      BY <1>1, <1>2, <3>2 DEF GraphInv, Progress
    <3> QED  BY <3>1, <3>2
  <2> QED  BY <1>1, <1>2, <2>1, <2>2, <2>3 DEF Progress
<1>10. SinksLast'
  BY <1>1, <1>2, <1>5, <1>6 DEF GraphInv, SinksLast
<1>11. \A A, m, q, t : m \in Nat /\ IsTrack(t, nodes, A, m, q) => IsTrack(t, nodes', A, m, q)
  BY <1>5, TrackKept DEF Nodes
<1>12. \E t : IsTrack(t, nodes, chains[i], merged[i], from)
  BY DEF GraphInv, Tracked, from
<1>13. ASSUME NEW t, IsTrack(t, nodes, chains[i], merged[i], from)
       PROVE  \E u : /\ IsTrack(u, nodes', chains'[i], merged'[i], parent'[i])
                     /\ u[merged'[i]] = p /\ \A k \in 0 .. merged[i] : u[k] = t[k]
  <2> DEFINE m == merged[i]
             u == ExtendTrack(t, m, p)
             chain == chains[i]
             tree == nodes'
  <2>1. IsTrack(t, nodes', chain, m, from)
    BY <1>2, <1>11, <1>13
  <2>2. e = chain[m + 1] /\ p \in DOMAIN nodes' /\ m \in Nat
    BY <1>2, <1>5 DEF e
  <2>3. m + 1 = merged'[i] /\ chain = chains'[i] /\ p = parent'[i]
    BY <1>1, <1>2 DEF p
  <2>5. Continues(tree, chain, m, from, p)
    BY <1>5, <2>2 DEF Continues
  <2>6. IsTrack(t, tree, chain, m, from)
    BY <2>1
  <2> HIDE DEF m, chain, tree, u
  <2>7. /\ IsTrack(ExtendTrack(t, m, p), tree, chain, m + 1, p)
        /\ Extends(ExtendTrack(t, m, p), t, m, p)
    BY <2>2, <2>5, <2>6, TrackExtended
  <2>4. IsTrack(u, nodes', chain, m + 1, p) /\ u[m + 1] = p
        /\ \A k \in 0 .. m : u[k] = t[k]
    BY <2>7 DEF u, tree, Extends
  <2> QED  BY <2>3, <2>4 DEF m
<1>14. ASSUME NEW j \in Indices
       PROVE  Tracked(j)'
  <2>1. CASE j = i
    <3>1. \E u : IsTrack(u, nodes', chains'[i], merged'[i], parent'[i])
      BY <1>12, <1>13
    <3> QED  BY <2>1, <3>1 DEF Tracked
  <2>2. CASE j # i
    <3>1. PICK t : IsTrack(t, nodes, chains[j], merged[j], parent[j])
      BY DEF GraphInv, Tracked
    <3>2. merged'[j] = merged[j] /\ parent'[j] = parent[j] /\ chains'[j] = chains[j]
          /\ merged[j] \in Nat
      BY <1>1, <1>2, <1>5, <2>2
    <3>3. IsTrack(t, nodes', chains'[j], merged'[j], parent'[j])
      BY <1>11, <3>1, <3>2
    <3> QED  BY <3>3 DEF Tracked
  <2> QED  BY <2>1, <2>2
<1>15. ASSUME NEW n \in 2 .. M
       PROVE  \E j \in Indices : MadeFor(n, j)'
  <2>1. CASE n \in Nodes
    <3>1. PICK j \in Indices : MadeFor(n, j)
      <4>1. n \in 2 .. Inner
        BY <1>2, <2>1
      <4> QED  BY <4>1 DEF GraphInv
    <3>2. PICK t, k : /\ IsTrack(t, nodes, chains[j], merged[j], parent[j])
                      /\ k \in 1 .. merged[j] /\ t[k] = n
                      /\ nodes[n] = Node(chains[j][k], nodes[n].input)
      BY <3>1 DEF MadeFor
    <3>3. nodes'[n] = nodes[n] /\ chains'[j] = chains[j]
      BY <1>1, <1>5, <2>1
    <3>4. nodes'[n] = Node(chains'[j][k], nodes'[n].input)
      BY <3>2, <3>3
    <3>5. CASE j = i
      <4>1. PICK u : /\ IsTrack(u, nodes', chains'[i], merged'[i], parent'[i])
                     /\ \A l \in 0 .. merged[i] : u[l] = t[l]
        BY <1>13, <3>2, <3>5 DEF from
      <4>2. k \in 1 .. merged'[i] /\ k \in 0 .. merged[i]
        BY <1>1, <1>2, <3>2, <3>5
      <4>3. u[k] = n
        BY <3>2, <4>1, <4>2
      <4>4. MadeFor(n, i)'
        BY <3>4, <3>5, <4>1, <4>2, <4>3 DEF MadeFor
      <4> QED  BY <4>4
    <3>6. CASE j # i
      <4>1. merged'[j] = merged[j] /\ parent'[j] = parent[j] /\ merged[j] \in Nat
        BY <1>1, <1>2, <1>5, <3>6
      <4>2. IsTrack(t, nodes', chains'[j], merged'[j], parent'[j])
        BY <1>11, <3>2, <3>3, <4>1
      <4>3. MadeFor(n, j)'
        BY <3>2, <3>4, <4>1, <4>2 DEF MadeFor
      <4> QED  BY <4>3
    <3> QED  BY <3>5, <3>6
  <2>2. CASE n \notin Nodes
    <3>1. n = p /\ nodes'[n] = Node(e, from)
      BY <1>6, <2>2
    <3>2. PICK t : IsTrack(t, nodes, chains[i], merged[i], from)
      BY <1>12
    <3>3. PICK u : /\ IsTrack(u, nodes', chains'[i], merged'[i], parent'[i])
                   /\ u[merged'[i]] = p
      BY <1>13, <3>2
    <3>4. merged'[i] \in 1 .. merged'[i] /\ merged'[i] = merged[i] + 1
      BY <1>1, <1>2
    <3>5. chains'[i][merged'[i]] = e
      BY <1>1, <3>4 DEF e
    <3>6. nodes'[n] = Node(chains'[i][merged'[i]], nodes'[n].input)
      BY <3>1, <3>5 DEF Node
    <3>7. MadeFor(n, i)'
      BY <3>1, <3>3, <3>4, <3>6 DEF MadeFor
    <3> QED  BY <3>7
  <2> QED  BY <2>1, <2>2
<1>16. Siblings'
  <2>1. ASSUME NEW m \in 2 .. M, NEW n \in 2 .. M,
               nodes'[m].input = nodes'[n].input, nodes'[m].type = nodes'[n].type,
               nodes'[m].config = nodes'[n].config, nodes'[m].type # "Encoder",
               n \notin Nodes, m \in Nodes
        PROVE  FALSE
    <3>1. nodes'[n] = Node(e, from) /\ Matches(from, e) = {}
      BY <1>6, <2>1
    <3>2. nodes'[n].input = from /\ nodes'[n].type = e.type /\ nodes'[n].config = e.config
      BY <3>1 DEF Node
    <3>3. nodes'[m] = nodes[m]
      BY <1>5, <2>1
    <3>4. nodes[m].input = from /\ nodes[m].type = e.type /\ nodes[m].config = e.config
          /\ e.type # "Encoder"
      BY <2>1, <3>2, <3>3
    <3>5. m \in Matches(from, e)
      BY <2>1, <3>4 DEF Matches, ChildrenOf, Nodes, SameConfig
    <3> QED  BY <3>1, <3>5
  <2>2. ASSUME NEW m \in 2 .. M, NEW n \in 2 .. M,
               nodes'[m].input = nodes'[n].input, nodes'[m].type = nodes'[n].type,
               nodes'[m].config = nodes'[n].config, nodes'[m].type # "Encoder"
        PROVE  m = n
    <3>1. CASE m \in Nodes /\ n \in Nodes
      <4>1. m \in 2 .. Inner /\ n \in 2 .. Inner /\ nodes'[m] = nodes[m] /\ nodes'[n] = nodes[n]
        BY <1>2, <1>5, <3>1
      <4> QED  BY <2>2, <4>1 DEF GraphInv, Siblings
    <3>2. CASE m \notin Nodes /\ n \notin Nodes
      BY <1>6, <3>2
    <3>3. CASE m \in Nodes /\ n \notin Nodes
      BY <2>1, <2>2, <3>3
    <3>4. CASE m \notin Nodes /\ n \in Nodes
      BY <2>1, <2>2, <3>4
    <3> QED  BY <3>1, <3>2, <3>3, <3>4
  <2> QED  BY <1>2, <2>2 DEF Siblings
<1> QED  BY <1>1, <1>2, <1>7, <1>8, <1>9, <1>10, <1>14, <1>15, <1>16 DEF GraphInv

(* So do the sinks, once all chains are merged.                            *)
LEMMA GraphInvSinks ==
  ASSUME GraphInv, AttachSinks
  PROVE  GraphInv'
<1> DEFINE S == [i \in Indices |-> Node([type |-> "Sink", config |-> i], parent[i])]
           N == Len(nodes)
           L == Len(outputs)
<1>1. /\ phase = "merge" /\ phase' = "planned" /\ ~Planned /\ Planned'
      /\ UNCHANGED <<input, outputs, chains, parent, merged>>
      /\ Indices' = Indices /\ nodes' = nodes \o S
      /\ \A i \in Indices : merged[i] = Len(chains[i])
  BY DEF AttachSinks, Planned, Indices
<1>2. /\ Inner = N /\ N \in Nat \ {0} /\ IsSeq(nodes) /\ Nodes = 1 .. N /\ Tree
      /\ parent \in [Indices -> Nodes]
      /\ L \in Nat /\ Indices = 1 .. L
  BY <1>1, TreeNodes, OutputFacts DEF GraphInv, Progress, Inner, Configured, Tree
<1>3. IsSeq(S) /\ Len(S) = L /\ \A i \in Indices :
        S[i] = Node([type |-> "Sink", config |-> i], parent[i])
  <2>1. S = [i \in 1 .. L |-> S[i]]
    BY <1>2
  <2>2. \A i \in Indices : S[i] = Node([type |-> "Sink", config |-> i], parent[i])
    OBVIOUS
  <2> HIDE DEF S, L
  <2> QED  BY <1>2, <2>1, <2>2, SeqMade
<1> HIDE DEF S
<1>4. /\ IsSeq(nodes') /\ Len(nodes') = N + L /\ DOMAIN nodes' = 1 .. N + L
      /\ \A n \in 1 .. N : nodes'[n] = nodes[n]
      /\ \A i \in 1 .. L : nodes'[N + i] = S[i]
  <2>1. IsSeq(nodes) /\ IsSeq(S)
    BY <1>2, <1>3
  <2>2. Joins(nodes', nodes, S)
    BY <1>1, <2>1, ConcatJoins
  <2> QED  BY <1>3, <2>2 DEF Joins
<1>5. Inner' = N
  <2>1. Inner' = Len(nodes') - Len(outputs)
    BY <1>1 DEF Inner
  <2> HIDE DEF N
  <2> QED  BY <1>2, <1>4, <2>1
<1>6. Configured' /\ ChainsPlanned'
  <2>1. Configured'
    BY <1>1 DEF GraphInv, Configured
  <2>2. \A j \in Indices : PlannedChain(outputs[j])' = PlannedChain(outputs[j])
    BY <1>1 DEF PlannedChain, Passthrough, Before, Decoding, Scaling, After, Encoding,
                Limiting, NeedsDecode, NeedsEncode, LeaderOf, Rates
  <2>3. chains = [j \in Indices |-> PlannedChain(outputs[j])]
    BY <1>1 DEF GraphInv, ChainsPlanned
  <2> QED  BY <1>1, <2>1, <2>2, <2>3 DEF ChainsPlanned
<1>7. Tree'
  <2>1. Len(nodes') # 0 /\ nodes'[1].input = 0
    <3>1. 1 \in 1 .. N
      BY <1>2
    <3>2. nodes'[1] = nodes[1] /\ nodes[1].input = 0
      BY <1>2, <1>4, <3>1 DEF Tree
    <3> QED  BY <1>2, <1>4, <3>2
  <2>2. ASSUME NEW n \in 2 .. N + L
        PROVE  nodes'[n].input \in 1 .. n - 1
    <3>1. CASE n \in 2 .. N
      <4>1. nodes[n].input \in 1 .. n - 1 /\ n \in 1 .. N
        BY <1>2, <3>1 DEF Tree
      <4> QED  BY <1>4, <4>1
    <3>2. CASE n \notin 2 .. N
      <4>1. PICK i \in 1 .. L : n = N + i
        <5>1. n - N \in 1 .. L /\ n = N + (n - N)
          BY <1>2, <3>2
        <5> QED  BY <5>1
      <4>2. nodes'[n] = S[i] /\ i \in Indices
        BY <1>2, <1>4, <4>1
      <4>3. nodes'[n] = Node([type |-> "Sink", config |-> i], parent[i])
        BY <1>3, <4>2
      <4>4. nodes'[n].input = parent[i]
        BY <4>3 DEF Node
      <4>5. parent[i] \in 1 .. N
        BY <1>2, <4>2
      <4> QED  BY <1>2, <4>1, <4>4, <4>5
    <3> QED  BY <3>1, <3>2
  <2> QED  BY <1>4, <2>1, <2>2 DEF Tree
<1>8. Progress'
  <2>1. /\ parent' \in [Indices' -> 1 .. Inner'] /\ merged' \in [Indices' -> Nat]
        /\ \A i \in Indices' : merged'[i] = Len(chains'[i]) /\ Len(chains'[i]) \in Nat
    BY <1>1, <1>2, <1>5 DEF GraphInv, Progress
  <2>2. phase' \notin {"compute", "optimize"}
    BY <1>1
  <2>3. \A i \in Indices' : merged'[i] <= Len(chains'[i])
    BY <2>1
  <2> QED  BY <2>1, <2>2, <2>3 DEF Progress
<1>9. SinksLast'
  <2>1. nodes'[1].type = "Source" /\ Inner' \in Nat \ {0}
    <3>1. 1 \in 1 .. N
      BY <1>2
    <3>2. nodes'[1] = nodes[1]
      BY <1>4, <3>1
    <3> QED  BY <1>2, <1>5, <3>2 DEF GraphInv, SinksLast
  <2>2. \A i \in Indices : nodes'[N + i] = Node([type |-> "Sink", config |-> i], parent[i])
    BY <1>2, <1>3, <1>4
  <2> QED  BY <1>1, <1>5, <2>1, <2>2 DEF SinksLast
<1>10. \A A, m, q, t : m \in Nat /\ IsTrack(t, nodes, A, m, q) => IsTrack(t, nodes', A, m, q)
  <2>1. \A n \in DOMAIN nodes : n \in DOMAIN nodes' /\ nodes'[n] = nodes[n]
    <3>1. DOMAIN nodes = 1 .. N /\ \A n \in 1 .. N : n \in 1 .. N + L
      BY <1>2 DEF Nodes
    <3> QED  BY <1>4, <3>1
  <2> QED  BY <2>1, TrackKept
<1>11. ASSUME NEW i \in Indices
       PROVE  Tracked(i)' /\ \A n \in 2 .. N : MadeFor(n, i) => MadeFor(n, i)'
  <2>1. merged[i] \in Nat /\ merged'[i] = merged[i] /\ chains'[i] = chains[i]
        /\ parent'[i] = parent[i]
    BY <1>1 DEF GraphInv, Progress
  <2>2. Tracked(i)'
    <3>1. PICK t : IsTrack(t, nodes, chains[i], merged[i], parent[i])
      BY DEF GraphInv, Tracked
    <3>2. IsTrack(t, nodes', chains'[i], merged'[i], parent'[i])
      BY <1>10, <2>1, <3>1
    <3> QED  BY <3>2 DEF Tracked
  <2>3. ASSUME NEW n \in 2 .. N, MadeFor(n, i)
        PROVE  MadeFor(n, i)'
    <3>1. PICK t, k : /\ IsTrack(t, nodes, chains[i], merged[i], parent[i])
                      /\ k \in 1 .. merged[i] /\ t[k] = n
                      /\ nodes[n] = Node(chains[i][k], nodes[n].input)
      BY <2>3 DEF MadeFor
    <3>2. IsTrack(t, nodes', chains'[i], merged'[i], parent'[i])
      BY <1>10, <2>1, <3>1
    <3>3. nodes'[n] = nodes[n]
      <4>1. n \in 1 .. N
        BY <1>2, <2>3
      <4> QED  BY <1>4, <4>1
    <3>4. k \in 1 .. merged'[i] /\ nodes'[n] = Node(chains'[i][k], nodes'[n].input)
      BY <2>1, <3>1, <3>3
    <3> QED  BY <3>1, <3>2, <3>4 DEF MadeFor
  <2> QED  BY <2>2, <2>3
<1>12. Siblings'
  <2>1. \A n \in 2 .. N : nodes'[n] = nodes[n] /\ n \in 2 .. Inner
    <3>1. \A n \in 2 .. N : n \in 1 .. N
      BY <1>2
    <3> QED  BY <1>2, <1>4, <3>1
  <2>2. ASSUME NEW m \in 2 .. N, NEW n \in 2 .. N,
               nodes'[m].input = nodes'[n].input, nodes'[m].type = nodes'[n].type,
               nodes'[m].config = nodes'[n].config, nodes'[m].type # "Encoder"
        PROVE  m = n
    BY <2>1, <2>2 DEF GraphInv, Siblings
  <2> QED  BY <1>5, <2>2 DEF Siblings
<1>13. \A n \in 2 .. Inner' : \E i \in Indices' : MadeFor(n, i)'
  <2>1. \A n \in 2 .. N : \E i \in Indices : MadeFor(n, i)
    BY <1>2 DEF GraphInv
  <2> QED  BY <1>1, <1>5, <1>11, <2>1
<1>14. \A i \in Indices' : Tracked(i)'
  BY <1>1, <1>11
<1> QED  BY <1>6, <1>7, <1>8, <1>9, <1>12, <1>13, <1>14 DEF GraphInv

(* What the builder does with a plan does not change it.                   *)
LEMMA GraphInvKept ==
  ASSUME GraphInv, UNCHANGED <<input, outputs, chains, nodes, parent, merged>>,
         phase' = phase \/ (Planned /\ phase' \in {"realize", "link", "built"})
  PROVE  GraphInv'
<1>1. /\ Indices' = Indices /\ Planned' = Planned /\ Inner' = Inner
      /\ phase \in {"compute", "optimize"} <=> phase' \in {"compute", "optimize"}
      /\ phase = "compute" <=> phase' = "compute"
      /\ phase = "optimize" <=> phase' = "optimize"
  BY DEF Indices, Planned, Inner
<1>2. Configured' /\ Tree' /\ Progress' /\ SinksLast' /\ Siblings'
  BY <1>1 DEF GraphInv, Configured, Tree, Progress, SinksLast, Siblings
<1>3. ChainsPlanned'
  <2>1. \A j \in Indices : /\ PlannedChain(outputs[j])' = PlannedChain(outputs[j])
                           /\ Chain(outputs[j])' = Chain(outputs[j])
    BY <1>1 DEF PlannedChain, Passthrough, Before, Decoding, Scaling, After, Encoding,
                Limiting, NeedsDecode, NeedsEncode, LeaderOf, Rates, Chain
  <2> QED  BY <1>1, <2>1 DEF GraphInv, ChainsPlanned
<1>4. \A i \in Indices : Tracked(i)' /\ \A n : MadeFor(n, i) => MadeFor(n, i)'
  BY DEF GraphInv, Tracked, MadeFor
<1> QED  BY <1>1, <1>2, <1>3, <1>4 DEF GraphInv

(* The beginning again, as an implication.                                 *)
LEMMA GraphInitInv == GraphInit => GraphInv
BY GraphInvInit

(* The plan stays as it should be in every step.                           *)
LEMMA GraphInvStep ==
  ASSUME GraphInv, [Next]_vars
  PROVE  GraphInv'
<1>1. CASE Plan
  BY <1>1, GraphInvChains, GraphInvMerge, GraphInvSinks DEF Plan, GraphNext
<1>2. CASE SelectBackends
  BY <1>2, GraphInvKept DEF SelectBackends, Planned
<1>3. CASE \E n \in Nodes : RealizeNode(n) \/ LinkNode(n) \/ RealizeOutput(n)
  BY <1>3, GraphInvKept DEF RealizeNode, LinkNode, RealizeOutput, graphVars
<1>4. CASE AllRealized \/ Built
  BY <1>4, GraphInvKept DEF AllRealized, Built, Planned
<1>5. CASE Fail
  <2>1. GraphInit'
    BY <1>5 DEF Fail, GraphInit, GraphInv, Configured, Indices
  <2>2. GraphInit' => GraphInv'
    BY GraphInitInv, PTL
  <2> QED  BY <2>1, <2>2
<1>6. CASE UNCHANGED vars
  BY <1>6, GraphInvKept DEF vars, graphVars
<1> QED  BY <1>1, <1>2, <1>3, <1>4, <1>5, <1>6 DEF Next

-----------------------------------------------------------------------------
(* What the plan's nodes are.                                              *)

(* The source, the nodes made for elements, and the sinks, in this order.  *)
LEMMA NodeKinds ==
  ASSUME GraphInv
  PROVE  /\ Inner \in Nodes /\ Nodes = 1 .. Len(nodes) /\ Len(nodes) \in Nat
         /\ Len(outputs) \in Nat /\ Indices = 1 .. Len(outputs)
         /\ Planned => Len(nodes) = Inner + Len(outputs)
         /\ ~Planned => Len(nodes) = Inner
         /\ nodes[1].type = "Source" /\ nodes[1].input = 0
         /\ \A n \in 2 .. Inner :
              /\ n \in Nodes
              /\ \E e \in Elements : nodes[n] = Node(e, nodes[n].input)
              /\ nodes[n].type \in {"FramerateLimit", "Decoder", "Scale", "Encoder"}
         /\ Planned => \A i \in Indices :
              /\ Inner + i \in Nodes /\ nodes[Inner + i].type = "Sink"
              /\ nodes[Inner + i].config = i /\ nodes[Inner + i].input = parent[i]
<1>1. /\ Nodes = 1 .. Len(nodes) /\ Len(nodes) \in Nat /\ Inner \in Nat \ {0}
      /\ Len(outputs) \in Nat /\ Indices = 1 .. Len(outputs)
  BY TreeNodes, OutputFacts DEF GraphInv, Configured, SinksLast
<1>2. /\ Planned => Len(nodes) = Inner + Len(outputs)
      /\ ~Planned => Len(nodes) = Inner
  BY <1>1 DEF Inner
<1>3. Inner \in Nodes /\ nodes[1].type = "Source" /\ nodes[1].input = 0
  BY <1>1, <1>2 DEF GraphInv, SinksLast, Tree
<1>4. ASSUME NEW n \in 2 .. Inner
      PROVE  /\ n \in Nodes
             /\ \E e \in Elements : nodes[n] = Node(e, nodes[n].input)
             /\ nodes[n].type \in {"FramerateLimit", "Decoder", "Scale", "Encoder"}
  <2>1. PICK i \in Indices : MadeFor(n, i)
    BY DEF GraphInv
  <2>2. PICK k \in 1 .. merged[i] : nodes[n] = Node(chains[i][k], nodes[n].input)
    BY <2>1 DEF MadeFor
  <2>3. chains[i] \in Seq(Elements) \/ chains[i] = <<>>
    BY ChainElements DEF GraphInv, Configured, ChainsPlanned
  <2>4. k \in 1 .. Len(chains[i])
    <3>1. merged[i] \in Nat /\ merged[i] <= Len(chains[i]) /\ Len(chains[i]) \in Nat
      BY <2>3 DEF GraphInv, Progress
    <3> QED  BY <3>1
  <2>5. chains[i][k] \in Elements
    <3> DEFINE s == chains[i]
    <3>1. s \in Seq(Elements)
      BY <2>3, <2>4
    <3> HIDE DEF s
    <3>2. \A j \in 1 .. Len(s) : s[j] \in Elements
      BY <3>1
    <3> QED  BY <2>4, <3>2 DEF s
  <2>6. nodes[n].type = chains[i][k].type
    BY <2>2 DEF Node
  <2>7. chains[i][k].type \in {"FramerateLimit", "Decoder", "Scale", "Encoder"}
    BY <2>5, ElementParts DEF GraphInv, Configured
  <2>8. n \in Nodes
    BY <1>1, <1>3
  <2> QED  BY <2>2, <2>5, <2>6, <2>7, <2>8
<1>5. ASSUME Planned, NEW i \in Indices
      PROVE  /\ Inner + i \in Nodes /\ nodes[Inner + i].type = "Sink"
             /\ nodes[Inner + i].config = i /\ nodes[Inner + i].input = parent[i]
  <2>1. nodes[Inner + i] = Node([type |-> "Sink", config |-> i], parent[i])
    BY <1>5 DEF GraphInv, SinksLast
  <2>2. Inner + i \in Nodes
    BY <1>1, <1>2, <1>5
  <2> QED  BY <2>1, <2>2 DEF Node
<1> QED  BY <1>1, <1>2, <1>3, <1>4, <1>5

(* The sinks are the last nodes, one for each output.                      *)
LEMMA SinkNodes ==
  ASSUME GraphInv, Planned
  PROVE  /\ Sinks = {Inner + i : i \in Indices}
         /\ Sinks = Nodes \ (1 .. Inner)
         /\ \A i \in Indices : SinkOf(i) = Inner + i
<1>1. Sinks \subseteq Nodes /\ \A n \in Nodes : n \in Sinks <=> nodes[n].type = "Sink"
  BY DEF Sinks, Nodes
<1>2. \A n \in 1 .. Inner : nodes[n].type # "Sink"
  <2>1. \A n \in 1 .. Inner : n = 1 \/ n \in 2 .. Inner
    BY NodeKinds
  <2> QED  BY <2>1, NodeKinds
<1>3. \A i \in Indices : Inner + i \in Sinks /\ nodes[Inner + i].config = i
  BY <1>1, NodeKinds
<1>4. ASSUME NEW n \in Nodes, n \notin 1 .. Inner
      PROVE  \E i \in Indices : n = Inner + i
  <2>1. n - Inner \in Indices /\ n = Inner + (n - Inner)
    BY <1>4, NodeKinds
  <2> QED  BY <2>1
<1>5. Sinks = {Inner + i : i \in Indices} /\ Sinks = Nodes \ (1 .. Inner)
  <2>1. \A n \in Sinks : n \in Nodes /\ n \notin 1 .. Inner
    BY <1>1, <1>2
  <2>2. \A n \in Nodes : n \notin 1 .. Inner => n \in Sinks
    BY <1>3, <1>4
  <2> QED  BY <1>3, <1>4, <2>1, <2>2
<1>6. ASSUME NEW i \in Indices
      PROVE  SinkOf(i) = Inner + i
  <2>1. \A m \in Sinks : nodes[m].config = i => m = Inner + i
    BY <1>3, <1>5
  <2>2. \E m \in Sinks : nodes[m].config = i
    BY <1>3
  <2> QED  BY <2>1, <2>2 DEF SinkOf
<1> QED  BY <1>5, <1>6

-----------------------------------------------------------------------------
(* The streams in the tree, and the formats that are reported for them.    *)

Streams ==
  [format : Formats, limits : SUBSET Nat,
   size : {FullSize} \cup {outputs[i].size : i \in Indices},
   encoder : {{"none"}} \cup {outputs[i].encoder : i \in Indices},
   sound : BOOLEAN]

(* What an element makes of a stream.                                      *)
Effect(stream, e) ==
  CASE e.type = "FramerateLimit" -> Limit(stream, e.config)
    [] e.type = "Decoder"        -> Decode(stream, e.config)
    [] e.type = "Scale"          -> Resize(stream, e.config)
    [] e.type = "Encoder"        -> Encode(stream, e.config)
    [] OTHER -> stream

(* A stream is one behind any element of a chain.                          *)
LEMMA EffectType ==
  ASSUME outputs \in OutputLists, NEW x \in Streams, NEW e,
         e.type \notin {"FramerateLimit", "Decoder", "Scale", "Encoder"}
           \/ \E a \in Elements : e.type = a.type /\ e.config = a.config
  PROVE  Effect(x, e) \in Streams
<1>1. /\ x.format \in Formats /\ x.limits \in SUBSET Nat /\ x.sound \in BOOLEAN
      /\ x.size \in {FullSize} \cup {outputs[i].size : i \in Indices}
      /\ x.encoder \in {{"none"}} \cup {outputs[i].encoder : i \in Indices}
      /\ x = [format |-> x.format, limits |-> x.limits, size |-> x.size,
              encoder |-> x.encoder, sound |-> x.sound]
  BY DEF Streams
<1>2. CASE e.type \notin {"FramerateLimit", "Decoder", "Scale", "Encoder"}
  BY <1>2 DEF Effect
<1>3. CASE \E a \in Elements : e.type = a.type /\ e.config = a.config
  <2>1. PICK a \in Elements : e.type = a.type /\ e.config = a.config
    BY <1>3
  <2>2. ASSUME NEW r \in Nat
        PROVE  Limit(x, r) \in Streams
    BY <1>1 DEF Limit, Streams
  <2>3. ASSUME NEW f
        PROVE  Decode(x, f) \in Streams
    BY <1>1 DEF Decode, Streams, Formats
  <2>4. ASSUME NEW i \in Indices
        PROVE  Resize(x, outputs[i].size) \in Streams
    BY <1>1 DEF Resize, Streams
  <2>5. ASSUME NEW i \in Indices, TargetCompressed(outputs[i]) \in Compressed
        PROVE  Encode(x, EncoderKey(outputs[i])) \in Streams
    BY <1>1, <2>5 DEF Encode, EncoderKey, Streams, Compressed
  <2>6. CASE \E r \in Nat : a = FramerateLimit(r)
    BY <2>1, <2>2, <2>6 DEF Effect, FramerateLimit
  <2>7. CASE \E f \in {input} \cap Compressed : a = Decoder(f)
    BY <2>1, <2>3, <2>7 DEF Effect, Decoder
  <2>8. CASE \E i \in Indices : a = Scale(outputs[i].size)
    BY <2>1, <2>4, <2>8 DEF Effect, Scale
  <2>9. CASE \E i \in Indices : /\ TargetCompressed(outputs[i]) \in Compressed
                                /\ a = Encoder(EncoderKey(outputs[i]))
    BY <2>1, <2>5, <2>9 DEF Effect, Encoder
  <2> QED  BY <2>6, <2>7, <2>8, <2>9 DEF Elements
<1> QED  BY <1>2, <1>3

(* A node has the effect of its element, and a stream at every node is one. *)
LEMMA ThroughIs ==
  ASSUME GraphInv, NEW n \in Nodes, NEW x \in Streams
  PROVE  Through(x, n) = Effect(x, nodes[n]) /\ Through(x, n) \in Streams
<1>1. Through(x, n) = Effect(x, nodes[n])
  BY DEF Through, Effect
<1>2. \/ nodes[n].type \notin {"FramerateLimit", "Decoder", "Scale", "Encoder"}
      \/ \E a \in Elements : nodes[n].type = a.type /\ nodes[n].config = a.config
  <2>1. CASE n \in 2 .. Inner
    <3>1. PICK a \in Elements : nodes[n] = Node(a, nodes[n].input)
      BY <2>1, NodeKinds
    <3>2. nodes[n].type = a.type /\ nodes[n].config = a.config
      BY <3>1 DEF Node
    <3> QED  BY <3>2
  <2>2. CASE n = 1
    BY <2>2, NodeKinds
  <2>3. CASE n \notin 1 .. Inner
    <3>1. Planned
      BY <2>3, NodeKinds
    <3>2. n \in Sinks
      BY <2>3, <3>1, SinkNodes
    <3> QED  BY <3>2 DEF Sinks
  <2>4. n \in Nat \ {0} /\ Inner \in Nat
    BY NodeKinds
  <2> QED  BY <2>1, <2>2, <2>3, <2>4
<1> DEFINE e == nodes[n]
<1>3. \/ e.type \notin {"FramerateLimit", "Decoder", "Scale", "Encoder"}
      \/ \E a \in Elements : e.type = a.type /\ e.config = a.config
  BY <1>2
<1> HIDE DEF e
<1>4. Effect(x, e) \in Streams
  BY <1>3, EffectType DEF GraphInv, Configured
<1> QED  BY <1>1, <1>4 DEF e

(* What the input delivers is a stream.                                    *)
LEMMA CapturedType ==
  ASSUME input \in InputFormats
  PROVE  Captured \in Streams
BY PlanAssumption DEF Captured, Streams

(* The stream behind a node is that of its input with its effect.          *)
LEMMA StreamStep ==
  ASSUME GraphInv
  PROVE  \A n \in Nodes :
           /\ StreamAt[n] \in Streams
           /\ StreamAt[n] = Through(IF nodes[n].input = 0 THEN Captured
                                    ELSE StreamAt[nodes[n].input], n)
<1>0. Tree /\ Captured \in Streams
  BY CapturedType DEF GraphInv, Configured
<1>1. Nodes = 1 .. Len(nodes) /\ Len(nodes) \in Nat /\ 1 \in Nodes
  BY <1>0, TreeNodes
<1> DEFINE N == Len(nodes)
           up == [n \in 1 .. N |-> nodes[n].input]
           base == [n \in 1 .. N |-> Through(Captured, n)]
           G == [x \in (1 .. N) \X Streams |-> Through(x[2], x[1])]
           Step(f) == [n \in DOMAIN nodes |->
                         Through(IF nodes[n].input = 0 THEN Captured
                                 ELSE f[nodes[n].input], n)]
<1>2. up \in [1 .. N -> Nat] /\ \A n \in 1 .. N : up[n] \in 0 .. n - 1
  BY <1>0, <1>1 DEF Tree
<1>3. base \in [1 .. N -> Streams] /\ G \in [(1 .. N) \X Streams -> Streams]
  <2>1. \A n \in 1 .. N, x \in Streams : Through(x, n) \in Streams
    BY <1>1, ThroughIs
  <2> QED  BY <1>0, <2>1
<1>4. PICK f \in [1 .. N -> Streams] :
        \A n \in 1 .. N :
          f[n] = IF up[n] = 0 THEN base[n] ELSE G[<<n, f[up[n]]>>]
  <2>1. N \in Nat /\ \A n \in 1 .. N : up[n] < n
    BY <1>1, <1>2
  <2> HIDE DEF N, base, G, up
  <2>2. RecursionDefines(N, up, Streams, base, G)
    BY <1>2, <1>3, <2>1, TreeRecursion
  <2> QED  BY <2>2 DEF RecursionDefines
<1>5. ASSUME NEW n \in 1 .. N
      PROVE  f[n] = Through(IF nodes[n].input = 0 THEN Captured
                            ELSE f[nodes[n].input], n)
  <2>1. CASE nodes[n].input = 0
    BY <1>4, <2>1
  <2>2. CASE nodes[n].input # 0
    <3>1. nodes[n].input \in 1 .. N
      BY <1>1, <1>2, <2>2
    <3>2. f[nodes[n].input] \in Streams
      BY <3>1
    <3>3. f[n] = G[<<n, f[nodes[n].input]>>]
      BY <1>4, <2>2
    <3>4. G[<<n, f[nodes[n].input]>>] = Through(f[nodes[n].input], n)
      BY <3>2
    <3> QED  BY <2>2, <3>3, <3>4
  <2> QED  BY <2>1, <2>2
<1>6. f = Step(f)
  <2> DEFINE g == Step(f)
  <2>1. \A n \in 1 .. N : g[n] = f[n]
    BY <1>1, <1>5 DEF Nodes
  <2>2. g = [n \in 1 .. N |-> g[n]] /\ f = [n \in 1 .. N |-> f[n]]
    BY <1>1 DEF Nodes
  <2> HIDE DEF g
  <2>3. f = g
    BY <2>1, <2>2
  <2> QED  BY <2>3 DEF g
<1>7. StreamAt = Step(StreamAt)
  BY <1>6 DEF StreamAt
<1>8. \A n \in Nodes :
        StreamAt[n] = Through(IF nodes[n].input = 0 THEN Captured
                              ELSE StreamAt[nodes[n].input], n)
  <2> DEFINE g == Step(StreamAt)
  <2>1. \A n \in Nodes : g[n] = Through(IF nodes[n].input = 0 THEN Captured
                                        ELSE StreamAt[nodes[n].input], n)
    BY DEF Nodes
  <2> HIDE DEF g
  <2>2. StreamAt = g
    BY <1>7 DEF g
  <2> QED  BY <2>1, <2>2
<1>9. \A n \in Nodes : StreamAt[n] \in Streams
  <2> DEFINE T == {n \in Nodes : StreamAt[n] \in Streams}
  <2>1. ASSUME NEW n \in Nodes, nodes[n].input \in T \cup {0}
        PROVE  StreamAt[n] \in Streams
    <3> DEFINE x == IF nodes[n].input = 0 THEN Captured ELSE StreamAt[nodes[n].input]
    <3>1. x \in Streams
      BY <1>0, <2>1
    <3>2. StreamAt[n] = Through(x, n)
      BY <1>8
    <3> HIDE DEF x
    <3> QED  BY <3>1, <3>2, ThroughIs
  <2>2. Nodes \subseteq T
    <3>1. \A n \in Nodes : nodes[n].input \in T \cup {0} => n \in T
      BY <2>1
    <3> HIDE DEF T
    <3> QED  BY <1>0, <3>1, TreeInduction
  <2> QED  BY <2>2
<1> QED  BY <1>8, <1>9

(* The format reported behind a node: that of the node if it sets one, or  *)
(* else the one before it.                                                 *)
Sets(e, format) ==
  IF e.type = "Encoder" THEN e.config.codec
  ELSE IF e.type \in {"Decoder", "Scale"} THEN "RAW"
  ELSE IF e.type = "Source" THEN input
  ELSE format

(* So it is for every node.                                                *)
LEMMA ResolvedStep ==
  ASSUME GraphInv
  PROVE  \A n \in Nodes :
           Resolved[n] = Sets(nodes[n], IF nodes[n].input = 0 THEN input
                                        ELSE Resolved[nodes[n].input])
<1>0. Tree /\ input \in Formats
  BY PlanAssumption DEF GraphInv, Configured
<1>1. Nodes = 1 .. Len(nodes) /\ Len(nodes) \in Nat /\ 1 \in Nodes
  BY <1>0, TreeNodes
<1> DEFINE N == Len(nodes)
           up == [n \in 1 .. N |-> nodes[n].input]
           base == [n \in 1 .. N |-> Sets(nodes[n], input)]
           G == [x \in (1 .. N) \X Formats |-> Sets(nodes[x[1]], x[2])]
           Step(f) == [n \in DOMAIN nodes |->
                         IF nodes[n].type = "Encoder" THEN nodes[n].config.codec
                         ELSE IF nodes[n].type \in {"Decoder", "Scale"} THEN "RAW"
                         ELSE IF nodes[n].type = "Source" THEN input
                         ELSE f[nodes[n].input]]
<1>2. up \in [1 .. N -> Nat] /\ \A n \in 1 .. N : up[n] \in 0 .. n - 1
  BY <1>0, <1>1 DEF Tree
<1>3. base \in [1 .. N -> Formats] /\ G \in [(1 .. N) \X Formats -> Formats]
  <2>1. ASSUME NEW n \in 1 .. N, NEW x \in Formats
        PROVE  Sets(nodes[n], x) \in Formats
    <3>1. CASE nodes[n].type = "Encoder"
      <4>1. n \in 2 .. Inner
        <5>1. n # 1
          BY <3>1, NodeKinds
        <5>2. CASE n \notin 1 .. Inner
          <6>1. Planned
            BY <1>1, <5>2, NodeKinds
          <6>2. n \in Sinks
            BY <1>1, <5>2, <6>1, SinkNodes
          <6> QED  BY <3>1, <6>2 DEF Sinks
        <5>3. Inner \in Nat
          BY NodeKinds
        <5> QED  BY <1>1, <5>1, <5>2, <5>3
      <4>2. PICK e \in Elements : nodes[n] = Node(e, nodes[n].input)
        BY <4>1, NodeKinds
      <4>3. e.type = "Encoder" /\ nodes[n].config = e.config
        BY <3>1, <4>2 DEF Node
      <4>4. e.config.codec \in Compressed
        BY <4>3, ElementParts DEF GraphInv, Configured
      <4> QED  BY <3>1, <4>3, <4>4 DEF Sets, Compressed
    <3>2. CASE nodes[n].type # "Encoder"
      BY <1>0, <3>2 DEF Sets, Formats
    <3> QED  BY <3>1, <3>2
  <2> QED  BY <1>0, <2>1
<1>4. PICK f \in [1 .. N -> Formats] :
        \A n \in 1 .. N :
          f[n] = IF up[n] = 0 THEN base[n] ELSE G[<<n, f[up[n]]>>]
  <2>1. N \in Nat /\ \A n \in 1 .. N : up[n] < n
    BY <1>1, <1>2
  <2> HIDE DEF N, base, G, up
  <2>2. RecursionDefines(N, up, Formats, base, G)
    BY <1>2, <1>3, <2>1, TreeRecursion
  <2> QED  BY <2>2 DEF RecursionDefines
<1>5. ASSUME NEW n \in 1 .. N
      PROVE  f[n] = Sets(nodes[n], IF nodes[n].input = 0 THEN input
                                   ELSE f[nodes[n].input])
  <2>1. CASE nodes[n].input = 0
    BY <1>4, <2>1
  <2>2. CASE nodes[n].input # 0
    <3>1. nodes[n].input \in 1 .. N
      BY <1>1, <1>2, <2>2
    <3>2. f[nodes[n].input] \in Formats
      BY <3>1
    <3>3. f[n] = G[<<n, f[nodes[n].input]>>]
      BY <1>4, <2>2
    <3>4. G[<<n, f[nodes[n].input]>>] = Sets(nodes[n], f[nodes[n].input])
      BY <3>2
    <3> QED  BY <2>2, <3>3, <3>4
  <2> QED  BY <2>1, <2>2
<1>6. \A g : \A n \in Nodes :
        Sets(nodes[n], IF nodes[n].input = 0 THEN input ELSE g[nodes[n].input])
          = IF nodes[n].type = "Encoder" THEN nodes[n].config.codec
            ELSE IF nodes[n].type \in {"Decoder", "Scale"} THEN "RAW"
            ELSE IF nodes[n].type = "Source" THEN input
            ELSE g[nodes[n].input]
  <2>1. \A n \in Nodes : nodes[n].input = 0 => nodes[n].type = "Source"
    BY <1>0, NodeInput, NodeKinds
  <2> QED  BY <2>1 DEF Sets
<1>7. f = Step(f)
  <2> DEFINE g == Step(f)
  <2>1. \A n \in 1 .. N : g[n] = f[n]
    BY <1>1, <1>5, <1>6 DEF Nodes
  <2>2. g = [n \in 1 .. N |-> g[n]] /\ f = [n \in 1 .. N |-> f[n]]
    BY <1>1 DEF Nodes
  <2> HIDE DEF g
  <2>3. f = g
    BY <2>1, <2>2
  <2> QED  BY <2>3 DEF g
<1>8. Resolved = Step(Resolved)
  BY <1>7 DEF Resolved
<1> DEFINE g == Step(Resolved)
<1>9. \A n \in Nodes :
        g[n] = IF nodes[n].type = "Encoder" THEN nodes[n].config.codec
               ELSE IF nodes[n].type \in {"Decoder", "Scale"} THEN "RAW"
               ELSE IF nodes[n].type = "Source" THEN input
               ELSE Resolved[nodes[n].input]
  BY DEF Nodes
<1>10. Resolved = g
  BY <1>8
<1> HIDE DEF g
<1>11. \A n \in Nodes :
         Resolved[n] = IF nodes[n].type = "Encoder" THEN nodes[n].config.codec
                       ELSE IF nodes[n].type \in {"Decoder", "Scale"} THEN "RAW"
                       ELSE IF nodes[n].type = "Source" THEN input
                       ELSE Resolved[nodes[n].input]
  <2>1. \A n \in Nodes : Resolved[n] = g[n]
    BY <1>10
  <2> QED  BY <1>9, <2>1
<1> QED  BY <1>6, <1>11

(* The elements of a planned chain.                                        *)
LEMMA ChainElementAt ==
  ASSUME GraphInv, NEW i \in Indices
  PROVE  /\ chains[i] \in Seq(Elements) /\ Len(chains[i]) \in Nat
         /\ \A k \in 1 .. Len(chains[i]) : chains[i][k] \in Elements
         /\ merged[i] \in Nat /\ merged[i] <= Len(chains[i])
<1>1. chains[i] \in Seq(Elements)
  <2>1. chains[i] = <<>> \/ chains[i] = Chain(outputs[i]) \/ chains[i] = PlannedChain(outputs[i])
    BY DEF GraphInv, ChainsPlanned
  <2>2. <<>> \in Seq(Elements)
    OBVIOUS
  <2> QED  BY <2>1, <2>2, ChainElements DEF GraphInv, Configured
<1> DEFINE s == chains[i]
<1>2. s \in Seq(Elements)
  BY <1>1
<1> HIDE DEF s
<1>3. Len(s) \in Nat /\ \A k \in 1 .. Len(s) : s[k] \in Elements
  BY <1>2
<1> QED  BY <1>2, <1>3 DEF s, GraphInv, Progress

(* Encoders whose keys differ only in the framerate have the same effect.  *)
LEMMA SameEffect ==
  ASSUME outputs \in OutputLists,
         NEW a \in Elements, NEW b \in Elements, a.type = b.type,
         SameConfig(a, b), NEW x, NEW f
  PROVE  Effect(x, a) = Effect(x, b) /\ Sets(a, f) = Sets(b, f)
<1>1. CASE a.type = "Encoder"
  <2>1. PICK i, j \in Indices : a.config = EncoderKey(outputs[i])
                                /\ b.config = EncoderKey(outputs[j])
    BY <1>1, ElementParts
  <2>2. [EncoderKey(outputs[i]) EXCEPT !.framerate = 0]
          = [EncoderKey(outputs[j]) EXCEPT !.framerate = 0]
    BY <1>1, <2>1 DEF SameConfig
  <2>3. /\ EncoderKey(outputs[i]).codec = EncoderKey(outputs[j]).codec
        /\ EncoderKey(outputs[i]).encoder = EncoderKey(outputs[j]).encoder
    BY <2>2 DEF EncoderKey
  <2> QED  BY <1>1, <2>1, <2>3 DEF Effect, Sets, Encode
<1>2. CASE a.type # "Encoder"
  <2>1. a.config = b.config
    BY <1>2 DEF SameConfig
  <2> QED  BY <1>2, <2>1 DEF Effect, Sets
<1> QED  BY <1>1, <1>2

(* Along its track a chain has the effects of its elements.                *)
LEMMA TrackEffects ==
  ASSUME GraphInv, NEW i \in Indices,
         NEW t, IsTrack(t, nodes, chains[i], merged[i], parent[i])
  PROVE  /\ t[0] = 1 /\ t[merged[i]] = parent[i]
         /\ StreamAt[t[0]] = Captured /\ Resolved[t[0]] = input
         /\ \A k \in 1 .. merged[i] :
              /\ StreamAt[t[k]] = Effect(StreamAt[t[k - 1]], chains[i][k])
              /\ Resolved[t[k]] = Sets(chains[i][k], Resolved[t[k - 1]])
<1>1. /\ t \in [0 .. merged[i] -> Nodes] /\ t[0] = 1 /\ t[merged[i]] = parent[i]
      /\ \A k \in 1 .. merged[i] : /\ nodes[t[k]].input = t[k - 1]
                                   /\ nodes[t[k]].type = chains[i][k].type
                                   /\ SameConfig(nodes[t[k]], chains[i][k])
  BY DEF IsTrack, Nodes
<1>2. /\ Tree /\ 1 \in Nodes /\ nodes[1].type = "Source" /\ nodes[1].input = 0
      /\ outputs \in OutputLists /\ input \in InputFormats
  BY NodeKinds, TreeNodes DEF GraphInv, Configured
<1>3. StreamAt[1] = Captured /\ Resolved[1] = input
  <2>1. StreamAt[1] = Through(Captured, 1) /\ Resolved[1] = Sets(nodes[1], input)
    BY <1>2, StreamStep, ResolvedStep
  <2>2. Through(Captured, 1) = Effect(Captured, nodes[1])
    BY <1>2, CapturedType, ThroughIs
  <2> QED  BY <1>2, <2>1, <2>2 DEF Effect, Sets
<1>4. ASSUME NEW k \in 1 .. merged[i]
      PROVE  /\ StreamAt[t[k]] = Effect(StreamAt[t[k - 1]], chains[i][k])
             /\ Resolved[t[k]] = Sets(chains[i][k], Resolved[t[k - 1]])
  <2> DEFINE n == t[k]
             p == t[k - 1]
             e == chains[i][k]
  <2>1. merged[i] \in Nat /\ e \in Elements
    <3>1. k \in 1 .. Len(chains[i])
      BY ChainElementAt
    <3> QED  BY <3>1, ChainElementAt
  <2>2. n \in Nodes /\ p \in Nodes /\ nodes[n].input = p /\ nodes[n].type = e.type
        /\ SameConfig(nodes[n], e)
    <3>1. k \in 0 .. merged[i] /\ k - 1 \in 0 .. merged[i]
      BY <2>1
    <3> QED  BY <1>1, <3>1
  <2> HIDE DEF n, p, e
  <2>3. e.type \in {"FramerateLimit", "Decoder", "Scale", "Encoder"}
    BY <1>2, <2>1, ElementParts
  <2>4. n \in 2 .. Inner
    <3>1. n # 1
      BY <1>2, <2>2, <2>3
    <3>2. n \in 1 .. Inner
      <4>1. Planned => n \notin Sinks
        BY <2>2, <2>3 DEF Sinks
      <4> QED  BY <2>2, <4>1, SinkNodes, NodeKinds
    <3> QED  BY <3>1, <3>2, NodeKinds
  <2>5. PICK a \in Elements : nodes[n] = Node(a, nodes[n].input)
    BY <2>4, NodeKinds
  <2>6. nodes[n].type = a.type /\ nodes[n].config = a.config
    BY <2>5 DEF Node
  <2>7. SameConfig(a, e) /\ a.type = e.type
    BY <2>2, <2>6 DEF SameConfig
  <2>8. \A x, f : Effect(x, nodes[n]) = Effect(x, a) /\ Sets(nodes[n], f) = Sets(a, f)
    BY <2>6 DEF Effect, Sets
  <2>9. p # 0
    BY <2>2, NodeKinds
  <2>10. StreamAt[n] = Through(StreamAt[p], n) /\ StreamAt[p] \in Streams
         /\ Resolved[n] = Sets(nodes[n], Resolved[p])
    BY <2>2, <2>9, StreamStep, ResolvedStep
  <2>11. StreamAt[n] = Effect(StreamAt[p], nodes[n])
    BY <2>2, <2>10, ThroughIs
  <2>12. /\ Effect(StreamAt[p], a) = Effect(StreamAt[p], e)
         /\ Sets(a, Resolved[p]) = Sets(e, Resolved[p])
    BY <1>2, <2>1, <2>7, SameEffect
  <2>13. StreamAt[n] = Effect(StreamAt[p], e) /\ Resolved[n] = Sets(e, Resolved[p])
    BY <2>8, <2>10, <2>11, <2>12
  <2> QED  BY <2>13 DEF n, p, e
<1> QED  BY <1>1, <1>3, <1>4

(* What a chain begins with.                                               *)
BeginsWith(chain, p) ==
  /\ IsSeq(p) /\ Len(chain) \in Nat /\ Len(p) <= Len(chain)
  /\ \A j \in 1 .. Len(p) : chain[j] = p[j]

(* It begins with less, and then goes on with the element that may follow. *)
GoesOn(chain, p, cond, x) ==
  /\ Len(p) \in Nat
  /\ Len(p \o If(cond, x)) = IF cond THEN Len(p) + 1 ELSE Len(p)
  /\ cond => Len(p) + 1 \in 1 .. Len(chain) /\ chain[Len(p) + 1] = x

(* A chain that begins with more begins with less.                         *)
LEMMA BeginsShorter ==
  ASSUME NEW chain, NEW p, IsSeq(p), NEW cond, NEW x,
         BeginsWith(chain, p \o If(cond, x))
  PROVE  BeginsWith(chain, p) /\ GoesOn(chain, p, cond, x)
<1> DEFINE s == If(cond, x)
           v == p \o s
<1>1. IsSeq(p) /\ IsSeq(s)
  BY ShortSeqs
<1>2. Joins(v, p, s)
  <2> HIDE DEF s
  <2> QED  BY <1>1, ConcatJoins
<1>3. BeginsWith(chain, v)
  OBVIOUS
<1> HIDE DEF v
<1>4. /\ Len(p) \in Nat /\ Len(s) \in Nat /\ Len(v) = Len(p) + Len(s)
      /\ Len(chain) \in Nat /\ Len(v) <= Len(chain)
  BY <1>1, <1>2, <1>3, SeqParts DEF Joins, BeginsWith
<1>5. BeginsWith(chain, p)
  <2>1. Len(p) <= Len(chain)
    BY <1>4
  <2>2. \A j \in 1 .. Len(p) : j \in 1 .. Len(v) /\ v[j] = p[j]
    BY <1>2, <1>4 DEF Joins
  <2> QED  BY <1>1, <1>3, <1>4, <2>1, <2>2 DEF BeginsWith
<1>6. ASSUME cond
      PROVE  /\ Len(v) = Len(p) + 1 /\ Len(p) + 1 \in 1 .. Len(chain)
             /\ chain[Len(p) + 1] = x
  <2>1. s = <<x>> /\ Len(s) = 1 /\ s[1] = x
    BY <1>6, ShortSeqs DEF If
  <2>2. Len(v) = Len(p) + 1 /\ Len(p) + 1 \in 1 .. Len(chain) /\ Len(p) + 1 \in 1 .. Len(v)
    BY <1>4, <2>1
  <2>3. v[Len(p) + 1] = x
    BY <1>2, <2>1 DEF Joins
  <2>4. chain[Len(p) + 1] = v[Len(p) + 1]
    BY <1>3, <2>2 DEF BeginsWith
  <2> QED  BY <2>2, <2>3, <2>4
<1>7. ASSUME ~cond
      PROVE  Len(v) = Len(p)
  <2>1. s = <<>> /\ Len(s) = 0
    BY <1>7, ShortSeqs DEF If
  <2> QED  BY <1>4, <2>1
<1> QED  BY <1>4, <1>5, <1>6, <1>7 DEF GoesOn, v

(* Where a part of a chain ends on its track, and what is there.           *)
Arrives(t, p, x, f) == StreamAt[t[Len(p)]] = x /\ Resolved[t[Len(p)]] = f

Passed(cond, e, x) == IF cond THEN Effect(x, e) ELSE x
SetBy(cond, e, f)  == IF cond THEN Sets(e, f) ELSE f

(* The next part of a chain has its effect on what came before it.         *)
LEMMA Advance ==
  ASSUME GraphInv, Planned, NEW i \in Indices,
         NEW t, IsTrack(t, nodes, chains[i], merged[i], parent[i]),
         NEW p, IsSeq(p), NEW cond, NEW e, BeginsWith(chains[i], p \o If(cond, e)),
         NEW x, NEW f, Arrives(t, p, x, f)
  PROVE  Arrives(t, p \o If(cond, e), Passed(cond, e, x), SetBy(cond, e, f))
<1> DEFINE v == p \o If(cond, e)
           chain == chains[i]
<1>1. BeginsWith(chain, v)
  OBVIOUS
<1>2. /\ Len(p) \in Nat /\ Len(v) = IF cond THEN Len(p) + 1 ELSE Len(p)
      /\ cond => Len(p) + 1 \in 1 .. Len(chain) /\ chain[Len(p) + 1] = e
  <2>1. GoesOn(chain, p, cond, e)
    BY <1>1, BeginsShorter
  <2> HIDE DEF chain
  <2> QED  BY <2>1 DEF GoesOn
<1> HIDE DEF v
<1>3. merged[i] = Len(chain)
  BY DEF GraphInv, Progress
<1>4. CASE cond
  <2>1. /\ StreamAt[t[Len(p) + 1]] = Effect(StreamAt[t[(Len(p) + 1) - 1]], chain[Len(p) + 1])
        /\ Resolved[t[Len(p) + 1]] = Sets(chain[Len(p) + 1], Resolved[t[(Len(p) + 1) - 1]])
    BY <1>2, <1>3, <1>4, TrackEffects
  <2>2. (Len(p) + 1) - 1 = Len(p)
    BY <1>2
  <2> QED  BY <1>2, <1>4, <2>1, <2>2 DEF Arrives, Passed, SetBy, v
<1>5. CASE ~cond
  BY <1>2, <1>5 DEF Arrives, Passed, SetBy, v
<1> QED  BY <1>4, <1>5

(* The five parts of a chain, and the stream behind each of them.          *)
LimitsBefore(c) == IF NeedsScale(c) THEN 0 \notin Rates(c.size) ELSE NeedsFramerate(c)
RateBefore(c) == IF NeedsScale(c) THEN LeaderOf(c) ELSE c.framerate

LimitsAfter(c) ==
  /\ NeedsScale(c) /\ NeedsFramerate(c)
  /\ 0 \in Rates(c.size) \/ c.framerate < LeaderOf(c)

Stream1(c) == Passed(LimitsBefore(c), FramerateLimit(RateBefore(c)), Captured)
Stream2(c) == Passed(NeedsDecode(c), Decoder(input), Stream1(c))
Stream3(c) == Passed(NeedsScale(c), Scale(c.size), Stream2(c))
Stream4(c) == Passed(LimitsAfter(c), FramerateLimit(c.framerate), Stream3(c))
Stream5(c) == Passed(NeedsEncode(c), Encoder(EncoderKey(c)), Stream4(c))

Format3(c) == IF NeedsScale(c) \/ NeedsDecode(c) THEN "RAW" ELSE input
Format5(c) == IF NeedsEncode(c) THEN TargetCompressed(c) ELSE Format3(c)

(* The stream that reaches the end of a chain.                             *)
LEMMA PlannedStream ==
  ASSUME GraphInv, Planned, NEW i \in Indices, ~Passthrough(outputs[i])
  PROVE  /\ StreamAt[parent[i]] = Stream5(outputs[i])
         /\ Resolved[parent[i]] = Format5(outputs[i])
<1> DEFINE c == outputs[i]
           chain == chains[i]
           p0 == <<>>
           p1 == Before(c)
           p2 == p1 \o Decoding(c)
           p3 == p2 \o Scaling(c)
           p4 == p3 \o After(c)
           p5 == p4 \o Encoding(c)
<1>1. PICK t : IsTrack(t, nodes, chain, merged[i], parent[i])
  BY DEF GraphInv, Tracked
<1>2. chain = p5 /\ merged[i] = Len(chain) /\ Len(chain) \in Nat
  <2>1. chain = PlannedChain(c)
    BY DEF GraphInv, ChainsPlanned, Planned
  <2> QED  BY <2>1, ChainElementAt DEF PlannedChain, GraphInv, Progress
<1>3. /\ Before(c) = If(LimitsBefore(c), FramerateLimit(RateBefore(c)))
      /\ After(c) = If(LimitsAfter(c), FramerateLimit(c.framerate))
  BY DEF Before, After, LimitsBefore, RateBefore, LimitsAfter, Limiting, If
<1>4. IsSeq(p0) /\ Len(p0) = 0 /\ IsSeq(p1) /\ p0 \o p1 = p1
  BY <1>3, ShortSeqs, ConcatFacts
<1>5. /\ IsSeq(Decoding(c)) /\ IsSeq(Scaling(c)) /\ IsSeq(After(c)) /\ IsSeq(Encoding(c))
  BY ShortSeqs DEF Decoding, Scaling, After, Encoding
<1> HIDE DEF p0, p1
<1>6. IsSeq(p2)
  BY <1>4, <1>5, ConcatParts
<1> HIDE DEF p2
<1>7. IsSeq(p3)
  BY <1>5, <1>6, ConcatParts
<1> HIDE DEF p3
<1>8. IsSeq(p4)
  BY <1>5, <1>7, ConcatParts
<1> HIDE DEF p4
<1>9. IsSeq(p5)
  BY <1>5, <1>8, ConcatParts
<1> HIDE DEF p5, chain
<1>10. BeginsWith(chain, p5)
  BY <1>2, <1>9 DEF BeginsWith
<1>11. BeginsWith(chain, p4)
  BY <1>8, <1>10, BeginsShorter DEF p5, Encoding
<1>12. BeginsWith(chain, p3)
  BY <1>3, <1>7, <1>11, BeginsShorter DEF p4
<1>13. BeginsWith(chain, p2)
  BY <1>6, <1>12, BeginsShorter DEF p3, Scaling
<1>14. BeginsWith(chain, p1)
  BY <1>4, <1>13, BeginsShorter DEF p2, Decoding
<1>15. Arrives(t, p0, Captured, input) /\ t[merged[i]] = parent[i]
  BY <1>1, <1>4, TrackEffects DEF Arrives, chain
<1> DEFINE f1 == SetBy(LimitsBefore(c), FramerateLimit(RateBefore(c)), input)
           f2 == SetBy(NeedsDecode(c), Decoder(input), f1)
           f3 == SetBy(NeedsScale(c), Scale(c.size), f2)
           f4 == SetBy(LimitsAfter(c), FramerateLimit(c.framerate), f3)
           f5 == SetBy(NeedsEncode(c), Encoder(EncoderKey(c)), f4)
<1>16. Arrives(t, p1, Stream1(c), f1)
  <2>1. p1 = p0 \o If(LimitsBefore(c), FramerateLimit(RateBefore(c)))
    BY <1>3, <1>4 DEF p1
  <2> QED  BY <1>1, <1>4, <1>14, <1>15, <2>1, Advance DEF Stream1, chain
<1> HIDE DEF f1
<1>17. Arrives(t, p2, Stream2(c), f2)
  BY <1>1, <1>4, <1>13, <1>16, Advance DEF p2, Decoding, Stream2, chain
<1> HIDE DEF f2
<1>18. Arrives(t, p3, Stream3(c), f3)
  BY <1>1, <1>6, <1>12, <1>17, Advance DEF p3, Scaling, Stream3, chain
<1> HIDE DEF f3
<1>19. Arrives(t, p4, Stream4(c), f4)
  BY <1>1, <1>3, <1>7, <1>11, <1>18, Advance DEF p4, Stream4, chain
<1> HIDE DEF f4
<1>20. Arrives(t, p5, Stream5(c), f5)
  BY <1>1, <1>8, <1>10, <1>19, Advance DEF p5, Encoding, Stream5, chain
<1>21. f5 = Format5(c)
  BY DEF f1, f2, f3, f4, f5, SetBy, Sets, Format5, Format3, FramerateLimit, Decoder,
         Scale, Encoder, EncoderKey
<1> HIDE DEF f5
<1> QED  BY <1>2, <1>15, <1>20, <1>21 DEF Arrives, chain

(* The fields of a stream behind an element.                               *)
LEMMA Effects ==
  ASSUME NEW x \in Streams
  PROVE  /\ \A r : LET y == Effect(x, FramerateLimit(r)) IN
              /\ y.format = x.format /\ y.size = x.size /\ y.encoder = x.encoder
              /\ y.limits = x.limits \cup {r}
              /\ x.sound /\ x.format \in {"RAW", "JPEG", "PNG"} => y.sound
         /\ \A f : LET y == Effect(x, Decoder(f)) IN
              /\ y.format = "RAW" /\ y.size = x.size /\ y.encoder = x.encoder
              /\ y.limits = x.limits
              /\ x.sound /\ x.format = f => y.sound
         /\ \A s : LET y == Effect(x, Scale(s)) IN
              /\ y.format = x.format /\ y.size = s /\ y.encoder = x.encoder
              /\ y.limits = x.limits
              /\ x.sound /\ x.format = "RAW" => y.sound
         /\ \A c : LET y == Effect(x, Encoder(EncoderKey(c))) IN
              /\ y.format = TargetCompressed(c) /\ y.size = x.size
              /\ y.encoder = c.encoder /\ y.limits = x.limits
              /\ x.sound /\ x.format = "RAW" => y.sound
<1>1. x = [format |-> x.format, limits |-> x.limits, size |-> x.size,
           encoder |-> x.encoder, sound |-> x.sound]
  BY DEF Streams
<1>2. ASSUME NEW r
      PROVE  LET y == Effect(x, FramerateLimit(r)) IN
              /\ y.format = x.format /\ y.size = x.size /\ y.encoder = x.encoder
              /\ y.limits = x.limits \cup {r}
              /\ x.sound /\ x.format \in {"RAW", "JPEG", "PNG"} => y.sound
  BY <1>1 DEF Effect, FramerateLimit, Limit
<1>3. ASSUME NEW f
      PROVE  LET y == Effect(x, Decoder(f)) IN
              /\ y.format = "RAW" /\ y.size = x.size /\ y.encoder = x.encoder
              /\ y.limits = x.limits
              /\ x.sound /\ x.format = f => y.sound
  BY <1>1 DEF Effect, Decoder, Decode
<1>4. ASSUME NEW s
      PROVE  LET y == Effect(x, Scale(s)) IN
              /\ y.format = x.format /\ y.size = s /\ y.encoder = x.encoder
              /\ y.limits = x.limits
              /\ x.sound /\ x.format = "RAW" => y.sound
  BY <1>1 DEF Effect, Scale, Resize
<1>5. ASSUME NEW c
      PROVE  LET y == Effect(x, Encoder(EncoderKey(c))) IN
              /\ y.format = TargetCompressed(c) /\ y.size = x.size
              /\ y.encoder = c.encoder /\ y.limits = x.limits
              /\ x.sound /\ x.format = "RAW" => y.sound
  BY <1>1 DEF Effect, Encoder, Encode, EncoderKey
<1> QED  BY <1>2, <1>3, <1>4, <1>5

(* What is known of the streams behind the parts of a chain.               *)
Cause(c) == LimitsBefore(c) /\ input \in InterCoded

LimitsThere(c) == (IF LimitsBefore(c) THEN {RateBefore(c)} ELSE {})
                    \cup (IF LimitsAfter(c) THEN {c.framerate} ELSE {})

(* It is what the chain is for.                                            *)
LEMMA ChainStream ==
  ASSUME input \in InputFormats, outputs \in OutputLists, NEW i \in Indices
  PROVE  LET c == outputs[i] x == Stream5(c) IN
         /\ x.sound \/ Cause(c)
         /\ x.format = Format5(c)
         /\ x.size = c.size
         /\ x.encoder \in {{"none"}, c.encoder}
         /\ x.limits = LimitsThere(c)
<1> DEFINE c == outputs[i]
           s1 == Stream1(c)
           s2 == Stream2(c)
           s3 == Stream3(c)
           s4 == Stream4(c)
           s5 == Stream5(c)
<1>1. Captured \in Streams /\ input \in Formats
  BY CapturedType, PlanAssumption
<1>2. /\ LimitsBefore(c) => FramerateLimit(RateBefore(c)) \in Elements
      /\ FramerateLimit(c.framerate) \in Elements
      /\ NeedsDecode(c) => Decoder(input) \in Elements
      /\ Scale(c.size) \in Elements
      /\ NeedsEncode(c) => Encoder(EncoderKey(c)) \in Elements
  <2>1. c.framerate \in Nat /\ c.framerate \in Rates(c.size)
        /\ Rates(c.size) \in SUBSET Nat /\ IsFiniteSet(Rates(c.size))
    BY OutputFacts DEF Rates
  <2>2. LimitsBefore(c) => RateBefore(c) \in Nat
    <3>1. 0 \notin Rates(c.size) => LeaderOf(c) \in Nat
      <4>1. 0 \notin Rates(c.size) => Rates(c.size) \in SUBSET (Nat \ {0})
        BY <2>1
      <4> QED  BY <2>1, <4>1, LeaderParts DEF LeaderOf
    <3> QED  BY <2>1, <3>1 DEF LimitsBefore, RateBefore
  <2>3. NeedsEncode(c) => TargetCompressed(c) \in Compressed
    BY DEF NeedsEncode, TargetCompressed, Compressed, Formats
  <2> QED  BY <2>1, <2>2, <2>3 DEF Elements, NeedsDecode
<1>3. \A x \in Streams, e \in Elements : Effect(x, e) \in Streams
  BY EffectType
<1>4. /\ s1 \in Streams /\ s2 \in Streams /\ s3 \in Streams /\ s4 \in Streams
  <2>1. s1 \in Streams
    BY <1>1, <1>2, <1>3 DEF Stream1, Passed
  <2> HIDE DEF s1
  <2>2. s2 \in Streams
    BY <1>2, <1>3, <2>1 DEF Stream2, Passed, s1
  <2> HIDE DEF s2
  <2>3. s3 \in Streams
    BY <1>2, <1>3, <2>2 DEF Stream3, Passed, s2
  <2> HIDE DEF s3
  <2>4. s4 \in Streams
    BY <1>2, <1>3, <2>3 DEF Stream4, Passed, s3
  <2> QED  BY <2>1, <2>2, <2>3, <2>4
<1>5. /\ s1 = Passed(LimitsBefore(c), FramerateLimit(RateBefore(c)), Captured)
      /\ s2 = Passed(NeedsDecode(c), Decoder(input), s1)
      /\ s3 = Passed(NeedsScale(c), Scale(c.size), s2)
      /\ s4 = Passed(LimitsAfter(c), FramerateLimit(c.framerate), s3)
      /\ s5 = Passed(NeedsEncode(c), Encoder(EncoderKey(c)), s4)
  BY DEF Stream1, Stream2, Stream3, Stream4, Stream5
<1> HIDE DEF c, s1, s2, s3, s4, s5
<1>6. /\ s1.format = input /\ s1.size = FullSize /\ s1.encoder = {"none"}
      /\ s1.limits = IF LimitsBefore(c) THEN {RateBefore(c)} ELSE {}
      /\ s1.sound \/ Cause(c)
  <2>1. /\ Captured.format = input /\ Captured.size = FullSize /\ Captured.sound
        /\ Captured.encoder = {"none"} /\ Captured.limits = {}
    BY DEF Captured
  <2>2. CASE LimitsBefore(c)
    <3> DEFINE y == Effect(Captured, FramerateLimit(RateBefore(c)))
    <3>1. /\ y.format = Captured.format /\ y.size = Captured.size
          /\ y.encoder = Captured.encoder
          /\ y.limits = Captured.limits \cup {RateBefore(c)}
          /\ Captured.sound /\ Captured.format \in {"RAW", "JPEG", "PNG"} => y.sound
      BY <1>1, Effects
    <3>2. s1 = y
      BY <1>5, <2>2 DEF Passed
    <3> HIDE DEF y
    <3>3. input \in InterCoded \/ input \in {"RAW", "JPEG", "PNG"}
      BY <1>1 DEF InterCoded, Formats
    <3> QED  BY <2>1, <2>2, <3>1, <3>2, <3>3 DEF Cause
  <2>3. CASE ~LimitsBefore(c)
    BY <1>5, <2>1, <2>3 DEF Passed
  <2> QED  BY <2>2, <2>3
<1>7. /\ s2.format = IF NeedsDecode(c) THEN "RAW" ELSE input
      /\ s2.size = FullSize /\ s2.encoder = {"none"} /\ s2.limits = s1.limits
      /\ s2.sound \/ Cause(c)
  <2>1. CASE NeedsDecode(c)
    <3> DEFINE y == Effect(s1, Decoder(input))
    <3>1. /\ y.format = "RAW" /\ y.size = s1.size /\ y.encoder = s1.encoder
          /\ y.limits = s1.limits
          /\ s1.sound /\ s1.format = input => y.sound
      BY <1>4, Effects
    <3>2. s2 = y
      BY <1>5, <2>1 DEF Passed
    <3> HIDE DEF y
    <3> QED  BY <1>6, <2>1, <3>1, <3>2
  <2>2. CASE ~NeedsDecode(c)
    BY <1>5, <1>6, <2>2 DEF Passed
  <2> QED  BY <2>1, <2>2
<1>8. /\ NeedsScale(c) => s2.format = "RAW"
      /\ NeedsEncode(c) => Format3(c) = "RAW"
      /\ LimitsAfter(c) => NeedsScale(c)
      /\ ~NeedsScale(c) => c.size = FullSize
  BY <1>1, <1>7 DEF NeedsDecode, NeedsEncode, Compressed, Format3, LimitsAfter, NeedsScale
<1>9. /\ s3.format = Format3(c) /\ s3.size = c.size /\ s3.encoder = {"none"}
      /\ s3.limits = s1.limits
      /\ s3.sound \/ Cause(c)
  <2>1. CASE NeedsScale(c)
    <3> DEFINE y == Effect(s2, Scale(c.size))
    <3>1. /\ y.format = s2.format /\ y.size = c.size /\ y.encoder = s2.encoder
          /\ y.limits = s2.limits
          /\ s2.sound /\ s2.format = "RAW" => y.sound
      BY <1>4, Effects
    <3>2. s3 = y
      BY <1>5, <2>1 DEF Passed
    <3> HIDE DEF y
    <3> QED  BY <1>7, <1>8, <2>1, <3>1, <3>2 DEF Format3
  <2>2. CASE ~NeedsScale(c)
    BY <1>5, <1>7, <1>8, <2>2 DEF Passed, Format3
  <2> QED  BY <2>1, <2>2
<1>10. /\ s4.format = Format3(c) /\ s4.size = c.size /\ s4.encoder = {"none"}
       /\ s4.limits = LimitsThere(c)
       /\ s4.sound \/ Cause(c)
  <2>1. CASE LimitsAfter(c)
    <3> DEFINE y == Effect(s3, FramerateLimit(c.framerate))
    <3>1. /\ y.format = s3.format /\ y.size = s3.size /\ y.encoder = s3.encoder
          /\ y.limits = s3.limits \cup {c.framerate}
          /\ s3.sound /\ s3.format \in {"RAW", "JPEG", "PNG"} => y.sound
      BY <1>4, Effects
    <3>2. s4 = y
      BY <1>5, <2>1 DEF Passed
    <3>3. Format3(c) = "RAW"
      BY <1>8, <2>1 DEF Format3
    <3> HIDE DEF y
    <3> QED  BY <1>6, <1>9, <2>1, <3>1, <3>2, <3>3 DEF LimitsThere
  <2>2. CASE ~LimitsAfter(c)
    BY <1>5, <1>6, <1>9, <2>2 DEF Passed, LimitsThere
  <2> QED  BY <2>1, <2>2
<1>11. /\ s5.format = Format5(c) /\ s5.size = c.size
       /\ s5.encoder \in {{"none"}, c.encoder}
       /\ s5.limits = LimitsThere(c)
       /\ s5.sound \/ Cause(c)
  <2>1. CASE NeedsEncode(c)
    <3> DEFINE y == Effect(s4, Encoder(EncoderKey(c)))
    <3>1. /\ y.format = TargetCompressed(c) /\ y.size = s4.size
          /\ y.encoder = c.encoder /\ y.limits = s4.limits
          /\ s4.sound /\ s4.format = "RAW" => y.sound
      BY <1>4, Effects
    <3>2. s5 = y
      BY <1>5, <2>1 DEF Passed
    <3> HIDE DEF y
    <3> QED  BY <1>8, <1>10, <2>1, <3>1, <3>2 DEF Format5
  <2>2. CASE ~NeedsEncode(c)
    BY <1>5, <1>10, <2>2 DEF Passed, Format5
  <2> QED  BY <2>1, <2>2
<1> QED  BY <1>11 DEF c, s5

(* What the formats and the limits of a chain come down to.                *)
LEMMA ChainServes ==
  ASSUME input \in InputFormats, outputs \in OutputLists, NEW i \in Indices,
         ~Passthrough(outputs[i])
  PROVE  LET c == outputs[i] IN
         /\ Cause(c) => input \in InterCoded /\ c.framerate # 0
         /\ Format5(c) \in c.formats
         /\ IF c.framerate = 0 THEN LimitsThere(c) = {}
            ELSE /\ c.framerate \in LimitsThere(c)
                 /\ \A l \in LimitsThere(c) : IsMultiple(l, c.framerate)
<1> DEFINE c == outputs[i]
           R == Rates(c.size)
<1>1. /\ c.framerate \in Nat /\ c.framerate \in R
      /\ R \in SUBSET Nat /\ IsFiniteSet(R)
      /\ c.formats \subseteq Formats /\ c.formats # {} /\ input \in Formats
  BY OutputFacts, PlanAssumption DEF Rates
<1>2. ~Passthrough(c)
  OBVIOUS
<1> HIDE DEF c
<1>3. LimitsBefore(c) => c.framerate # 0
  BY <1>1 DEF LimitsBefore, NeedsFramerate
<1>4. Format5(c) \in c.formats
  <2>1. TargetCompressed(c) \in c.formats \/ (TargetCompressed(c) = "none" /\ c.formats = {"RAW"})
    BY <1>1 DEF TargetCompressed, Formats
  <2>2. CASE NeedsEncode(c)
    BY <2>1, <2>2 DEF NeedsEncode, Format5
  <2>3. CASE ~NeedsEncode(c)
    <3>1. CASE NeedsDecode(c) \/ input = "RAW"
      <4>1. TargetCompressed(c) = "none"
        BY <2>3, <3>1 DEF NeedsEncode
      <4>2. "RAW" \in c.formats
        BY <1>1, <2>1, <4>1 DEF Formats
      <4> QED  BY <2>3, <3>1, <4>2 DEF Format5, Format3
    <3>2. CASE ~NeedsDecode(c) /\ input # "RAW"
      <4>1. input \in c.formats /\ ~NeedsScale(c)
        BY <1>1, <3>2 DEF NeedsDecode, Compressed
      <4> QED  BY <2>3, <3>2, <4>1 DEF Format5, Format3
    <3> QED  BY <3>1, <3>2
  <2> QED  BY <2>2, <2>3
<1>5. ASSUME c.framerate = 0
      PROVE  LimitsThere(c) = {}
  BY <1>3, <1>5 DEF LimitsThere, LimitsAfter, NeedsFramerate
<1>6. ASSUME c.framerate # 0
      PROVE  /\ c.framerate \in LimitsThere(c)
             /\ \A l \in LimitsThere(c) : IsMultiple(l, c.framerate)
  <2>1. IsMultiple(c.framerate, c.framerate)
    BY <1>1, <1>6, Multiples
  <2>2. CASE ~NeedsScale(c)
    <3>1. LimitsThere(c) = {c.framerate}
      BY <1>6, <2>2 DEF LimitsThere, LimitsBefore, LimitsAfter, RateBefore, NeedsFramerate
    <3> QED  BY <2>1, <3>1
  <2>3. CASE NeedsScale(c) /\ 0 \in R
    <3>1. LimitsThere(c) = {c.framerate}
      BY <1>6, <2>3 DEF LimitsThere, LimitsBefore, LimitsAfter, RateBefore, NeedsFramerate
    <3> QED  BY <2>1, <3>1
  <2>4. CASE NeedsScale(c) /\ 0 \notin R
    <3>1. R \in SUBSET (Nat \ {0})
      BY <1>1, <2>4
    <3>2. /\ LeaderOf(c) \in Nat /\ IsMultiple(LeaderOf(c), c.framerate)
          /\ LeaderOf(c) >= c.framerate
      BY <1>1, <3>1, LeaderParts DEF LeaderOf
    <3>3. LimitsThere(c) = {LeaderOf(c)} \cup
                             (IF c.framerate < LeaderOf(c) THEN {c.framerate} ELSE {})
      BY <1>6, <2>4 DEF LimitsThere, LimitsBefore, LimitsAfter, RateBefore, NeedsFramerate
    <3>4. c.framerate < LeaderOf(c) \/ c.framerate = LeaderOf(c)
      BY <1>1, <3>2
    <3> QED  BY <2>1, <3>2, <3>3, <3>4
  <2> QED  BY <2>2, <2>3, <2>4
<1> QED  BY <1>3, <1>4, <1>5, <1>6 DEF Cause, c

-----------------------------------------------------------------------------
(* The outputs get what they ask for.                                      *)

(* A sink passes on what its parent does.                                  *)
LEMMA SinkStream ==
  ASSUME GraphInv, Planned, NEW i \in Indices
  PROVE  /\ StreamAt[SinkOf(i)] = StreamAt[parent[i]]
         /\ Resolved[SinkOf(i)] = Resolved[parent[i]]
<1> DEFINE s == SinkOf(i)
<1>1. s \in Nodes /\ nodes[s].type = "Sink" /\ nodes[s].input = parent[i]
  BY NodeKinds, SinkNodes
<1>2. parent[i] \in Nodes /\ parent[i] # 0
  <2>1. parent[i] \in 1 .. Inner  BY DEF GraphInv, Progress
  <2>2. Inner \in Nodes /\ Nodes = 1 .. Len(nodes) /\ Len(nodes) \in Nat
    BY NodeKinds
  <2> QED  BY <2>1, <2>2
<1> HIDE DEF s
<1>3. StreamAt[s] = Through(StreamAt[parent[i]], s) /\ StreamAt[parent[i]] \in Streams
      /\ Resolved[s] = Sets(nodes[s], Resolved[parent[i]])
  BY <1>1, <1>2, StreamStep, ResolvedStep
<1>4. Through(StreamAt[parent[i]], s) = Effect(StreamAt[parent[i]], nodes[s])
  BY <1>1, <1>3, ThroughIs
<1> QED  BY <1>1, <1>3, <1>4 DEF Effect, Sets, s

(* What it is for is what the output asks for.                             *)
LEMMA OutputsServed ==
  ASSUME GraphInv
  PROVE  OutputsGetWhatTheyAskFor
<1> SUFFICES ASSUME Planned, NEW i \in Indices
             PROVE  LET c == outputs[i]
                        stream == StreamAt[SinkOf(i)]
                    IN  /\ stream.sound \/ (input \in InterCoded /\ c.framerate # 0)
                        /\ stream.format \in c.formats
                        /\ stream.format = Resolved[SinkOf(i)]
                        /\ stream.size = c.size
                        /\ stream.encoder \in {{"none"}, c.encoder}
                        /\ IF c.framerate = 0
                           THEN stream.limits = {}
                           ELSE /\ c.framerate \in stream.limits
                                /\ \A l \in stream.limits : IsMultiple(l, c.framerate)
  BY DEF OutputsGetWhatTheyAskFor
<1> DEFINE c == outputs[i]
           x == StreamAt[SinkOf(i)]
<1>1. x = StreamAt[parent[i]] /\ Resolved[SinkOf(i)] = Resolved[parent[i]]
  BY SinkStream
<1>2. input \in InputFormats /\ outputs \in OutputLists
  BY DEF GraphInv, Configured
<1>3. CASE Passthrough(c)
  <2>1. chains[i] = <<>> /\ merged[i] = 0
    <3>1. chains[i] = PlannedChain(c) /\ merged[i] = Len(chains[i])
      BY DEF GraphInv, ChainsPlanned, Progress, Planned
    <3> QED  BY <1>3, <3>1, ShortSeqs DEF PlannedChain
  <2>2. PICK t : IsTrack(t, nodes, chains[i], merged[i], parent[i])
    BY DEF GraphInv, Tracked
  <2>3. StreamAt[parent[i]] = Captured /\ Resolved[parent[i]] = input
    BY <2>1, <2>2, TrackEffects
  <2>4. x = Captured /\ Resolved[SinkOf(i)] = input
    BY <1>1, <2>3
  <2>5. c.size = FullSize /\ c.framerate = 0 /\ input \in c.formats
    BY <1>3 DEF Passthrough, NeedsScale, NeedsFramerate
  <2> HIDE DEF x, c
  <2>6. /\ x.format = input /\ x.limits = {} /\ x.size = FullSize
        /\ x.encoder = {"none"} /\ x.sound
    BY <2>4 DEF Captured
  <2> QED  BY <2>4, <2>5, <2>6 DEF x, c
<1>4. CASE ~Passthrough(c)
  <2>1. x = Stream5(c) /\ Resolved[SinkOf(i)] = Format5(c)
    BY <1>1, <1>4, PlannedStream
  <2>2. /\ Stream5(c).sound \/ Cause(c)
        /\ Stream5(c).format = Format5(c) /\ Stream5(c).size = c.size
        /\ Stream5(c).encoder \in {{"none"}, c.encoder}
        /\ Stream5(c).limits = LimitsThere(c)
    BY <1>2, ChainStream
  <2>3. /\ Cause(c) => input \in InterCoded /\ c.framerate # 0
        /\ Format5(c) \in c.formats
        /\ IF c.framerate = 0 THEN LimitsThere(c) = {}
           ELSE /\ c.framerate \in LimitsThere(c)
                /\ \A l \in LimitsThere(c) : IsMultiple(l, c.framerate)
    BY <1>2, <1>4, ChainServes
  <2> HIDE DEF x, c
  <2> QED  BY <2>1, <2>2, <2>3 DEF x, c
<1> QED  BY <1>3, <1>4

(* The plan is always as its invariant says.                               *)
THEOREM PlanInvariant == Spec => []GraphInv
<1>1. BuilderInit => GraphInv
  BY GraphInvInit DEF BuilderInit
<1>2. GraphInv /\ [Next]_vars => GraphInv'
  BY GraphInvStep
<1> QED  BY <1>1, <1>2, PTL DEF Spec

(* PipelineGraph::build: however the limits are rearranged and the chains  *)
(* are merged, each sink gets its output's format, size, encoder and       *)
(* framerate, for any outputs.                                             *)
THEOREM OutputsAreServed == Spec => []OutputsGetWhatTheyAskFor
<1>1. GraphInv => OutputsGetWhatTheyAskFor
  BY OutputsServed
<1> QED  BY <1>1, PlanInvariant, PTL

-----------------------------------------------------------------------------
(* Outputs share scales.                                                   *)

(* What is on the way of a scaling output up to its scale.                 *)
ScalesAt(i, k) ==
  LET c == outputs[i]
      b == IF 0 \in Rates(c.size) THEN 0 ELSE 1
      d == IF input \in Compressed THEN 1 ELSE 0
  IN  /\ k = b + d + 1 /\ k \in 1 .. merged[i]
      /\ chains[i][k] = Scale(c.size)
      /\ d = 1 => chains[i][b + 1] = Decoder(input)
      /\ b = 1 => chains[i][1] = FramerateLimit(LeaderOf(c))

(* Only scaling outputs have a scale, and it is there.                     *)
LEMMA ScalePosition ==
  ASSUME GraphInv, Planned, NEW i \in Indices
  PROVE  /\ NeedsScale(outputs[i]) => \E k : ScalesAt(i, k)
         /\ \A k \in 1 .. merged[i] :
              chains[i][k].type = "Scale" =>
                NeedsScale(outputs[i]) /\ ScalesAt(i, k)
<1> DEFINE c == outputs[i]
           chain == chains[i]
           p1 == Before(c)
           p2 == p1 \o Decoding(c)
           rest == After(c) \o Encoding(c)
<1>1. chain = PlannedChain(c) /\ merged[i] = Len(chain) /\ Len(chain) \in Nat
  BY ChainElementAt DEF GraphInv, ChainsPlanned, Planned, Progress
<1>2. Unscaled(p1) /\ Unscaled(Decoding(c)) /\ Unscaled(p2) /\ Unscaled(rest)
  <2>1. Unscaled(<<>>)
    BY ShortSeqs DEF Unscaled
  <2>2. \A cond, rate : Unscaled(If(cond, FramerateLimit(rate)))
    BY <2>1, UnscaledParts DEF If
  <2>3. Unscaled(p1) /\ Unscaled(After(c))
    BY <2>2, UnscaledParts DEF Before, After
  <2> QED  BY <2>3, UnscaledParts
<1>3. CASE ~NeedsScale(c)
  <2>1. chain = <<>> \/ chain = p2 \o rest
    <3>1. Scaling(c) = <<>>
      BY <1>3 DEF Scaling, If
    <3>2. IsSeq(p2) /\ IsSeq(After(c)) /\ IsSeq(Encoding(c))
      BY <1>2, ShortSeqs DEF Unscaled, After, Encoding
    <3> HIDE DEF p2
    <3>3. p2 \o <<>> = p2
      BY <3>2, ShortSeqs, ConcatFacts
    <3>4. (p2 \o After(c)) \o Encoding(c) = p2 \o rest
      BY <3>2, ConcatFacts
    <3> QED  BY <1>1, <3>1, <3>3, <3>4 DEF PlannedChain, p2
  <2>2. Unscaled(chain)
    <3>1. Unscaled(<<>>)
      BY ShortSeqs DEF Unscaled
    <3>2. Unscaled(p2 \o rest)
      <4> HIDE DEF p2, rest
      <4> QED  BY <1>2, UnscaledParts
    <3> QED  BY <2>1, <3>1, <3>2
  <2> QED  BY <1>1, <1>3, <2>2 DEF Unscaled
<1>4. CASE NeedsScale(c)
  <2> DEFINE sc == Scale(c.size)
             b == 0 \notin Rates(c.size)
             d == input \in Compressed
  <2>1. chain = p2 \o <<sc>> \o rest
    <3>1. ~Passthrough(c) /\ Scaling(c) = <<sc>>
      BY <1>4 DEF Passthrough, Scaling, If
    <3>2. IsSeq(p2 \o <<sc>>) /\ IsSeq(After(c)) /\ IsSeq(Encoding(c))
      BY <1>2, ShortSeqs, ConcatParts DEF Unscaled, After, Encoding
    <3>3. chain = p2 \o <<sc>> \o After(c) \o Encoding(c)
      BY <1>1, <3>1 DEF PlannedChain
    <3> DEFINE q == p2 \o <<sc>>
    <3>4. chain = (q \o After(c)) \o Encoding(c) /\ IsSeq(q)
      BY <3>2, <3>3
    <3> HIDE DEF q
    <3>5. chain = q \o rest
      BY SMTT(30), <3>2, <3>4, ConcatFacts
    <3> QED  BY <3>5 DEF q
  <2>2. /\ p1 = <<>> \o If(b, FramerateLimit(LeaderOf(c)))
        /\ Decoding(c) = If(d, Decoder(input))
    <3>1. p1 = If(b, FramerateLimit(LeaderOf(c))) /\ IsSeq(p1)
      BY <1>4, ShortSeqs DEF Before
    <3>2. IsSeq(<<>>)
      BY ShortSeqs
    <3>3. <<>> \o p1 = p1
      <4> HIDE DEF p1
      <4> QED  BY <3>1, <3>2, ConcatFacts
    <3>4. NeedsDecode(c) <=> d
      BY <1>4 DEF NeedsDecode
    <3> QED  BY <3>1, <3>3, <3>4 DEF Decoding, If
  <2>3. Joins(p2 \o <<sc>>, p2, <<sc>>) /\ Joins(chain, p2 \o <<sc>>, rest)
    <3>1. IsSeq(p2) /\ IsSeq(<<sc>>) /\ IsSeq(rest)
      BY <1>2, ShortSeqs DEF Unscaled
    <3> HIDE DEF p2, sc, rest
    <3>2. IsSeq(p2 \o <<sc>>)
      BY <3>1, ConcatParts
    <3> QED  BY <2>1, <3>1, <3>2, ConcatJoins
  <2>4. Len(<<sc>>) = 1 /\ <<sc>>[1] = sc /\ sc.type = "Scale"
    BY ShortSeqs DEF Scale
  <2>5. Len(p2) \in Nat /\ Len(rest) \in Nat
    BY <1>2, SeqParts DEF Unscaled
  <2> HIDE DEF p2, sc, rest, chain
  <2>6. /\ Len(chain) = Len(p2) + 1 + Len(rest)
        /\ chain[Len(p2) + 1] = sc
        /\ \A j \in 1 .. Len(p2) : chain[j] = p2[j]
        /\ \A j \in 1 .. Len(rest) : chain[Len(p2) + 1 + j] = rest[j]
    <3> DEFINE q == p2 \o <<sc>>
    <3>1. Joins(q, p2, <<sc>>) /\ Joins(chain, q, rest)
      BY <2>3
    <3> HIDE DEF q
    <3>2. Len(q) = Len(p2) + 1 /\ q[Len(p2) + 1] = sc /\ \A j \in 1 .. Len(p2) : q[j] = p2[j]
      BY <2>4, <3>1 DEF Joins
    <3>3. \A j \in 1 .. Len(q) : chain[j] = q[j]
      BY <3>1 DEF Joins
    <3>4. Len(p2) + 1 \in 1 .. Len(q) /\ \A j \in 1 .. Len(p2) : j \in 1 .. Len(q)
      BY <2>5, <3>2
    <3> QED  BY <2>5, <3>1, <3>2, <3>3, <3>4 DEF Joins
  <2>7. \A k \in 1 .. Len(chain) : chain[k].type = "Scale" => k = Len(p2) + 1
    <3> SUFFICES ASSUME NEW k \in 1 .. Len(chain), k # Len(p2) + 1
                 PROVE  chain[k].type # "Scale"
      OBVIOUS
    <3>1. CASE k \in 1 .. Len(p2)
      BY <1>2, <2>6, <3>1 DEF Unscaled
    <3>2. CASE k \notin 1 .. Len(p2)
      <4>1. k - (Len(p2) + 1) \in 1 .. Len(rest) /\ k = Len(p2) + 1 + (k - (Len(p2) + 1))
        BY <2>5, <2>6, <3>2
      <4> QED  BY <1>2, <2>6, <4>1 DEF Unscaled
    <3> QED  BY <3>1, <3>2
  <2>8. BeginsWith(chain, p1 \o If(d, Decoder(input)))
    BY <1>1, <1>2, <2>2, <2>5, <2>6 DEF BeginsWith, Unscaled, p2, chain
  <2>9. BeginsWith(chain, p1) /\ GoesOn(chain, p1, d, Decoder(input))
    BY <1>2, <2>8, BeginsShorter DEF Unscaled
  <2>10. GoesOn(chain, <<>>, b, FramerateLimit(LeaderOf(c)))
    BY <2>2, <2>9, BeginsShorter, ShortSeqs
  <2>11. /\ Len(p1) = IF b THEN 1 ELSE 0
         /\ b => chain[1] = FramerateLimit(LeaderOf(c))
    BY <2>2, <2>10, ShortSeqs DEF GoesOn
  <2>12. /\ Len(p2) = IF d THEN Len(p1) + 1 ELSE Len(p1)
         /\ d => chain[Len(p1) + 1] = Decoder(input)
    BY <2>2, <2>9 DEF GoesOn, p2
  <2>13. ScalesAt(i, Len(p2) + 1)
    <3>1. Len(p2) + 1 \in 1 .. merged[i]
      BY <1>1, <2>5, <2>6 DEF chain
    <3>2. chains[i][Len(p2) + 1] = Scale(c.size)
      BY <2>6 DEF chain, sc
    <3> QED  BY <2>11, <2>12, <3>1, <3>2 DEF ScalesAt, chain
  <2>14. merged[i] = Len(chain)
    BY <1>1 DEF chain
  <2> QED  BY <1>4, <2>7, <2>13, <2>14 DEF chain
<1> QED  BY <1>3, <1>4

(* A scale that gets its frames from the source, through a limit of this   *)
(* rate unless it is 0, and through a decoder unless the input is raw.     *)
IsInner(n, type, config) ==
  n \in 2 .. Inner /\ nodes[n].type = type /\ nodes[n].config = config

LimitOf(n) == IF input \in Compressed THEN nodes[nodes[n].input].input
              ELSE nodes[n].input

ScalesFor(n, size, rate) ==
  /\ IsInner(n, "Scale", size)
  /\ input \in Compressed => IsInner(nodes[n].input, "Decoder", input)
  /\ IF rate = 0 THEN LimitOf(n) = 1
     ELSE /\ IsInner(LimitOf(n), "FramerateLimit", rate)
          /\ nodes[LimitOf(n)].input = 1

(* There is at most one such scale, and it has one rate.                   *)
LEMMA OneScale ==
  ASSUME GraphInv, NEW m, NEW n, NEW size, NEW r, ScalesFor(m, size, r)
  PROVE  /\ ScalesFor(n, size, r) => m = n
         /\ \A s : ScalesFor(m, size, s) => r = s
<1>1. \A x, y, type, config :
        /\ IsInner(x, type, config) /\ IsInner(y, type, config)
        /\ nodes[x].input = nodes[y].input /\ type # "Encoder"
        => x = y
  BY DEF IsInner, GraphInv, Siblings
<1>2. ASSUME ScalesFor(n, size, r)
      PROVE  m = n
  <2>1. LimitOf(m) = LimitOf(n)
    <3>1. CASE r = 0
      BY <1>2, <3>1 DEF ScalesFor
    <3>2. CASE r # 0
      BY <1>1, <1>2, <3>2 DEF ScalesFor
    <3> QED  BY <3>1, <3>2
  <2>2. nodes[m].input = nodes[n].input
    <3>1. CASE input \in Compressed
      BY <1>1, <1>2, <2>1, <3>1 DEF ScalesFor, LimitOf
    <3>2. CASE input \notin Compressed
      BY <2>1, <3>2 DEF LimitOf
    <3> QED  BY <3>1, <3>2
  <2> QED  BY <1>1, <1>2, <2>2 DEF ScalesFor
<1>3. ASSUME NEW s, ScalesFor(m, size, s)
      PROVE  r = s
  <2>1. 1 \notin 2 .. Inner
    OBVIOUS
  <2> QED  BY <1>3, <2>1 DEF ScalesFor, IsInner
<1> QED  BY <1>2, <1>3

(* The rate an output has its frames limited to before its scale.          *)
ScaleRate(c) == IF 0 \in Rates(c.size) THEN 0 ELSE LeaderOf(c)

(* That scale is one for the rate of the output.                           *)
LEMMA ScaleReached ==
  ASSUME GraphInv, Planned, NEW i \in Indices,
         NEW t, IsTrack(t, nodes, chains[i], merged[i], parent[i]),
         NEW k, ScalesAt(i, k)
  PROVE  ScalesFor(t[k], outputs[i].size, ScaleRate(outputs[i]))
<1> DEFINE c == outputs[i]
           b == IF 0 \in Rates(c.size) THEN 0 ELSE 1
           d == IF input \in Compressed THEN 1 ELSE 0
<1>1. /\ k = b + d + 1 /\ k \in 1 .. merged[i]
      /\ chains[i][k] = Scale(c.size)
      /\ d = 1 => chains[i][b + 1] = Decoder(input)
      /\ b = 1 => chains[i][1] = FramerateLimit(LeaderOf(c))
  BY DEF ScalesAt
<1>2. b \in {0, 1} /\ d \in {0, 1} /\ merged[i] \in Nat
  BY ChainElementAt
<1>3. /\ 0 \in Rates(c.size) <=> b = 0
      /\ input \in Compressed <=> d = 1
  OBVIOUS
<1> HIDE DEF b, d
<1>4. ASSUME NEW j \in 1 .. merged[i], chains[i][j].type # "Encoder",
             chains[i][j].type \in {"Scale", "Decoder", "FramerateLimit"}
      PROVE  /\ IsInner(t[j], chains[i][j].type, chains[i][j].config)
             /\ nodes[t[j]].input = t[j - 1]
  <2>1. /\ t[j] \in Nodes /\ nodes[t[j]].type = chains[i][j].type
        /\ SameConfig(nodes[t[j]], chains[i][j]) /\ nodes[t[j]].input = t[j - 1]
    BY <1>2 DEF IsTrack, Nodes
  <2>2. nodes[t[j]].config = chains[i][j].config
    BY <1>4, <2>1 DEF SameConfig
  <2>3. t[j] \in 2 .. Inner
    <3>1. t[j] # 1 /\ t[j] \notin Sinks
      BY <1>4, <2>1, NodeKinds DEF Sinks
    <3> QED  BY <2>1, <3>1, SinkNodes, NodeKinds
  <2> QED  BY <2>1, <2>2, <2>3 DEF IsInner
<1>5. t[0] = 1
  BY DEF IsTrack
<1>6. IsInner(t[k], "Scale", c.size) /\ nodes[t[k]].input = t[k - 1]
  <2>1. chains[i][k].type = "Scale" /\ chains[i][k].config = c.size
    BY <1>1 DEF Scale
  <2> QED  BY <1>1, <1>4, <2>1
<1>7. d = 1 => IsInner(t[b + 1], "Decoder", input) /\ nodes[t[b + 1]].input = t[b]
  <2> SUFFICES ASSUME d = 1
               PROVE  IsInner(t[b + 1], "Decoder", input) /\ nodes[t[b + 1]].input = t[b]
    OBVIOUS
  <2>1. chains[i][b + 1].type = "Decoder" /\ chains[i][b + 1].config = input
    BY <1>1 DEF Decoder
  <2>2. b + 1 \in 1 .. merged[i] /\ (b + 1) - 1 = b
    BY <1>1, <1>2
  <2> QED  BY <1>4, <2>1, <2>2
<1>8. b = 1 => IsInner(t[1], "FramerateLimit", LeaderOf(c)) /\ nodes[t[1]].input = 1
  <2> SUFFICES ASSUME b = 1
               PROVE  IsInner(t[1], "FramerateLimit", LeaderOf(c)) /\ nodes[t[1]].input = 1
    OBVIOUS
  <2>1. chains[i][1].type = "FramerateLimit" /\ chains[i][1].config = LeaderOf(c)
    BY <1>1 DEF FramerateLimit
  <2>2. 1 \in 1 .. merged[i] /\ 1 - 1 = 0
    BY <1>1, <1>2
  <2> QED  BY <1>4, <1>5, <2>1, <2>2
<1>9. /\ LimitOf(t[k]) = t[b]
      /\ input \in Compressed => nodes[t[k]].input = t[b + 1]
  <2>1. CASE d = 1
    <3>1. k - 1 = b + 1
      BY <1>1, <1>2, <2>1
    <3> QED  BY <1>3, <1>6, <1>7, <2>1, <3>1 DEF LimitOf
  <2>2. CASE d = 0
    <3>1. k - 1 = b
      BY <1>1, <1>2, <2>2
    <3> QED  BY <1>3, <1>6, <2>2, <3>1 DEF LimitOf
  <2> QED  BY <1>2, <2>1, <2>2
<1>10. b = 1 => LeaderOf(c) # 0
  <2>1. /\ c.framerate \in Rates(c.size) /\ IsFiniteSet(Rates(c.size))
        /\ Rates(c.size) \in SUBSET Nat
    BY OutputFacts DEF Rates, GraphInv, Configured
  <2>2. b = 1 => Rates(c.size) \in SUBSET (Nat \ {0})
    BY <1>3, <2>1
  <2> QED  BY <2>1, <2>2, LeaderParts DEF LeaderOf
<1>11. CASE b = 1
  <2>1. ScaleRate(c) = LeaderOf(c) /\ ScaleRate(c) # 0
    BY <1>3, <1>10, <1>11 DEF ScaleRate
  <2> QED  BY <1>3, <1>6, <1>7, <1>8, <1>9, <1>11, <2>1 DEF ScalesFor
<1>12. CASE b = 0
  <2>1. ScaleRate(c) = 0
    BY <1>3, <1>12 DEF ScaleRate
  <2> QED  BY <1>3, <1>5, <1>6, <1>7, <1>9, <1>12, <2>1 DEF ScalesFor
<1> QED  BY <1>2, <1>11, <1>12

(* The scales of a size are those for the rates of its outputs.            *)
LEMMA ScalesOfSize ==
  ASSUME GraphInv, Planned, NEW size \in {outputs[i].size : i \in Indices} \ {FullSize}
  PROVE  LET keys == {ScaleRate(outputs[i]) : i \in {j \in Indices : outputs[j].size = size}}
         IN  /\ \A r \in keys : \E n \in ScaleNodes(size) : ScalesFor(n, size, r)
             /\ \A n \in ScaleNodes(size) : \E r \in keys : ScalesFor(n, size, r)
<1>1. ASSUME NEW i \in Indices, outputs[i].size = size
      PROVE  \E n \in ScaleNodes(size) : ScalesFor(n, size, ScaleRate(outputs[i]))
  <2>1. PICK t : IsTrack(t, nodes, chains[i], merged[i], parent[i])
    BY DEF GraphInv, Tracked
  <2>2. PICK k : ScalesAt(i, k)
    BY <1>1, ScalePosition DEF NeedsScale
  <2>3. ScalesFor(t[k], size, ScaleRate(outputs[i]))
    BY <1>1, <2>1, <2>2, ScaleReached
  <2>4. t[k] \in ScaleNodes(size)
    BY <2>3, NodeKinds DEF ScalesFor, IsInner, ScaleNodes, Nodes
  <2> QED  BY <2>3, <2>4
<1>2. ASSUME NEW n \in ScaleNodes(size)
      PROVE  \E i \in Indices : outputs[i].size = size
                                /\ ScalesFor(n, size, ScaleRate(outputs[i]))
  <2>1. n \in Nodes /\ nodes[n].type = "Scale" /\ nodes[n].config = size
    BY DEF ScaleNodes, Nodes
  <2>2. n \in 2 .. Inner
    <3>1. n # 1 /\ n \notin Sinks
      BY <2>1, NodeKinds DEF Sinks
    <3> QED  BY <2>1, <3>1, SinkNodes, NodeKinds
  <2>3. PICK i \in Indices : MadeFor(n, i)
    BY <2>2 DEF GraphInv
  <2>4. PICK t, k : /\ IsTrack(t, nodes, chains[i], merged[i], parent[i])
                    /\ k \in 1 .. merged[i] /\ t[k] = n
                    /\ nodes[n] = Node(chains[i][k], nodes[n].input)
    BY <2>3 DEF MadeFor
  <2>5. chains[i][k].type = "Scale" /\ chains[i][k].config = size
    BY <2>1, <2>4 DEF Node
  <2>6. ScalesAt(i, k)
    BY <2>4, <2>5, ScalePosition
  <2>7. outputs[i].size = size
    BY <2>5, <2>6 DEF ScalesAt, Scale
  <2>8. ScalesFor(n, size, ScaleRate(outputs[i]))
    BY <2>4, <2>6, <2>7, ScaleReached
  <2> QED  BY <2>7, <2>8
<1> QED  BY <1>1, <1>2

(* They are counted by their rates.                                        *)
LEMMA ScalesShared ==
  ASSUME GraphInv
  PROVE  CompatibleOutputsShareScale
<1> SUFFICES ASSUME Planned, NEW size \in {outputs[i].size : i \in Indices} \ {FullSize}
             PROVE  Cardinality(ScaleNodes(size)) =
                      IF 0 \in Rates(size) THEN 1 ELSE Cardinality(Top(Rates(size)))
  BY DEF CompatibleOutputsShareScale, Rates, Top
<1> DEFINE rates == Rates(size)
           keys == {ScaleRate(outputs[i]) : i \in {j \in Indices : outputs[j].size = size}}
           S == ScaleNodes(size)
           wanted == IF 0 \in rates THEN {0} ELSE Top(rates)
           f == [r \in wanted |-> CHOOSE n \in S : ScalesFor(n, size, r)]
<1>1. rates \in SUBSET Nat /\ IsFiniteSet(rates)
  BY OutputFacts DEF GraphInv, Configured
<1>2. keys = wanted
  <2>1. CASE 0 \in rates
    <3>1. \A i \in Indices : outputs[i].size = size => ScaleRate(outputs[i]) = 0
      BY <2>1 DEF ScaleRate
    <3>2. \E i \in Indices : outputs[i].size = size
      OBVIOUS
    <3> HIDE DEF rates
    <3> QED  BY <2>1, <3>1, <3>2
  <2>2. CASE 0 \notin rates
    <3>1. rates \in SUBSET (Nat \ {0})
      BY <1>1, <2>2
    <3>2. \A r \in rates : /\ Leader(rates, r) \in Top(rates)
                           /\ r \in Top(rates) => Leader(rates, r) = r
      BY <1>1, <3>1, LeaderParts
    <3>3. \A i \in Indices : outputs[i].size = size =>
            /\ ScaleRate(outputs[i]) = Leader(rates, outputs[i].framerate)
            /\ outputs[i].framerate \in rates
      BY <2>2 DEF ScaleRate, LeaderOf, Rates
    <3>4. ASSUME NEW r \in Top(rates)
          PROVE  r \in keys
      <4>1. r \in rates
        BY DEF Top
      <4>2. PICK i \in Indices : outputs[i].size = size /\ outputs[i].framerate = r
        BY <4>1 DEF Rates
      <4>3. ScaleRate(outputs[i]) = r
        BY <3>2, <3>3, <4>1, <4>2
      <4> QED  BY <4>2, <4>3
    <3>5. keys \subseteq Top(rates)
      BY <3>2, <3>3
    <3> QED  BY <2>2, <3>4, <3>5
  <2> QED  BY <2>1, <2>2
<1>3. IsFiniteSet(wanted)
  <2>1. Top(rates) \in SUBSET rates
    BY DEF Top
  <2> HIDE DEF rates
  <2> QED  BY <1>1, <2>1, FS_Subset, FS_Singleton
<1>4. /\ \A r \in keys : \E n \in S : ScalesFor(n, size, r)
      /\ \A n \in S : \E r \in keys : ScalesFor(n, size, r)
  BY ScalesOfSize
<1> HIDE DEF rates, keys, S
<1>5. ExistsBijection(wanted, S)
  <2> HIDE DEF wanted
  <2>1. \A r \in wanted : f[r] \in S /\ ScalesFor(f[r], size, r)
    BY <1>2, <1>4
  <2>2. f \in [wanted -> S]
    BY <2>1
  <2> HIDE DEF f
  <2>3. \A r, s \in wanted : f[r] = f[s] => r = s
    BY <2>1, OneScale
  <2>4. \A n \in S : \E r \in wanted : f[r] = n
    <3> SUFFICES ASSUME NEW n \in S PROVE \E r \in wanted : f[r] = n
      OBVIOUS
    <3>1. PICK r \in wanted : ScalesFor(n, size, r)
      BY <1>2, <1>4
    <3> QED  BY <2>1, <3>1, OneScale
  <2>5. f \in Bijection(wanted, S)
    BY <2>2, <2>3, <2>4 DEF Bijection, Injection, Surjection, IsInjective
  <2> QED  BY <2>5 DEF ExistsBijection
<1>6. Cardinality(S) = Cardinality(wanted)
  <2> HIDE DEF wanted
  <2> QED  BY <1>3, <1>5, FS_Bijection
<1> QED  BY <1>6, FS_Singleton DEF S, rates

(* optimizeFramerateScaleGroups: for any outputs, those of one size share  *)
(* one scale, or as few as their framerates allow.                         *)
THEOREM ScalesAreShared == Spec => []CompatibleOutputsShareScale
<1>1. GraphInv => CompatibleOutputsShareScale
  BY ScalesShared
<1> QED  BY <1>1, PlanInvariant, PTL

-----------------------------------------------------------------------------
(* The invariant of the build.                                             *)

Building == phase \in {"realize", "link", "built"}

Unbuilt ==
  /\ machine = NoMachine
  /\ scaleMemory = <<>> /\ elements = {} /\ tees = {}
  /\ valves = <<>> /\ queues = <<>>

(* determineHwScaling has decided on the memory of every scale.            *)
MemoryChosen ==
  scaleMemory =
    [n \in {m \in Nodes : nodes[m].type = "Scale" /\ ScalesInHardware(m, machine)}
       |-> CommonMemory(n, machine)]

(* The tree branches at the tees.                                          *)
TeesMade == tees = {n \in elements \ Sinks : Cardinality(ChildrenOf(n)) > 1}

(* An output has an element once it and all before it are linked.          *)
Linked ==
  /\ DOMAIN queues \subseteq Nodes \ {1}
  /\ \A s \in Sinks : s \in DOMAIN queues => s \in elements
  /\ \A s \in Sinks \cap elements : 2 .. s \subseteq DOMAIN queues

(* Every linked branch has a valve of its own, for the outputs behind it.  *)
Branches == {n \in DOMAIN queues : nodes[n].input \in tees}

ValvesMade ==
  /\ IsSeq(valves) /\ Len(valves) = Cardinality(Branches)
  /\ \A v \in DOMAIN valves : valves[v] \subseteq Indices
  /\ \A n \in Branches : \E v \in DOMAIN valves : valves[v] = DownstreamOutputs(n)

BuilderInv ==
  /\ machine \in Machines \cup {NoMachine}
  /\ ~Building => Unbuilt
  /\ Building =>
       elements \subseteq Nodes /\ MemoryChosen /\ TeesMade /\ Linked /\ ValvesMade
  /\ phase = "realize" => elements \cap Sinks = {} /\ valves = <<>> /\ queues = <<>>
  /\ phase \in {"link", "built"} => Nodes \ Sinks \subseteq elements
  /\ phase = "built" => elements = Nodes

(* The walks over a tree that stays as it is.                              *)

(* They find what they found before.                                       *)
LEMMA SameTree ==
  ASSUME nodes' = nodes
  PROVE  /\ Nodes' = Nodes /\ Sinks' = Sinks /\ PathTo' = PathTo
         /\ \A n : ChildrenOf(n)' = ChildrenOf(n)
         /\ \A n : DownstreamOutputs(n)' = DownstreamOutputs(n)
         /\ \A n, x : CommonMemory(n, x)' = CommonMemory(n, x)
         /\ \A n, x : ScalesInHardware(n, x)' <=> ScalesInHardware(n, x)
<1>1. Nodes' = Nodes /\ Sinks' = Sinks /\ \A n : ChildrenOf(n)' = ChildrenOf(n)
  BY DEF Nodes, Sinks, ChildrenOf
<1>2. PathTo' = PathTo
  BY DEF PathTo
<1>3. \A n : Below(n)' = Below(n)
  BY <1>1, <1>2 DEF Below
<1>4. \A n : InterCodedEncoder(n)' <=> InterCodedEncoder(n)
  BY DEF InterCodedEncoder
<1>5. \A n : DownstreamOutputs(n)' = DownstreamOutputs(n)
  BY <1>1, <1>3 DEF DownstreamOutputs
<1>6. \A n : DownstreamEncoders(n)' = DownstreamEncoders(n)
  BY <1>3, <1>4 DEF DownstreamEncoders
<1>7. \A e, x : Preselected(e, x)' = Preselected(e, x)
  BY DEF Preselected
<1>8. \A n, x : CommonMemory(n, x)' = CommonMemory(n, x)
  BY <1>6, <1>7 DEF CommonMemory
<1>9. \A n : HasRawSink(n)' <=> HasRawSink(n)
  BY <1>1, <1>2, <1>3 DEF HasRawSink
<1>10. \A n, x : ScalesInHardware(n, x)' <=> ScalesInHardware(n, x)
  BY <1>6, <1>8, <1>9 DEF ScalesInHardware
<1> QED  BY <1>1, <1>2, <1>5, <1>8, <1>10

(* What is behind a node are outputs.                                      *)
LEMMA DownstreamAreOutputs ==
  ASSUME GraphInv, Planned, NEW n
  PROVE  DownstreamOutputs(n) \subseteq Indices
<1>1. \A m \in Sinks : nodes[m].config \in Indices
  BY SinkNodes, NodeKinds
<1> QED  BY <1>1 DEF DownstreamOutputs

(* Another node is linked.                                                 *)
LEMMA LinkStep ==
  ASSUME GraphInv, Planned, NEW n \in Nodes \ {1},
         n \notin DOMAIN queues, DOMAIN queues \subseteq Nodes \ {1},
         ValvesMade, Link(n), nodes' = nodes, outputs' = outputs, tees' = tees
  PROVE  DOMAIN queues' = DOMAIN queues \cup {n} /\ ValvesMade'
<1>1. DOMAIN queues' = DOMAIN queues \cup {n}
  BY DEF Link, Queued
<1>2. IsFiniteSet(Branches)
  <2>1. Nodes = 1 .. Len(nodes) /\ Len(nodes) \in Nat
    BY NodeKinds
  <2>2. IsFiniteSet(Nodes)
    BY <2>1, FS_Interval
  <2>3. Branches \in SUBSET Nodes
    BY DEF Branches
  <2> QED  BY <2>2, <2>3, FS_Subset
<1>3. Branches' = IF nodes[n].input \in tees THEN Branches \cup {n} ELSE Branches
  <2>1. Branches' = {m \in DOMAIN queues \cup {n} : nodes[m].input \in tees}
    BY <1>1 DEF Branches
  <2> QED  BY <2>1 DEF Branches
<1>4. n \notin Branches /\ Indices' = Indices
  BY DEF Branches, Indices
<1>5. \A m : DownstreamOutputs(m)' = DownstreamOutputs(m)
  BY SameTree
<1>6. CASE nodes[n].input \in tees
  <2>1. valves' = Append(valves, DownstreamOutputs(n)) /\ IsSeq(valves)
    BY <1>6 DEF Link, ValvesMade
  <2>2. /\ IsSeq(valves') /\ Len(valves') = Len(valves) + 1 /\ Len(valves) \in Nat
        /\ DOMAIN valves' = 1 .. Len(valves) + 1
        /\ valves'[Len(valves) + 1] = DownstreamOutputs(n)
        /\ \A v \in 1 .. Len(valves) : valves'[v] = valves[v]
    BY <2>1, AppendParts
  <2>3. DOMAIN valves = 1 .. Len(valves)
    BY <2>1, SeqParts
  <2>4. Cardinality(Branches') = Cardinality(Branches) + 1
    BY <1>2, <1>3, <1>4, <1>6, FS_AddElement
  <2>5. \A v \in DOMAIN valves' : v \in DOMAIN valves \/ v = Len(valves) + 1
    BY <2>2, <2>3
  <2>6. \A v \in DOMAIN valves : v \in DOMAIN valves' /\ valves'[v] = valves[v]
    BY <2>2, <2>3
  <2>7. Len(valves) + 1 \in DOMAIN valves'
    BY <2>2
  <2>8. \A v \in DOMAIN valves' : valves'[v] \subseteq Indices
    BY <2>2, <2>5, <2>6, DownstreamAreOutputs DEF ValvesMade
  <2>9. ASSUME NEW m \in Branches'
        PROVE  \E v \in DOMAIN valves' : valves'[v] = DownstreamOutputs(m)
    <3>1. CASE m = n
      BY <2>2, <2>7, <3>1
    <3>2. CASE m \in Branches
      BY <2>6, <3>2 DEF ValvesMade
    <3> QED  BY <1>3, <1>6, <3>1, <3>2
  <2>10. Len(valves') = Cardinality(Branches')
    BY <2>2, <2>4 DEF ValvesMade
  <2> QED  BY <1>1, <1>4, <1>5, <2>2, <2>8, <2>9, <2>10 DEF ValvesMade
<1>7. CASE nodes[n].input \notin tees
  <2>1. valves' = valves /\ Branches' = Branches
    BY <1>3, <1>7 DEF Link
  <2> QED  BY <1>1, <1>4, <1>5, <2>1 DEF ValvesMade, IsSeq
<1> QED  BY <1>1, <1>6, <1>7

(* A node without children is not where the tree branches.                 *)
LEMMA SinksAreLeaves ==
  ASSUME GraphInv, Planned, NEW n \in Nodes \ {1}
  PROVE  nodes[n].input \in Nodes \ Sinks
<1>1. nodes[n].input \in 1 .. Inner
  <2>1. CASE n \in Sinks
    <3>1. PICK i \in Indices : n = Inner + i
      BY <2>1, SinkNodes
    <3>2. nodes[n].input = parent[i]
      BY <3>1, NodeKinds
    <3> QED  BY <3>2 DEF GraphInv, Progress
  <2>2. CASE n \notin Sinks
    <3>1. n \in 1 .. Inner
      BY <2>2, SinkNodes
    <3>2. nodes[n].input \in 0 .. n - 1 /\ nodes[n].input # 0 /\ n \in Nat
      BY NodeInput DEF GraphInv
    <3> QED  BY <3>1, <3>2, NodeKinds
  <2> QED  BY <2>1, <2>2
<1> QED  BY <1>1, SinkNodes, NodeKinds

(* Nothing is left of a build that failed, and nothing there before one.   *)
LEMMA UnbuiltInv ==
  ASSUME Unbuilt, ~Building
  PROVE  BuilderInv
BY DEF BuilderInv, Unbuilt, Building

(* A build begins as its invariant says.                                   *)
LEMMA BuilderInvInit ==
  ASSUME BuilderInit
  PROVE  BuilderInv
BY UnbuiltInv DEF BuilderInit, GraphInit, Unbuilt, Building

(* And every step keeps to it.                                             *)
LEMMA BuilderInvStep ==
  ASSUME GraphInv, BuilderInv, [Next]_vars
  PROVE  BuilderInv'
<1>1. CASE Plan
  <2>1. ~Building /\ ~Building'
    BY <1>1 DEF Plan, GraphNext, ComputeChains, OptimizeFramerateScaleGroups,
                MergeElement, AttachSinks, Building
  <2>2. Unbuilt'
    BY <1>1, <2>1 DEF Plan, builderVars, BuilderInv, Unbuilt
  <2> QED  BY <2>1, <2>2 DEF BuilderInv, Building, Unbuilt
<1>2. CASE SelectBackends
  <2>1. /\ phase' = "realize" /\ nodes' = nodes /\ machine' \in Machines
        /\ elements' = {} /\ tees' = {} /\ valves' = <<>> /\ queues' = <<>>
    BY <1>2 DEF SelectBackends, BuilderInv, Building, Unbuilt
  <2>2. MemoryChosen'
    BY <1>2, <2>1, SameTree DEF SelectBackends, MemoryChosen
  <2>3. Linked' /\ TeesMade'
    BY <2>1 DEF Linked, TeesMade
  <2>4. ValvesMade'
    <3>1. Branches' = {} /\ DOMAIN valves' = {} /\ Len(valves') = 0 /\ IsSeq(valves')
      BY <2>1, ShortSeqs DEF Branches, IsSeq
    <3>2. Cardinality(Branches') = 0
      BY <3>1, FS_EmptySet
    <3> QED  BY <3>1, <3>2 DEF ValvesMade
  <2> QED  BY <2>1, <2>2, <2>3, <2>4 DEF BuilderInv, Building
<1>3. ASSUME NEW n \in Nodes, RealizeNode(n)
      PROVE  BuilderInv'
  <2>1. /\ phase = "realize" /\ phase' = phase /\ nodes' = nodes /\ outputs' = outputs
        /\ elements' = elements \cup {n} /\ machine' = machine
        /\ scaleMemory' = scaleMemory /\ valves' = <<>> /\ queues' = <<>>
        /\ n \notin Sinks /\ n \notin elements
        /\ tees' = IF Cardinality(ChildrenOf(n)) > 1 THEN tees \cup {n} ELSE tees
    BY <1>3 DEF RealizeNode, NextToRealize, graphVars, BuilderInv, Sinks, Nodes
  <2>2. Building /\ Building' /\ Nodes' = Nodes /\ Sinks' = Sinks
    BY <2>1, SameTree DEF Building
  <2>3. MemoryChosen'
    BY <2>1, <2>2, SameTree DEF BuilderInv, MemoryChosen
  <2>4. TeesMade'
    BY <2>1, <2>2, SameTree DEF BuilderInv, TeesMade
  <2>5. elements' \subseteq Nodes' /\ elements' \cap Sinks' = {}
    BY <2>1, <2>2 DEF BuilderInv
  <2>6. Linked'
    BY <2>1, <2>5 DEF Linked
  <2>7. ValvesMade'
    <3>1. Branches' = {} /\ DOMAIN valves' = {} /\ Len(valves') = 0 /\ IsSeq(valves')
      BY <2>1, ShortSeqs DEF Branches, IsSeq
    <3>2. Cardinality(Branches') = 0
      BY <3>1, FS_EmptySet
    <3> QED  BY <3>1, <3>2 DEF ValvesMade
  <2> QED  BY <2>1, <2>3, <2>4, <2>5, <2>6, <2>7 DEF BuilderInv, Building
<1>4. ASSUME NEW n \in Nodes, LinkNode(n)
      PROVE  BuilderInv'
  <2>1. /\ phase = "link" /\ phase' = phase /\ nodes' = nodes /\ outputs' = outputs
        /\ elements' = elements /\ machine' = machine /\ tees' = tees
        /\ scaleMemory' = scaleMemory
        /\ n \notin Sinks /\ n \notin DOMAIN queues /\ n # 1 /\ Link(n)
    BY <1>4, NodeKinds DEF LinkNode, graphVars, Sinks, Nodes
  <2>2. Building /\ Building' /\ Planned /\ Nodes' = Nodes /\ Sinks' = Sinks
    BY <2>1, SameTree DEF Building, Planned
  <2>3. MemoryChosen' /\ TeesMade'
    BY <2>1, <2>2, SameTree DEF BuilderInv, MemoryChosen, TeesMade
  <2>4. DOMAIN queues' = DOMAIN queues \cup {n} /\ ValvesMade'
    BY <2>1, <2>2, LinkStep DEF BuilderInv, Linked
  <2>5. Linked'
    BY <2>1, <2>2, <2>4 DEF BuilderInv, Linked
  <2> QED  BY <2>1, <2>2, <2>3, <2>4, <2>5 DEF BuilderInv
<1>5. ASSUME NEW s \in Nodes, RealizeOutput(s)
      PROVE  BuilderInv'
  <2>1. /\ phase = "link" /\ phase' = phase /\ nodes' = nodes /\ outputs' = outputs
        /\ elements' = elements \cup {s} /\ machine' = machine /\ tees' = tees
        /\ scaleMemory' = scaleMemory
        /\ s \in Sinks /\ s \notin elements /\ Link(s)
        /\ \A m \in 2 .. s - 1 : m \in DOMAIN queues
    BY <1>5 DEF RealizeOutput, graphVars
  <2>2. Building /\ Building' /\ Planned /\ Nodes' = Nodes /\ Sinks' = Sinks
    BY <2>1, SameTree DEF Building, Planned
  <2>3. s \notin DOMAIN queues /\ s # 1 /\ s \in Nat
    BY <2>1, <2>2, NodeKinds DEF BuilderInv, Linked, Sinks
  <2>4. MemoryChosen' /\ TeesMade'
    BY <2>1, <2>2, SameTree DEF BuilderInv, MemoryChosen, TeesMade
  <2>5. DOMAIN queues' = DOMAIN queues \cup {s} /\ ValvesMade'
    BY <2>1, <2>2, <2>3, LinkStep DEF BuilderInv, Linked
  <2>6. Linked'
    <3>1. 2 .. s \subseteq DOMAIN queues \cup {s}
      BY <2>1, <2>3
    <3> QED  BY <2>1, <2>2, <2>3, <2>5, <3>1 DEF BuilderInv, Linked
  <2> QED  BY <2>1, <2>2, <2>4, <2>5, <2>6 DEF BuilderInv
<1>6. CASE AllRealized \/ Built \/ UNCHANGED vars
  <2>1. /\ nodes' = nodes /\ outputs' = outputs /\ UNCHANGED builderVars
        /\ phase' = phase \/ (Building /\ Building' /\ phase' # "realize")
    BY <1>6 DEF AllRealized, Built, vars, graphVars, Building
  <2>2. /\ phase' \in {"link", "built"} => Nodes \ Sinks \subseteq elements
        /\ phase' = "built" => elements = Nodes
    BY <1>6 DEF AllRealized, Built, vars, graphVars, BuilderInv
  <2>3. Nodes' = Nodes /\ Sinks' = Sinks /\ Indices' = Indices /\ Building' = Building
    BY <2>1, SameTree DEF Indices, Building
  <2>4. (MemoryChosen => MemoryChosen') /\ (TeesMade => TeesMade') /\ (Linked => Linked')
    <3>1. MemoryChosen => MemoryChosen'
      BY <2>1, <2>3, SameTree DEF builderVars, MemoryChosen
    <3>2. TeesMade => TeesMade'
      BY <2>1, <2>3, SameTree DEF builderVars, TeesMade
    <3>3. Linked => Linked'
      BY <2>1, <2>3 DEF builderVars, Linked
    <3> QED  BY <3>1, <3>2, <3>3
  <2>5. ValvesMade => ValvesMade'
    BY <2>1, <2>3, SameTree DEF builderVars, ValvesMade, Branches, IsSeq
  <2>6. Unbuilt => Unbuilt'
    BY <2>1 DEF builderVars, Unbuilt
  <2> QED  BY <2>1, <2>2, <2>3, <2>4, <2>5, <2>6 DEF BuilderInv, builderVars
<1>7. CASE Fail
  <2>1. Unbuilt' /\ ~Building'
    BY <1>7 DEF Fail, Unbuilt, Building
  <2> QED  BY <2>1 DEF BuilderInv, Unbuilt, Building
<1> QED  BY <1>1, <1>2, <1>3, <1>4, <1>5, <1>6, <1>7 DEF Next

(* A build is always as its invariant says.                                *)
THEOREM BuildInvariant == Spec => [](GraphInv /\ BuilderInv)
<1>1. BuilderInit => GraphInv /\ BuilderInv
  BY GraphInvInit, BuilderInvInit DEF BuilderInit
<1>2. GraphInv /\ BuilderInv /\ [Next]_vars => GraphInv' /\ BuilderInv'
  BY GraphInvStep, BuilderInvStep
<1> QED  BY <1>1, <1>2, PTL DEF Spec

(* Type correctness of the plan and the build.                             *)
THEOREM BuilderTypeCorrect == Spec => []TypeOK
<1>1. ASSUME GraphInv, BuilderInv
      PROVE  TypeOK
  <2>1. ASSUME NEW n \in Nodes
        PROVE  nodes[n].type \in NodeTypes /\ nodes[n].input \in 0 .. n - 1
    <3>1. nodes[n].input \in 0 .. n - 1
      BY <1>1, NodeInput DEF GraphInv
    <3>2. n = 1 \/ n \in 2 .. Inner \/ (Planned /\ n \in Sinks)
      <4>1. Planned => n \in Sinks \/ n \in 1 .. Inner
        BY <1>1, SinkNodes
      <4>2. ~Planned => n \in 1 .. Inner
        BY <1>1, NodeKinds
      <4> QED  BY <4>1, <4>2
    <3>3. nodes[n].type \in NodeTypes
      BY <1>1, <3>2, NodeKinds DEF NodeTypes, Sinks
    <3> QED  BY <3>1, <3>3
  <2>2. parent \in [Indices -> Nodes]
    BY <1>1, NodeKinds DEF GraphInv, Progress
  <2>3. ASSUME NEW i \in Indices
        PROVE  merged[i] \in 0 .. Len(chains[i])
    BY <1>1, ChainElementAt
  <2>4. CASE Building
    <3>1. Planned
      BY <2>4 DEF Building, Planned
    <3>2. elements \subseteq Nodes /\ tees \subseteq Nodes \ Sinks
          /\ DOMAIN scaleMemory \subseteq Nodes
          /\ DOMAIN queues \subseteq Nodes \ {1}
          /\ \A v \in DOMAIN valves : valves[v] \subseteq Indices
      BY <1>1, <2>4 DEF BuilderInv, MemoryChosen, TeesMade, Linked, ValvesMade
    <3> QED  BY <1>1, <2>1, <2>2, <2>3, <3>2 DEF TypeOK, GraphInv, Configured, BuilderInv
  <2>5. CASE ~Building
    <3>1. /\ elements = {} /\ tees = {} /\ DOMAIN scaleMemory = {}
          /\ DOMAIN queues = {} /\ DOMAIN valves = {}
      BY <1>1, <2>5 DEF BuilderInv, Unbuilt
    <3> QED  BY <1>1, <2>1, <2>2, <2>3, <3>1 DEF TypeOK, GraphInv, Configured, BuilderInv
  <2> QED  BY <2>4, <2>5
<1> QED  BY <1>1, BuildInvariant, PTL

-----------------------------------------------------------------------------
(* Pausing outputs.                                                        *)

(* A set of nodes with two elements has more than one.                     *)
LEMMA TwoChildren ==
  ASSUME GraphInv, NEW p, NEW a, NEW b,
         a \in ChildrenOf(p), b \in ChildrenOf(p), a # b
  PROVE  Cardinality(ChildrenOf(p)) > 1
<1>1. Nodes = 1 .. Len(nodes) /\ Len(nodes) \in Nat
  BY NodeKinds
<1>2. IsFiniteSet(Nodes)
  BY <1>1, FS_Interval
<1>3. ChildrenOf(p) \in SUBSET Nodes
  BY DEF ChildrenOf, Nodes
<1>4. IsFiniteSet(ChildrenOf(p)) /\ Cardinality(ChildrenOf(p)) \in Nat
  BY <1>2, <1>3, FS_Subset, FS_CardinalityType
<1>5. IsFiniteSet({a} \cup {b}) /\ Cardinality({a} \cup {b}) = 2
  <2>1. IsFiniteSet({a}) /\ Cardinality({a}) = 1 /\ b \notin {a}
    BY FS_Singleton
  <2> QED  BY <2>1, FS_AddElement
<1>6. ({a} \cup {b}) \in SUBSET ChildrenOf(p)
  OBVIOUS
<1>7. Cardinality({a} \cup {b}) <= Cardinality(ChildrenOf(p))
  BY <1>4, <1>6, FS_Subset
<1> QED  BY <1>4, <1>5, <1>7

(* Where the ways to two sinks part, the one has a branch of its own.      *)
LEMMA WaysPart ==
  ASSUME GraphInv, Planned, NEW i \in Indices, NEW j \in Indices, i # j
  PROVE  \E n \in Nodes \ {1} :
           /\ Cardinality(ChildrenOf(nodes[n].input)) > 1
           /\ n \in On(Inner + i) /\ n \notin On(Inner + j)
<1> DEFINE si == Inner + i
           sj == Inner + j
           D == On(si) \ On(sj)
<1>1. /\ si \in Sinks /\ sj \in Sinks /\ Inner \in Nat /\ si # sj
      /\ Sinks \subseteq Nodes /\ Nodes \subseteq Nat
  <2>1. Inner \in Nat /\ i \in Nat /\ j \in Nat /\ Nodes \subseteq Nat
    BY NodeKinds
  <2> QED  BY <2>1, SinkNodes
<1> HIDE DEF si, sj
<1>2. Tree /\ PathOK(si) /\ PathOK(sj) /\ On(si) \subseteq Nodes
  BY <1>1, PathsOK DEF GraphInv
<1>3. si \notin On(sj)
  <2> SUFFICES ASSUME si \in On(sj) PROVE FALSE
    OBVIOUS
  <2>1. PICK c \in On(sj) : nodes[c].input = si
    BY <1>1, <1>2 DEF PathOK
  <2>2. c \in Nodes \ {1}
    <3>1. c \in Nodes
      BY <1>1, <1>2, PathsOK
    <3>2. nodes[1].input = 0 /\ si # 0
      BY <1>1, NodeKinds
    <3> QED  BY <2>1, <3>1, <3>2
  <2> QED  BY <1>1, <2>1, <2>2, SinksAreLeaves
<1>4. D # {} /\ D \in SUBSET Nat
  BY <1>1, <1>2, <1>3 DEF PathOK
<1>5. PICK n \in D : \A m \in D : n <= m
  <2> HIDE DEF D
  <2> QED  BY <1>4, LeastNat
<1> DEFINE p == nodes[n].input
<1>6. n \in Nodes \ {1} /\ n \in Nat
  BY <1>1, <1>2 DEF PathOK
<1>7. p \in Nodes \ Sinks /\ p \in 0 .. n - 1 /\ p # 0
  BY <1>2, <1>6, SinksAreLeaves, NodeInput
<1>8. p \in On(si)
  <2>1. On(n) = {n} \cup On(p) /\ On(n) \subseteq On(si)
    BY <1>2, <1>6, <1>7, PathStep DEF PathOK
  <2>2. p \in On(p)
    BY <1>2, <1>7, PathsOK DEF PathOK
  <2> QED  BY <2>1, <2>2
<1>9. p \in On(sj)
  <2>1. p < n /\ p \in Nat
    BY <1>6, <1>7
  <2> HIDE DEF p
  <2>2. p \notin D
    BY <1>5, <1>6, <2>1
  <2> QED  BY <1>8, <2>2
<1>10. PICK c \in On(sj) : nodes[c].input = p
  <2>1. p # sj
    BY <1>1, <1>7
  <2> QED  BY <1>2, <1>9, <2>1 DEF PathOK
<1>11. c \in Nodes /\ n \in Nodes /\ c # n
  BY <1>1, <1>5, <1>6, <1>10, PathsOK DEF GraphInv
<1>12. Cardinality(ChildrenOf(p)) > 1
  BY <1>10, <1>11, TwoChildren DEF ChildrenOf, Nodes
<1> QED  BY <1>5, <1>6, <1>12 DEF si, sj

(* The branches of a built pipeline have their valves.                     *)
LEMMA OutputsPause ==
  ASSUME GraphInv, BuilderInv
  PROVE  OutputsCanPauseAlone
<1> SUFFICES ASSUME phase = "built"
             PROVE  /\ elements = Nodes /\ DOMAIN queues = Nodes \ {1}
                    /\ Len(valves) = Cardinality({n \in Nodes : nodes[n].input \in tees})
                    /\ \A i, j \in Indices :
                         i # j => \E v \in DOMAIN valves : i \in valves[v] /\ j \notin valves[v]
  BY DEF OutputsCanPauseAlone
<1>1. Planned /\ Building
  BY DEF Planned, Building
<1>2. elements = Nodes /\ TeesMade /\ Linked /\ ValvesMade
  BY <1>1 DEF BuilderInv
<1>3. DOMAIN queues = Nodes \ {1}
  <2>1. Nodes = 1 .. Len(nodes) /\ Len(nodes) = Inner + Len(outputs)
        /\ Inner \in Nat \ {0} /\ Len(outputs) \in Nat /\ Indices = 1 .. Len(outputs)
    BY <1>1, NodeKinds
  <2>2. ASSUME NEW n \in Nodes \ {1}
        PROVE  n \in DOMAIN queues
    <3>1. Len(outputs) # 0
      <4>1. CASE n \in 2 .. Inner
        BY <2>1, <4>1 DEF GraphInv
      <4>2. CASE n \notin 2 .. Inner
        BY <2>1, <4>2
      <4> QED  BY <4>1, <4>2
    <3>2. Len(nodes) \in Sinks \cap elements
      <4>1. Len(outputs) \in Indices
        BY <2>1, <3>1
      <4> QED  BY <1>1, <1>2, <2>1, <4>1, SinkNodes
    <3> QED  BY <1>2, <2>1, <3>2 DEF Linked
  <2> QED  BY <1>2, <2>2 DEF Linked
<1>4. Branches = {n \in Nodes : nodes[n].input \in tees}
  <2>1. nodes[1].input \notin tees
    <3>1. nodes[1].input = 0 /\ 0 \notin Nodes
      BY NodeKinds
    <3> QED  BY <1>2, <3>1 DEF TeesMade
  <2> QED  BY <1>3, <2>1 DEF Branches
<1>5. ASSUME NEW i \in Indices, NEW j \in Indices, i # j
      PROVE  \E v \in DOMAIN valves : i \in valves[v] /\ j \notin valves[v]
  <2>1. PICK n \in Nodes \ {1} :
               /\ Cardinality(ChildrenOf(nodes[n].input)) > 1
               /\ n \in On(Inner + i) /\ n \notin On(Inner + j)
    BY <1>1, <1>5, WaysPart
  <2>2. nodes[n].input \in tees
    BY <1>1, <1>2, <2>1, SinksAreLeaves DEF TeesMade
  <2>3. PICK v \in DOMAIN valves : valves[v] = DownstreamOutputs(n)
    BY <1>2, <1>4, <2>1, <2>2 DEF ValvesMade
  <2>4. Inner + i \in Sinks /\ Inner + j \in Sinks /\ Sinks \subseteq Nodes
        /\ nodes[Inner + i].config = i
        /\ \A m \in Sinks : nodes[m].config = j => m = Inner + j
    <3>1. Sinks = {Inner + k : k \in Indices} /\ Sinks \subseteq Nodes
      BY <1>1, SinkNodes
    <3>2. \A k \in Indices : nodes[Inner + k].config = k
      BY <1>1, NodeKinds
    <3> QED  BY <3>1, <3>2
  <2>5. i \in DownstreamOutputs(n)
    BY <2>1, <2>4 DEF DownstreamOutputs, Below, On
  <2>6. j \notin DownstreamOutputs(n)
    <3>1. Inner + j \in On(Inner + j)
      BY <2>4, PathsOK DEF GraphInv, PathOK
    <3>2. Inner + j \notin Below(n) \cup {n}
      BY <2>1, <3>1 DEF Below, On
    <3> QED  BY <2>4, <3>2 DEF DownstreamOutputs
  <2> QED  BY <2>3, <2>5, <2>6
<1> QED  BY <1>2, <1>3, <1>4, <1>5 DEF ValvesMade

(* PipelineBuilder::linkNode and realizeOutputs: in a pipeline built for   *)
(* any outputs each branch has its valve, and each output can be paused    *)
(* while any other goes on.                                                *)
THEOREM OutputsPauseAlone == Spec => []OutputsCanPauseAlone
<1>1. GraphInv /\ BuilderInv => OutputsCanPauseAlone
  BY OutputsPause
<1> QED  BY <1>1, BuildInvariant, PTL

-----------------------------------------------------------------------------
(* Memory and backends.                                                    *)

(* The minimum of a set of numbers is in it.                               *)
LEMMA MinIsIn ==
  ASSUME NEW S \in SUBSET Nat, S # {}
  PROVE  Min(S) \in S
<1>1. PICK x \in S : \A y \in S : x <= y
  BY LeastNat
<1> QED  BY <1>1, LeastIsMin

(* A hardware scaler leaves its frames in the memory it is to use.         *)
LEMMA ScalesToTarget ==
  ASSUME NEW target, NEW m, ScalesTo(target, m) # "SYSTEM"
  PROVE  ScalesTo(target, m) \in target
<1> DEFINE usable == {i \in DOMAIN HwScalers :
                        /\ HwScalers[i].memory \cap target # {}
                        /\ HwScalers[i].factories \subseteq m.creatable}
           s == HwScalers[Min(usable)]
           shared == {i \in DOMAIN Memories : Memories[i] \in s.memory \cap target}
<1>1. usable # {} /\ ScalesTo(target, m) = Memories[Min(shared)]
  BY DEF ScalesTo, highestPriorityOverlap
<1>2. DOMAIN HwScalers = 1 .. 5 /\ DOMAIN Memories = 1 .. 5
  BY DEF HwScalers, Memories
<1>3. Min(usable) \in usable
  <2>1. usable \in SUBSET Nat
    BY <1>2
  <2> HIDE DEF usable
  <2> QED  BY <1>1, <2>1, MinIsIn
<1>4. Min(usable) \in 1 .. 5 /\ s.memory \cap target # {}
  BY <1>2, <1>3
<1> HIDE DEF usable
<1>5. s.memory \subseteq ToSet(Memories)
  <2>1. \A k \in 1 .. 5 : HwScalers[k].memory \subseteq {"VA", "VA_SURFACE", "CUDA", "NVMM"}
    BY DEF HwScalers, Scaler
  <2>2. {"VA", "VA_SURFACE", "CUDA", "NVMM"} \subseteq {Memories[k] : k \in 1 .. 5}
    <3>1. Memories[1] = "VA" /\ Memories[2] = "VA_SURFACE" /\ Memories[4] = "CUDA"
          /\ Memories[5] = "NVMM"
      BY DEF Memories
    <3> QED  BY <3>1
  <2> QED  BY <1>2, <1>4, <2>1, <2>2 DEF ToSet
<1> HIDE DEF s
<1>6. shared # {} /\ shared \in SUBSET Nat
  BY <1>2, <1>4, <1>5 DEF ToSet
<1>7. Min(shared) \in shared
  <2> HIDE DEF shared
  <2> QED  BY <1>6, MinIsIn
<1> QED  BY <1>1, <1>7

(* The encoder behind a hardware scale is among those it was chosen for.   *)
LEMMA RawFramesStay ==
  ASSUME GraphInv, BuilderInv
  PROVE  RawFramesStayInSystemMemory
<1> SUFFICES ASSUME phase \in {"realize", "link", "built"},
                    NEW n \in DOMAIN scaleMemory,
                    ScalesTo(scaleMemory[n], machine) # "SYSTEM",
                    NEW s \in Sinks, n \in ToSet(PathTo[s])
             PROVE  \E e \in ToSet(PathTo[s]) :
                      /\ e > n /\ nodes[e].type = "Encoder"
                      /\ InterCodedEncoder(e) /\ Created(e, machine) = Preselected(e, machine)
                           => ScalesTo(scaleMemory[n], machine)
                                \in encoderInputMemoryFlags(Created(e, machine))
  BY DEF RawFramesStayInSystemMemory
<1>1. Planned /\ Building
  BY DEF Planned, Building
<1>2. /\ n \in Nodes /\ nodes[n].type = "Scale" /\ ~HasRawSink(n)
      /\ scaleMemory[n] = CommonMemory(n, machine)
  BY <1>1 DEF BuilderInv, MemoryChosen, ScalesInHardware
<1>3. s \in Nodes /\ s # n
  BY <1>1, <1>2, SinkNodes DEF Sinks
<1>4. s \in Below(n) \cap Sinks
  BY <1>3 DEF Below
<1>5. PICK e \in ToSet(PathTo[s]) : e > n /\ nodes[e].type = "Encoder"
  BY <1>2, <1>4 DEF HasRawSink
<1>6. ASSUME InterCodedEncoder(e)
      PROVE  ScalesTo(scaleMemory[n], machine)
               \in encoderInputMemoryFlags(Preselected(e, machine))
  <2>1. e \in Nodes /\ n \in Nat /\ e \in Nat /\ n \in On(e)
    <3>1. PathOK(s) /\ On(s) \subseteq Nodes /\ Nodes \subseteq Nat
      BY SMTT(30), <1>3, PathsOK, NodeKinds DEF GraphInv
    <3>2. e \in On(s) /\ n \in On(s)
      BY DEF On
    <3>3. e \in Nodes /\ n \in Nat /\ e \in Nat
      BY <3>1, <3>2
    <3>4. n <= e
      BY <1>5, <3>3
    <3> QED  BY <3>1, <3>2, <3>3, <3>4 DEF PathOK
  <2>2. e # n
    BY <1>5, <2>1
  <2>3. e \in DownstreamEncoders(n)
    BY <1>6, <2>1, <2>2 DEF DownstreamEncoders, Below, On
  <2>4. ScalesTo(scaleMemory[n], machine) \in CommonMemory(n, machine)
    BY <1>2, ScalesToTarget
  <2> QED  BY <2>3, <2>4 DEF CommonMemory
<1> QED  BY <1>5, <1>6

(* determineHwScaling: whatever is installed, frames a scaler leaves in    *)
(* hardware memory reach an encoder that reads it, and no output does.     *)
THEOREM RawFramesInSystemMemory == Spec => []RawFramesStayInSystemMemory
<1>1. GraphInv /\ BuilderInv => RawFramesStayInSystemMemory
  BY RawFramesStay
<1> QED  BY <1>1, BuildInvariant, PTL

(* The encoder tables: no backend is called NONE, and those called NVV4L2  *)
(* are the ones whose creation throws.                                     *)
EncoderTable(desc) ==
  /\ DOMAIN desc.backends \subseteq Nat
  /\ \A i \in DOMAIN desc.backends :
       /\ desc.backends[i].name # None
       /\ desc.backends[i].name = "NVV4L2" => desc.backends[i].factory \in ThrowsOnFailure

(* All encoder tables are like this.                                       *)
LEMMA EncoderTables ==
  ASSUME NEW codec \in Compressed
  PROVE  EncoderTable(Encoders[codec])
<1> DEFINE b == Encoders[codec].backends
<1>1. CASE codec = "H264"
  BY SMTT(30), <1>1 DEF EncoderTable, Encoders, Descriptor, Entry, None, ThrowsOnFailure
<1>2. CASE codec = "H265"
  BY <1>2, SMTT(30) DEF EncoderTable, Encoders, Descriptor, Entry, None, ThrowsOnFailure
<1>3. CASE codec = "JPEG"
  BY <1>3, SMTT(30) DEF EncoderTable, Encoders, Descriptor, Entry, None, ThrowsOnFailure
<1>4. CASE codec = "PNG"
  BY <1>4, SMTT(30) DEF EncoderTable, Encoders, Descriptor, Entry, None, ThrowsOnFailure
<1> QED  BY <1>1, <1>2, <1>3, <1>4 DEF Compressed, Formats

(* What is selected is in the table and has a factory, if any has one.     *)
LEMMA SelectsAvailable ==
  ASSUME NEW desc, EncoderTable(desc), NEW desired, NEW factories,
         \E i \in DOMAIN desc.backends : desc.backends[i].factory \in factories
  PROVE  \E i \in DOMAIN desc.backends :
           /\ desc.backends[i].factory \in factories
           /\ codecSelect(desc, desired, {}, factories) = desc.backends[i].name
<1> DEFINE found  == {i \in DOMAIN desc.backends :
                        /\ desc.backends[i].factory \in factories
                        /\ desc.backends[i].name \notin {}}
           wanted == {i \in found : desc.backends[i].name \in desired}
           choice == IF wanted # {} THEN wanted ELSE found
<1>1. found # {} /\ found \in SUBSET Nat
  BY DEF EncoderTable
<1>2. codecSelect(desc, desired, {}, factories) = desc.backends[Min(choice)].name
  BY <1>1 DEF codecSelect
<1>3. choice \in SUBSET Nat /\ choice # {} /\ choice \subseteq found
  BY <1>1
<1>4. Min(choice) \in found
  <2> HIDE DEF choice
  <2> QED  BY <1>3, MinIsIn
<1> QED  BY <1>2, <1>4

(* Unless NVV4L2 is installed, a backend that can be created is.           *)
LEMMA CreatesAvailable ==
  ASSUME NEW desc, EncoderTable(desc), NEW tokens, NEW m,
         m.creatable \subseteq m.installed, m.installed \cap ThrowsOnFailure = {},
         \E i \in DOMAIN desc.backends : desc.backends[i].factory \in m.creatable
  PROVE  codecCreate(desc, tokens, m) \notin {None, "NVV4L2"}
<1> DEFINE ends == {f \in m.installed : CanCreate(m, f)}
                     \cup (m.installed \cap ThrowsOnFailure)
           first == codecSelect(desc, codecFromString(desc, tokens), {}, ends)
<1>1. ends = m.creatable
  BY DEF CanCreate
<1>2. PICK i \in DOMAIN desc.backends :
             desc.backends[i].factory \in m.creatable /\ first = desc.backends[i].name
  <2> DEFINE desired == codecFromString(desc, tokens)
  <2> HIDE DEF desired, ends
  <2> QED  BY <1>1, SelectsAvailable
<1>3. CanCreate(m, desc.backends[i].factory)
  BY <1>2 DEF CanCreate
<1>4. codecCreate(desc, tokens, m) = first
  <2> HIDE DEF first
  <2>1. codecCreate(desc, tokens, m) =
          IF \E j \in DOMAIN desc.backends :
               desc.backends[j].name = first /\ CanCreate(m, desc.backends[j].factory)
          THEN first ELSE None
    BY DEF codecCreate, first
  <2> QED  BY <1>2, <1>3, <2>1
<1>5. first # None /\ first # "NVV4L2"
  <2> HIDE DEF first
  <2> QED  BY <1>2 DEF EncoderTable
<1> QED  BY <1>4, <1>5

(* The backend that is created has a name of its own.                      *)
LEMMA EncodersFound ==
  ASSUME GraphInv, BuilderInv
  PROVE  EncodersFallBack
<1> DEFINE B(n) == Encoders[nodes[n].config.codec].backends
<1> SUFFICES ASSUME NEW n \in Nodes, NextToRealize(n), nodes[n].type = "Encoder",
                    \E i \in DOMAIN B(n) : B(n)[i].factory \in machine.creatable,
                    machine.installed \cap ThrowsOnFailure = {}
             PROVE  CanRealize(n)
  BY DEF EncodersFallBack
<1>1. nodes[n].config.codec \in Compressed
  <2>1. n \in 2 .. Inner
    <3>1. n # 1 /\ n \notin Sinks
      BY NodeKinds DEF Sinks
    <3>2. Planned
      BY DEF NextToRealize, Planned
    <3> QED  BY <3>1, <3>2, SinkNodes, NodeKinds
  <2>2. PICK e \in Elements : nodes[n] = Node(e, nodes[n].input)
    BY <2>1, NodeKinds
  <2>3. nodes[n].type = e.type /\ nodes[n].config = e.config
    BY <2>2 DEF Node
  <2> QED  BY <2>3, ElementParts DEF GraphInv, Configured
<1>2. machine.creatable \subseteq machine.installed
  <2>1. NoMachine.creatable \subseteq NoMachine.installed
    BY DEF NoMachine
  <2> QED  BY <2>1, MachineAssumption DEF BuilderInv
<1>3. Created(n, machine) \notin {None, "NVV4L2"}
  <2> DEFINE desc == Encoders[nodes[n].config.codec]
             tokens == nodes[n].config.encoder
  <2>1. EncoderTable(desc)
    BY <1>1, EncoderTables
  <2>2. \E i \in DOMAIN desc.backends : desc.backends[i].factory \in machine.creatable
    OBVIOUS
  <2>3. Created(n, machine) = codecCreate(desc, tokens, machine)
    BY DEF Created
  <2> HIDE DEF desc, tokens
  <2> QED  BY <1>2, <2>1, <2>2, <2>3, CreatesAvailable
<1>4. ElementName(n) = <<nodes[n].type, n>>
  BY <1>3 DEF ElementName
<1>5. ASSUME NEW m \in elements
      PROVE  ElementName(m) # ElementName(n)
  <2>1. m # n
    BY DEF NextToRealize
  <2>2. ElementName(m) = <<"encoder">> \/ ElementName(m) = <<nodes[m].type, m>>
    BY DEF ElementName
  <2>3. \A a, b, c : <<a>> # <<b, c>>
    <3> SUFFICES ASSUME NEW a, NEW b, NEW c, <<a>> = <<b, c>> PROVE FALSE
      OBVIOUS
    <3>1. Len(<<a>>) = 1 /\ Len(<<b, c>>) = 2
      OBVIOUS
    <3> QED  BY <3>1
  <2> QED  BY <1>4, <2>1, <2>2, <2>3
<1> QED  BY <1>3, <1>5 DEF CanRealize

(* createEncoderElement: on every machine without NVV4L2, an encoder node  *)
(* of a codec some backend can be created for gets its element.            *)
THEOREM EncodersDoFallBack == Spec => []EncodersFallBack
<1>1. GraphInv /\ BuilderInv => EncodersFallBack
  BY EncodersFound
<1> QED  BY <1>1, BuildInvariant, PTL
=============================================================================
