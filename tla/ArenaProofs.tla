---------------------------- MODULE ArenaProofs ----------------------------
(* Theorems about Arena, the planner and the skill files it is made of, for *)
(* every value of the constants.                                            *)
EXTENDS Arena, FiniteSetsExt, TLAPS, FiniteSetTheorems, SequenceTheorems,
        WellFoundedInduction

-----------------------------------------------------------------------------
(* Induction over a set of numbers, and what a fold over a sequence         *)
(* computes: there is a function that goes through it from left to right.   *)

LEMMA LeastNumber ==
  ASSUME NEW S \in SUBSET Nat, S # {}
  PROVE  \E m \in S : \A k \in S : m <= k
<1> DEFINE R == OpToRel(<, Nat)
<1>1. IsWellFoundedOn(R, Nat)
  BY NatLessThanWellFounded
<1>2. \A x, y \in Nat : x < y => <<x, y>> \in R
  BY DEF OpToRel
<1> HIDE DEF R
<1>3. PICK m \in S : \A k \in S : ~(<<k, m>> \in R)
  BY <1>1, WFMin
<1> WITNESS m \in S
<1> TAKE k \in S
<1>4. k \in Nat /\ m \in Nat
  OBVIOUS
<1>5. ~(k < m)
  BY <1>2, <1>3, <1>4, Zenon
<1> QED
  BY <1>4, <1>5

LEMMA UpTo ==
  ASSUME NEW n \in Nat, NEW P, 0 \in P, \A k \in 0..(n - 1) : k \in P => k + 1 \in P
  PROVE  0..n \subseteq P
<1> DEFINE S == (0..n) \ P
<1>1. SUFFICES ASSUME S # {} PROVE FALSE
  OBVIOUS
<1>2. S \in SUBSET Nat
  OBVIOUS
<1>3. PICK m \in S : \A k \in S : m <= k
  BY <1>1, <1>2, LeastNumber
<1>4. m \in 1..n
  BY <1>3
<1>5. m - 1 \in P
  BY <1>3, <1>4
<1>6. m - 1 \in 0..(n - 1) /\ (m - 1) + 1 = m
  BY <1>4
<1> QED
  BY <1>3, <1>5, <1>6

LEMMA GreatestNumber ==
  ASSUME NEW n \in Nat, NEW s \in SUBSET (1..n), s # {}
  PROVE  Max(s) \in s /\ \A k \in s : k <= Max(s)
<1> DEFINE S == {n - k : k \in s}
<1>0. \A k \in s : k \in 1..n /\ n - k \in Nat
  OBVIOUS
<1>1. S \in SUBSET Nat /\ S # {}
  BY <1>0
<1>2. PICK m \in S : \A k \in S : m <= k
  BY <1>1, LeastNumber
<1>3. PICK x \in s : m = n - x
  BY <1>2
<1>4. \A k \in s : x >= k
  <2> TAKE k \in s
  <2>1. x \in 1..n /\ k \in 1..n /\ n - x <= n - k
    BY <1>0, <1>2, <1>3
  <2> QED
    BY <2>1
<1>5. \E y \in s : \A k \in s : y >= k
  BY <1>3, <1>4
<1>6. Max(s) \in s /\ \A k \in s : Max(s) >= k
  BY <1>5 DEF Max
<1> QED
  BY <1>0, <1>6

(* What folds are made of: a function on the subsets of 1..n that takes off *)
(* the greatest number at each step.                                        *)
Folds(it, b, g, n) ==
  \A s \in SUBSET (1..n) :
    it[s] = IF s = {} THEN b ELSE g[<<it[s \ {Max(s)}], Max(s)>>]

LEMMA FoldExists ==
  ASSUME NEW n \in Nat, NEW T, NEW b \in T, NEW g \in [T \X (1..n) -> T]
  PROVE  \E it \in [SUBSET (1..n) -> T] : Folds(it, b, g, n)
<1> DEFINE D == SUBSET (1..n)
           After(it, s) == IF s = {} THEN b ELSE g[<<it[s \ {Max(s)}], Max(s)>>]
           P == {k \in 0..n : \E it \in [D -> T] :
                                \A s \in D : Cardinality(s) <= k => it[s] = After(it, s)}
<1>1. ASSUME NEW s \in D
      PROVE  /\ Cardinality(s) \in 0..n
             /\ Cardinality(s) = 0 <=> s = {}
             /\ s # {} => /\ Max(s) \in 1..n /\ s \ {Max(s)} \in D
                         /\ Cardinality(s \ {Max(s)}) = Cardinality(s) - 1
  <2>1. IsFiniteSet(1..n) /\ Cardinality(1..n) = n
    BY FS_Interval
  <2>2. IsFiniteSet(s) /\ Cardinality(s) <= n
    <3>1. s \in SUBSET (1..n)
      OBVIOUS
    <3>2. IsFiniteSet(s) /\ Cardinality(s) <= Cardinality(1..n)
      BY <2>1, <3>1, FS_Subset
    <3> QED
      BY <2>1, <3>2
  <2>3. Cardinality(s) \in Nat /\ (Cardinality(s) = 0 <=> s = {})
    BY <2>2, FS_CardinalityType, FS_EmptySet
  <2>4. s # {} => Max(s) \in s
    BY GreatestNumber
  <2>5. s # {} => Cardinality(s \ {Max(s)}) = Cardinality(s) - 1
    BY <2>2, <2>4, FS_RemoveElement
  <2>6. s # {} => Max(s) \in 1..n /\ s \ {Max(s)} \in D
    BY <2>4
  <2>7. Cardinality(s) \in 0..n
    BY <2>2, <2>3
  <2> QED
    BY <2>3, <2>5, <2>6, <2>7
<1>2. 0 \in P
  <2> DEFINE it == [s \in D |-> b]
  <2>1. it \in [D -> T]
    OBVIOUS
  <2>2. \A s \in D : Cardinality(s) <= 0 => s = {}
    <3> TAKE s \in D
    <3>1. Cardinality(s) \in 0..n /\ (Cardinality(s) = 0 <=> s = {})
      BY <1>1
    <3> QED
      BY <3>1
  <2>3. \A s \in D : Cardinality(s) <= 0 => it[s] = After(it, s)
    BY <2>2
  <2>4. 0 \in 0..n
    OBVIOUS
  <2> HIDE DEF it, Step
  <2> QED
    BY <2>1, <2>3, <2>4
<1>3. ASSUME NEW k \in 0..(n - 1), k \in P PROVE k + 1 \in P
  <2>1. PICK it \in [D -> T] : \A s \in D : Cardinality(s) <= k => it[s] = After(it, s)
    BY <1>3
  <2> DEFINE new == [s \in D |-> After(it, s)]
  <2>2. new \in [D -> T]
    <3> SUFFICES ASSUME NEW s \in D PROVE After(it, s) \in T
      OBVIOUS
    <3>1. CASE s = {}
      BY <3>1
    <3>2. CASE s # {}
      <4>1. Max(s) \in 1..n /\ it[s \ {Max(s)}] \in T
        BY <1>1, <3>2
      <4> QED
        BY <3>2, <4>1
    <3> QED
      BY <3>1, <3>2
  <2>3. \A s \in D : Cardinality(s) <= k + 1 => new[s] = After(new, s)
    <3> SUFFICES ASSUME NEW s \in D, Cardinality(s) <= k + 1, s # {}
                 PROVE  it[s \ {Max(s)}] = new[s \ {Max(s)}]
      OBVIOUS
    <3>1. s \ {Max(s)} \in D /\ Cardinality(s \ {Max(s)}) <= k
      <4>1. Cardinality(s) \in Nat /\ Cardinality(s \ {Max(s)}) = Cardinality(s) - 1
        BY <1>1
      <4> QED
        BY <1>1, <4>1
    <3> QED
      BY <2>1, <3>1
  <2>4. k + 1 \in 0..n
    OBVIOUS
  <2> QED
    BY <2>2, <2>3, <2>4
<1>4. n \in P
  <2> HIDE DEF P
  <2>1. 0..n \subseteq P
    BY <1>2, <1>3, UpTo
  <2> QED
    BY <2>1
<1>5. PICK it \in [D -> T] : \A s \in D : Cardinality(s) <= n => it[s] = After(it, s)
  BY <1>4
<1>6. \A s \in D : Cardinality(s) <= n
  <2> TAKE s \in D
  <2>1. Cardinality(s) \in 0..n
    BY <1>1
  <2> QED
    BY <2>1
<1> QED
  BY <1>5, <1>6 DEF Folds

LEMMA FirstNumbers ==
  ASSUME NEW n \in Nat, NEW k \in 1..n
  PROVE  /\ 1..k \in SUBSET (1..n) /\ 1..k # {}
         /\ Max(1..k) = k /\ (1..k) \ {k} = 1..(k - 1)
<1>1. 1..k \in SUBSET (1..n) /\ k \in 1..k
  OBVIOUS
<1>2. Max(1..k) \in 1..k /\ \A j \in 1..k : j <= Max(1..k)
  BY <1>1, GreatestNumber
<1>3. Max(1..k) = k
  BY <1>1, <1>2
<1>4. (1..k) \ {k} = 1..(k - 1)
  OBVIOUS
<1> QED
  BY <1>1, <1>3, <1>4

-----------------------------------------------------------------------------
(* Graphs of nodes.                                                         *)

NodeOf(I) == [id : I, deps : Seq(I)]

(* A plan that the search begins with: each id once, and each dependency    *)
(* an id.                                                                   *)
Proper(nodes) ==
  /\ nodes \in Seq(NodeOf(Id)) /\ nodes # <<>>
  /\ Unique(nodes) /\ Resolves(nodes)

Deps(nodes, id) == nodes[CHOOSE i \in DOMAIN nodes : nodes[i].id = id].deps

(* Every set of the nodes V has one that depends on none of them.           *)
Bottomed(nodes, V) ==
  \A S \in SUBSET V : S # {} => \E id \in S : DepsOf(nodes, id) \cap S = {}

(* A list has as many members as places just if no two places are the same. *)
LEMMA UniqueIds ==
  ASSUME NEW nodes, NEW I, nodes \in Seq(NodeOf(I))
  PROVE  Unique(nodes) <=> \A i, j \in DOMAIN nodes : nodes[i].id = nodes[j].id => i = j
<1> DEFINE n == Len(nodes)
           f == [i \in 1..n |-> nodes[i].id]
<1>1. n \in Nat /\ DOMAIN nodes = 1..n
  OBVIOUS
<1>2. f \in Surjection(1..n, Ids(nodes))
  BY <1>1 DEF Surjection, Ids
<1>3. IsFiniteSet(1..n) /\ Cardinality(1..n) = n
  BY <1>1, FS_Interval
<1>4. Cardinality(Ids(nodes)) = Cardinality(1..n) <=> f \in Injection(1..n, Ids(nodes))
  BY <1>2, <1>3, FS_Surjection
<1>5. f \in Injection(1..n, Ids(nodes)) <=> \A i, j \in 1..n : f[i] = f[j] => i = j
  BY <1>2 DEF Injection, Surjection, IsInjective
<1> QED
  BY <1>1, <1>3, <1>4, <1>5 DEF Unique

(* An id stands for one node and its dependencies.                          *)
LEMMA OneNode ==
  ASSUME NEW nodes, Proper(nodes), NEW id \in Ids(nodes)
  PROVE  /\ Deps(nodes, id) \in Seq(Ids(nodes))
         /\ DepsOf(nodes, id) = {Deps(nodes, id)[k] : k \in 1..Len(Deps(nodes, id))}
         /\ \A i \in DOMAIN nodes : nodes[i].id = id => nodes[i].deps = Deps(nodes, id)
<1> DEFINE c == CHOOSE i \in DOMAIN nodes : nodes[i].id = id
<1>1. c \in DOMAIN nodes /\ nodes[c].id = id
  BY DEF Ids
<1>2. \A i \in DOMAIN nodes : nodes[i].id = id => i = c
  BY <1>1, UniqueIds DEF Proper
<1>3. Deps(nodes, id) = nodes[c].deps
  BY DEF Deps
<1> HIDE DEF c
<1>4. nodes[c].deps \in Seq(Id) /\ ToSet(nodes[c].deps) \subseteq Ids(nodes)
  <2>1. nodes \in Seq(NodeOf(Id)) /\ Resolves(nodes)
    BY DEF Proper
  <2>2. nodes[c] \in NodeOf(Id)
    BY <1>1, <2>1
  <2> QED
    BY <1>1, <2>1, <2>2 DEF Resolves, NodeOf
<1>5. nodes[c].deps \in Seq(Ids(nodes))
  BY <1>4 DEF ToSet
<1>6. DepsOf(nodes, id) = ToSet(nodes[c].deps)
  BY <1>1, <1>2 DEF DepsOf
<1>7. DepsOf(nodes, id) = {Deps(nodes, id)[k] : k \in 1..Len(Deps(nodes, id))}
  BY <1>3, <1>5, <1>6 DEF ToSet
<1>8. \A i \in DOMAIN nodes : nodes[i].id = id => nodes[i].deps = Deps(nodes, id)
  BY <1>2, <1>3
<1> QED
  BY <1>3, <1>5, <1>7, <1>8

-----------------------------------------------------------------------------
(* The canonical plan.                                                      *)

LEMMA CanonicalIsDag == IsDag(Canonical)
<1> DEFINE N == {"R1", "R2", "R3", "R4", "R5", "R6"}
<1>1. /\ Len(Canonical) = 6 /\ DOMAIN Canonical = 1..6 /\ Canonical # <<>>
      /\ Canonical \in Seq(NodeOf(N))
  BY DEF Canonical, At, NodeOf
<1>2. /\ Canonical[1] = At("R1", <<>>) /\ Canonical[2] = At("R2", <<>>)
      /\ Canonical[3] = At("R3", <<"R2">>) /\ Canonical[4] = At("R4", <<"R3">>)
      /\ Canonical[5] = At("R5", <<"R4">>) /\ Canonical[6] = At("R6", <<"R1", "R5">>)
  BY DEF Canonical
<1> HIDE DEF N
<1>3. \A i \in 1..6 : i = 1 \/ i = 2 \/ i = 3 \/ i = 4 \/ i = 5 \/ i = 6
  OBVIOUS
<1>4. Ids(Canonical) = N
  BY <1>1, <1>2, <1>3 DEF Ids, At, N
<1>5. Unique(Canonical)
  <2> SUFFICES ASSUME NEW i \in 1..6, NEW j \in 1..6, Canonical[i].id = Canonical[j].id
               PROVE  i = j
    BY <1>1, UniqueIds
  <2> QED
    BY <1>2, <1>3 DEF At
<1>6. /\ ToSet(<<>>) = {} /\ (\A z : ToSet(<<z>>) = {z}) /\ \A x, y : ToSet(<<x, y>>) = {x, y}
  BY DEF ToSet
<1>7. Resolves(Canonical)
  BY <1>1, <1>2, <1>3, <1>4, <1>6 DEF Resolves, At, N
<1>8. /\ DepsOf(Canonical, "R1") = {} /\ DepsOf(Canonical, "R2") = {}
      /\ DepsOf(Canonical, "R3") = {"R2"} /\ DepsOf(Canonical, "R4") = {"R3"}
      /\ DepsOf(Canonical, "R5") = {"R4"} /\ DepsOf(Canonical, "R6") = {"R1", "R5"}
  BY <1>1, <1>2, <1>3, <1>6 DEF DepsOf, At
<1>9. Acyclic(Canonical)
  <2> SUFFICES ASSUME NEW S \in SUBSET N, S # {}
               PROVE  \E id \in S : DepsOf(Canonical, id) \cap S = {}
    BY <1>4 DEF Acyclic
  <2>1. CASE "R1" \in S
    BY <1>8, <2>1
  <2>2. CASE "R2" \in S
    BY <1>8, <2>2
  <2>3. CASE "R3" \in S /\ "R2" \notin S
    BY <1>8, <2>3
  <2>4. CASE "R4" \in S /\ "R3" \notin S
    BY <1>8, <2>4
  <2>5. CASE "R5" \in S /\ "R4" \notin S
    BY <1>8, <2>5
  <2>6. CASE "R6" \in S /\ "R1" \notin S /\ "R5" \notin S
    BY <1>8, <2>6
  <2> QED
    BY <2>1, <2>2, <2>3, <2>4, <2>5, <2>6 DEF N
<1> QED
  BY <1>1, <1>5, <1>7, <1>9 DEF IsDag

-----------------------------------------------------------------------------
(* The search.                                                              *)

FrameOf(nodes) == [id : Ids(nodes), next : Nat \ {0}]

(* The stack is a path along dependencies, which does not come back.        *)
OnPath(nodes, stack) ==
  /\ stack \in Seq(FrameOf(nodes))
  /\ \A i, j \in 1..Len(stack) : stack[i].id = stack[j].id => i = j
  /\ \A i \in 1..Len(stack) : stack[i].next <= Len(Deps(nodes, stack[i].id)) + 1
  /\ \A i \in 1..(Len(stack) - 1) :
       /\ stack[i].next >= 2
       /\ Deps(nodes, stack[i].id)[stack[i].next - 1] = stack[i + 1].id

(* What was visited has been left, with all it depends on; and what a node  *)
(* on the stack has gone past was visited, but for the node above it.       *)
Explored(nodes, stack, visited) ==
  /\ visited \subseteq Ids(nodes)
  /\ \A i \in 1..Len(stack) : stack[i].id \notin visited
  /\ \A i \in 1..Len(stack) : \A k \in 1..(stack[i].next - 1) :
       \/ Deps(nodes, stack[i].id)[k] \in visited
       \/ i < Len(stack) /\ k = stack[i].next - 1
  /\ \A id \in visited : DepsOf(nodes, id) \subseteq visited
  /\ Bottomed(nodes, visited)

Below(stack) == Append(Front(stack), [Last(stack) EXCEPT !.next = @ + 1])

LEMMA FrontParts ==
  ASSUME NEW S, NEW s \in Seq(S), s # <<>>
  PROVE  /\ Front(s) \in Seq(S) /\ Len(Front(s)) = Len(s) - 1
         /\ \A i \in 1..(Len(s) - 1) : Front(s)[i] = s[i]
<1>1. Len(s) \in Nat \ {0} /\ \A i \in 1..(Len(s) - 1) : s[i] \in S
  OBVIOUS
<1>2. Front(s) = SubSeq(s, 1, Len(s) - 1)
  BY DEF Front
<1> DEFINE n == Len(s) - 1
<1>3. /\ SubSeq(s, 1, n) \in Seq(S)
      /\ Len(SubSeq(s, 1, n)) = IF 1 <= n THEN n - 1 + 1 ELSE 0
      /\ \A i \in 1..(n - 1 + 1) : SubSeq(s, 1, n)[i] = s[1 + i - 1]
  <2>1. n \in Int /\ 1 \in Int /\ \A i \in 1..n : s[i] \in S
    BY <1>1
  <2> HIDE DEF n
  <2> QED
    BY <2>1, SubSeqProperties
<1>4. Len(SubSeq(s, 1, n)) = n /\ \A i \in 1..n : SubSeq(s, 1, n)[i] = s[i]
  <2>1. n \in Nat
    BY <1>1
  <2> HIDE DEF n
  <2>2. n - 1 + 1 = n /\ \A i \in 1..n : 1 + i - 1 = i
    BY <2>1
  <2> QED
    BY <1>3, <2>1, <2>2
<1> QED
  BY <1>2, <1>3, <1>4

(* The top of a stack, and the stack when the top has gone on.              *)
LEMMA StackParts ==
  ASSUME NEW nodes, NEW stack \in Seq(FrameOf(nodes)), stack # <<>>
  PROVE  /\ Len(stack) \in Nat \ {0} /\ Last(stack) = stack[Len(stack)]
         /\ Front(stack) \in Seq(FrameOf(nodes)) /\ Len(Front(stack)) = Len(stack) - 1
         /\ \A i \in 1..(Len(stack) - 1) : Front(stack)[i] = stack[i]
         /\ Below(stack) \in Seq(FrameOf(nodes)) /\ Len(Below(stack)) = Len(stack)
         /\ \A i \in 1..(Len(stack) - 1) : Below(stack)[i] = stack[i]
         /\ \A i \in 1..Len(stack) : Below(stack)[i].id = stack[i].id
         /\ Below(stack)[Len(stack)].next = Last(stack).next + 1
         /\ \A i \in 1..Len(stack) : stack[i].id \in Ids(nodes) /\ stack[i].next \in Nat \ {0}
<1> DEFINE n == Len(stack)
           top == [Last(stack) EXCEPT !.next = @ + 1]
<1>1. n \in Nat \ {0} /\ Last(stack) = stack[n] /\ stack[n] \in FrameOf(nodes)
  BY DEF Last
<1>2. /\ Front(stack) \in Seq(FrameOf(nodes)) /\ Len(Front(stack)) = n - 1
      /\ \A i \in 1..(n - 1) : Front(stack)[i] = stack[i]
  BY <1>1, FrontParts, Zenon
<1>3. top \in FrameOf(nodes) /\ top.id = stack[n].id /\ top.next = stack[n].next + 1
  BY <1>1 DEF FrameOf
<1> HIDE DEF top
<1>4. /\ Below(stack) \in Seq(FrameOf(nodes)) /\ Len(Below(stack)) = n
      /\ \A i \in 1..(n - 1) : Below(stack)[i] = Front(stack)[i]
      /\ Below(stack)[n] = top
  <2> HIDE DEF FrameOf
  <2>1. Below(stack) = Append(Front(stack), top)
    BY DEF Below, top
  <2> QED
    BY <1>1, <1>2, <1>3, <2>1
<1>5. \A i \in 1..n : stack[i].id \in Ids(nodes) /\ stack[i].next \in Nat \ {0}
  <2>1. \A i \in 1..n : stack[i] \in FrameOf(nodes)
    OBVIOUS
  <2> QED
    BY <2>1 DEF FrameOf
<1>6. \A i \in 1..n : Below(stack)[i].id = stack[i].id
  <2> TAKE i \in 1..n
  <2>1. i \in 1..(n - 1) \/ i = n
    BY <1>1
  <2> QED
    BY <1>2, <1>3, <1>4, <2>1
<1> QED
  BY <1>1, <1>2, <1>3, <1>4, <1>5, <1>6

(* The call of a dependency that was visited returns at once.               *)
LEMMA CallReturns ==
  ASSUME NEW nodes, Proper(nodes), NEW stack, stack # <<>>, OnPath(nodes, stack),
         NEW visited, Explored(nodes, stack, visited),
         Last(stack).next <= Len(Deps(nodes, Last(stack).id)),
         Deps(nodes, Last(stack).id)[Last(stack).next] \in visited
  PROVE  OnPath(nodes, Below(stack)) /\ Explored(nodes, Below(stack), visited)
<1> DEFINE n == Len(stack)
           b == Below(stack)
<1>1. /\ stack \in Seq(FrameOf(nodes)) /\ n \in Nat \ {0} /\ Last(stack) = stack[n]
      /\ b \in Seq(FrameOf(nodes)) /\ Len(b) = n
      /\ \A i \in 1..(n - 1) : b[i] = stack[i]
      /\ \A i \in 1..n : b[i].id = stack[i].id
      /\ b[n].next = stack[n].next + 1
      /\ \A i \in 1..n : stack[i].id \in Ids(nodes) /\ stack[i].next \in Nat \ {0}
  <2>1. stack \in Seq(FrameOf(nodes))
    BY DEF OnPath
  <2> QED
    BY <2>1, StackParts, Zenon
<1> HIDE DEF b, n
<1>2. OnPath(nodes, b)
  <2>1. \A i, j \in 1..n : b[i].id = b[j].id => i = j
    BY <1>1 DEF OnPath, n
  <2>2. \A i \in 1..n : b[i].next <= Len(Deps(nodes, b[i].id)) + 1
    <3> TAKE i \in 1..n
    <3>1. CASE i = n
      <4>1. Len(Deps(nodes, stack[n].id)) \in Nat
        BY <1>1, OneNode
      <4> QED
        BY <1>1, <3>1, <4>1
    <3>2. CASE i \in 1..(n - 1)
      BY <1>1, <3>2 DEF OnPath, n
    <3> QED
      BY <1>1, <3>1, <3>2
  <2>3. \A i \in 1..(n - 1) :
          b[i].next >= 2 /\ Deps(nodes, b[i].id)[b[i].next - 1] = b[i + 1].id
    <3> TAKE i \in 1..(n - 1)
    <3>1. /\ stack[i].next >= 2
          /\ Deps(nodes, stack[i].id)[stack[i].next - 1] = stack[i + 1].id
      BY DEF OnPath, n
    <3>2. b[i] = stack[i] /\ b[i + 1].id = stack[i + 1].id
      BY <1>1
    <3> QED
      BY <3>1, <3>2, Zenon
  <2> QED
    BY <1>1, <2>1, <2>2, <2>3 DEF OnPath
<1>3. Explored(nodes, b, visited)
  <2>1. \A i \in 1..n : b[i].id \notin visited
    BY <1>1 DEF Explored, n
  <2>2. \A i \in 1..n : \A k \in 1..(b[i].next - 1) :
          Deps(nodes, b[i].id)[k] \in visited \/ (i < n /\ k = b[i].next - 1)
    <3> TAKE i \in 1..n
    <3> TAKE k \in 1..(b[i].next - 1)
    <3>1. CASE i = n
      <4>1. k \in 1..(stack[n].next - 1) \/ k = stack[n].next
        BY <1>1, <3>1
      <4>2. b[i].id = stack[n].id
        BY <1>1, <3>1
      <4>3. CASE k = stack[n].next
        BY <1>1, <4>2, <4>3
      <4>4. CASE k \in 1..(stack[n].next - 1)
        <5>1. Deps(nodes, stack[n].id)[k] \in visited \/ (n < n /\ k = stack[n].next - 1)
          BY <1>1, <4>4 DEF Explored, n
        <5> QED
          BY <1>1, <4>2, <5>1
      <4> QED
        BY <4>1, <4>3, <4>4
    <3>2. CASE i \in 1..(n - 1)
      BY <1>1, <3>2 DEF Explored, n
    <3> QED
      BY <1>1, <3>1, <3>2
  <2> QED
    BY <1>1, <2>1, <2>2 DEF Explored
<1> QED
  BY <1>2, <1>3 DEF b

(* The call of a new node goes on the stack.                                *)
LEMMA CallNests ==
  ASSUME NEW nodes, Proper(nodes), NEW stack, stack # <<>>, OnPath(nodes, stack),
         NEW visited, Explored(nodes, stack, visited),
         Last(stack).next <= Len(Deps(nodes, Last(stack).id)),
         NEW id, id = Deps(nodes, Last(stack).id)[Last(stack).next],
         id \notin visited, \A i \in 1..Len(stack) : stack[i].id # id
  PROVE  LET nested == Append(Below(stack), Frame(id))
         IN  OnPath(nodes, nested) /\ Explored(nodes, nested, visited)
<1> DEFINE n == Len(stack)
           b == Below(stack)
           a == Append(b, Frame(id))
<1>1. /\ stack \in Seq(FrameOf(nodes)) /\ n \in Nat \ {0} /\ Last(stack) = stack[n]
      /\ b \in Seq(FrameOf(nodes)) /\ Len(b) = n
      /\ \A i \in 1..(n - 1) : b[i] = stack[i]
      /\ \A i \in 1..n : b[i].id = stack[i].id
      /\ b[n].next = stack[n].next + 1
      /\ \A i \in 1..n : stack[i].id \in Ids(nodes) /\ stack[i].next \in Nat \ {0}
  <2>1. stack \in Seq(FrameOf(nodes))
    BY DEF OnPath
  <2> QED
    BY <2>1, StackParts, Zenon
<1>2. /\ Deps(nodes, stack[n].id) \in Seq(Ids(nodes)) /\ stack[n].next \in Nat \ {0}
      /\ id = Deps(nodes, stack[n].id)[stack[n].next] /\ id \in Ids(nodes)
  <2>1. Deps(nodes, stack[n].id) \in Seq(Ids(nodes)) /\ stack[n].next \in Nat \ {0}
    BY <1>1, OneNode
  <2> QED
    BY <1>1, <2>1
<1>3. Frame(id) \in FrameOf(nodes) /\ Frame(id).id = id /\ Frame(id).next = 1
  BY <1>2 DEF Frame, FrameOf
<1>4. Deps(nodes, id) \in Seq(Ids(nodes)) /\ Len(Deps(nodes, id)) \in Nat
  <2>1. Deps(nodes, id) \in Seq(Ids(nodes))
    BY <1>2, OneNode
  <2> QED
    BY <2>1
<1> HIDE DEF b
<1>5. /\ a \in Seq(FrameOf(nodes)) /\ Len(a) = n + 1
      /\ \A i \in 1..n : a[i] = b[i]
      /\ a[n + 1] = Frame(id)
  <2> HIDE DEF Frame, FrameOf, n
  <2> QED
    BY <1>1, <1>3
<1> HIDE DEF a, n
<1>6. \A i \in 1..(n + 1) : i \in 1..(n - 1) \/ i = n \/ i = n + 1
  BY <1>1
<1>7. /\ \A i \in 1..(n - 1) : a[i] = stack[i] /\ i \in 1..n
      /\ a[n].id = stack[n].id /\ a[n].next = stack[n].next + 1 /\ n \in 1..n
      /\ a[n + 1].id = id /\ a[n + 1].next = 1
  BY <1>1, <1>3, <1>5
<1>8. OnPath(nodes, a)
  <2>1. \A i, j \in 1..(n + 1) : a[i].id = a[j].id => i = j
    <3>1. \A i, j \in 1..n : stack[i].id = stack[j].id => i = j
      BY DEF OnPath, n
    <3>2. \A i \in 1..n : a[i].id = stack[i].id /\ a[i].id # id
      BY <1>1, <1>5 DEF n
    <3>3. \A i \in 1..(n + 1) : i \in 1..n \/ i = n + 1
      BY <1>1
    <3> QED
      BY <1>7, <3>1, <3>2, <3>3
  <2>2. \A i \in 1..(n + 1) : a[i].next <= Len(Deps(nodes, a[i].id)) + 1
    <3> TAKE i \in 1..(n + 1)
    <3>1. CASE i = n
      BY <1>1, <1>2, <1>7, <3>1
    <3>2. CASE i \in 1..(n - 1)
      BY <1>7, <3>2 DEF OnPath, n
    <3>3. CASE i = n + 1
      BY <1>4, <1>7, <3>3
    <3> QED
      BY <1>6, <3>1, <3>2, <3>3
  <2>3. \A i \in 1..n : a[i].next >= 2 /\ Deps(nodes, a[i].id)[a[i].next - 1] = a[i + 1].id
    <3> TAKE i \in 1..n
    <3>1. CASE i = n
      <4>1. a[n].next - 1 = stack[n].next /\ a[n].next >= 2
        <5>1. a[n].next = stack[n].next + 1 /\ stack[n].next \in Nat \ {0}
          BY <1>2, <1>7
        <5> QED
          BY <5>1
      <4>2. Deps(nodes, a[n].id)[a[n].next - 1] = id
        BY <1>2, <1>7, <4>1
      <4>3. a[i + 1].id = id
        BY <1>7, <3>1
      <4> QED
        BY <3>1, <4>1, <4>2, <4>3, Zenon
    <3>2. CASE i \in 1..(n - 1)
      <4>1. /\ stack[i].next >= 2
            /\ Deps(nodes, stack[i].id)[stack[i].next - 1] = stack[i + 1].id
        BY <3>2 DEF OnPath, n
      <4>2. a[i + 1].id = stack[i + 1].id
        BY <1>1, <1>7, <3>2
      <4>3. a[i] = stack[i]
        BY <1>7, <3>2
      <4> QED
        BY <4>1, <4>2, <4>3
    <3>3. i = n \/ i \in 1..(n - 1)
      BY <1>1
    <3> QED
      BY <3>1, <3>2, <3>3
  <2>4. (n + 1) - 1 = n
    BY <1>1
  <2> QED
    BY <1>5, <2>1, <2>2, <2>3, <2>4 DEF OnPath
<1>9. Explored(nodes, a, visited)
  <2>1. \A i \in 1..(n + 1) : a[i].id \notin visited
    <3>1. \A i \in 1..n : stack[i].id \notin visited
      BY DEF Explored, n
    <3> QED
      BY <1>6, <1>7, <3>1
  <2>2. \A i \in 1..(n + 1) : \A k \in 1..(a[i].next - 1) :
          Deps(nodes, a[i].id)[k] \in visited \/ (i < n + 1 /\ k = a[i].next - 1)
    <3> TAKE i \in 1..(n + 1)
    <3> TAKE k \in 1..(a[i].next - 1)
    <3>1. CASE i = n
      <4>0. a[i].next = stack[n].next + 1 /\ stack[n].next \in Nat \ {0}
        BY <1>2, <1>7, <3>1
      <4>1. k \in 1..(stack[n].next - 1) \/ k = stack[n].next
        BY <4>0
      <4>2. CASE k = stack[n].next
        <5>1. i < n + 1 /\ k = a[i].next - 1
          BY <1>1, <3>1, <4>0, <4>2
        <5> QED
          BY <5>1
      <4>3. CASE k \in 1..(stack[n].next - 1)
        <5>1. Deps(nodes, stack[n].id)[k] \in visited \/ (n < n /\ k = stack[n].next - 1)
          BY <1>1, <4>3 DEF Explored, n
        <5> QED
          BY <1>1, <1>7, <3>1, <5>1
      <4> QED
        BY <4>1, <4>2, <4>3
    <3>2. CASE i \in 1..(n - 1)
      <4>1. Deps(nodes, stack[i].id)[k] \in visited \/ (i < n /\ k = stack[i].next - 1)
        BY <1>7, <3>2 DEF Explored, n
      <4> QED
        BY <1>1, <1>7, <3>2, <4>1
    <3>3. CASE i = n + 1
      BY <1>7, <3>3
    <3> QED
      BY <1>6, <3>1, <3>2, <3>3
  <2> QED
    BY <1>5, <2>1, <2>2 DEF Explored
<1> QED
  BY <1>8, <1>9 DEF a, b

(* A call of a node that is being visited closes a cycle.                   *)
LEMMA CallCloses ==
  ASSUME NEW nodes, Proper(nodes), NEW stack, stack # <<>>, OnPath(nodes, stack),
         Last(stack).next <= Len(Deps(nodes, Last(stack).id)),
         NEW j \in 1..Len(stack),
         stack[j].id = Deps(nodes, Last(stack).id)[Last(stack).next]
  PROVE  ~Acyclic(nodes)
<1> DEFINE n == Len(stack)
           S == {stack[i].id : i \in j..n}
<1>1. /\ stack \in Seq(FrameOf(nodes)) /\ n \in Nat \ {0} /\ Last(stack) = stack[n]
      /\ \A i \in 1..n : stack[i].id \in Ids(nodes) /\ stack[i].next \in Nat \ {0}
  <2>1. stack \in Seq(FrameOf(nodes))
    BY DEF OnPath
  <2> QED
    BY <2>1, StackParts, Zenon
<1>2. S \in SUBSET Ids(nodes) /\ S # {}
  BY <1>1
<1>3. \A id \in S : DepsOf(nodes, id) \cap S # {}
  <2> SUFFICES ASSUME NEW i \in j..n PROVE DepsOf(nodes, stack[i].id) \cap S # {}
    OBVIOUS
  <2>1. i \in 1..n /\ stack[i].id \in Ids(nodes) /\ j \in j..n
    BY <1>1
  <2>2. /\ Deps(nodes, stack[i].id) \in Seq(Ids(nodes))
        /\ DepsOf(nodes, stack[i].id)
             = {Deps(nodes, stack[i].id)[k] : k \in 1..Len(Deps(nodes, stack[i].id))}
    BY <2>1, OneNode
  <2>3. CASE i = n
    <3> DEFINE deps == Deps(nodes, stack[i].id)
               k == stack[i].next
    <3>1. k \in 1..Len(deps) /\ stack[j].id = deps[k]
      <4>1. k \in Nat \ {0} /\ Len(deps) \in Nat /\ k <= Len(deps) /\ stack[j].id = deps[k]
        BY <1>1, <2>1, <2>2, <2>3
      <4> QED
        BY <4>1
    <3>2. stack[j].id \in DepsOf(nodes, stack[i].id)
      BY <2>2, <3>1
    <3> QED
      BY <2>1, <3>2
  <2>4. CASE i # n
    <3>1. i \in 1..(n - 1) /\ i + 1 \in j..n
      BY <1>1, <2>1, <2>4
    <3>2. /\ stack[i].next >= 2 /\ stack[i].next <= Len(Deps(nodes, stack[i].id)) + 1
          /\ Deps(nodes, stack[i].id)[stack[i].next - 1] = stack[i + 1].id
      BY <2>1, <3>1 DEF OnPath
    <3>3. stack[i].next - 1 \in 1..Len(Deps(nodes, stack[i].id))
      BY <1>1, <2>1, <2>2, <3>2
    <3> QED
      BY <2>2, <3>1, <3>2, <3>3
  <2> QED
    BY <2>3, <2>4
<1> QED
  BY <1>2, <1>3 DEF Acyclic

(* A call that has gone through the dependencies of its node returns.       *)
LEMMA CallEnds ==
  ASSUME NEW nodes, Proper(nodes), NEW stack, stack # <<>>, OnPath(nodes, stack),
         NEW visited, Explored(nodes, stack, visited),
         ~(Last(stack).next <= Len(Deps(nodes, Last(stack).id)))
  PROVE  /\ OnPath(nodes, Front(stack))
         /\ Explored(nodes, Front(stack), visited \cup {Last(stack).id})
<1> DEFINE n == Len(stack)
           b == Front(stack)
           t == Last(stack).id
           v == visited \cup {t}
<1>1. /\ stack \in Seq(FrameOf(nodes)) /\ n \in Nat \ {0} /\ Last(stack) = stack[n]
      /\ b \in Seq(FrameOf(nodes)) /\ Len(b) = n - 1
      /\ \A i \in 1..(n - 1) : b[i] = stack[i]
      /\ \A i \in 1..n : stack[i].id \in Ids(nodes) /\ stack[i].next \in Nat \ {0}
  <2>1. stack \in Seq(FrameOf(nodes))
    BY DEF OnPath
  <2> QED
    BY <2>1, StackParts, Zenon
<1>2. t \in Ids(nodes) /\ t = stack[n].id /\ t \notin visited
  BY <1>1 DEF Explored
<1>3. DepsOf(nodes, t) \subseteq visited
  <2>1. /\ Deps(nodes, t) \in Seq(Ids(nodes))
        /\ DepsOf(nodes, t) = {Deps(nodes, t)[k] : k \in 1..Len(Deps(nodes, t))}
    BY <1>2, OneNode
  <2>2. stack[n].next = Len(Deps(nodes, t)) + 1
    <3>1. stack[n].next <= Len(Deps(nodes, t)) + 1 /\ ~(stack[n].next <= Len(Deps(nodes, t)))
      BY <1>1, <1>2 DEF OnPath
    <3>2. stack[n].next \in Nat /\ Len(Deps(nodes, t)) \in Nat
      BY <1>1, <2>1
    <3> QED
      BY <3>1, <3>2
  <2>3. \A k \in 1..(stack[n].next - 1) : Deps(nodes, t)[k] \in visited
    BY <1>1, <1>2 DEF Explored
  <2>4. stack[n].next - 1 = Len(Deps(nodes, t))
    BY <2>1, <2>2
  <2> QED
    BY <2>1, <2>3, <2>4
<1> HIDE DEF b, n, t
<1>4. OnPath(nodes, b)
  <2>1. \A i \in 1..(n - 1) : i \in 1..n /\ b[i] = stack[i]
    BY <1>1
  <2>2. \A i, j \in 1..(n - 1) : b[i].id = b[j].id => i = j
    BY <2>1 DEF OnPath, n
  <2>3. \A i \in 1..(n - 1) : b[i].next <= Len(Deps(nodes, b[i].id)) + 1
    BY <2>1 DEF OnPath, n
  <2>4. \A i \in 1..(n - 1 - 1) :
          b[i].next >= 2 /\ Deps(nodes, b[i].id)[b[i].next - 1] = b[i + 1].id
    <3> TAKE i \in 1..(n - 1 - 1)
    <3>1. i \in 1..(n - 1) /\ i + 1 \in 1..(n - 1)
      BY <1>1
    <3> QED
      BY <2>1, <3>1 DEF OnPath, n
  <2> QED
    BY <1>1, <2>2, <2>3, <2>4 DEF OnPath
<1>5. Explored(nodes, b, v)
  <2>1. v \subseteq Ids(nodes)
    BY <1>2 DEF Explored
  <2>2. \A i \in 1..(n - 1) : b[i].id \notin v
    <3> TAKE i \in 1..(n - 1)
    <3>1. i \in 1..n /\ n \in 1..n /\ i # n /\ b[i] = stack[i]
      BY <1>1
    <3>2. stack[i].id # t
      BY <1>2, <3>1 DEF OnPath, n
    <3> QED
      BY <3>1, <3>2 DEF Explored, n
  <2>3. \A i \in 1..(n - 1) : \A k \in 1..(b[i].next - 1) :
          Deps(nodes, b[i].id)[k] \in v \/ (i < n - 1 /\ k = b[i].next - 1)
    <3> TAKE i \in 1..(n - 1)
    <3> TAKE k \in 1..(b[i].next - 1)
    <3>1. i \in 1..n /\ b[i] = stack[i]
      BY <1>1
    <3>2. Deps(nodes, stack[i].id)[k] \in visited \/ (i < n /\ k = stack[i].next - 1)
      BY <3>1 DEF Explored, n
    <3>3. CASE i = n - 1 /\ k = stack[i].next - 1
      <4>1. Deps(nodes, stack[i].id)[stack[i].next - 1] = stack[i + 1].id
        BY <3>1 DEF OnPath, n
      <4>2. stack[i + 1].id = t
        BY <1>1, <1>2, <3>3
      <4> QED
        BY <3>1, <3>3, <4>1, <4>2
    <3>4. CASE ~(i = n - 1 /\ k = stack[i].next - 1)
      BY <1>1, <3>1, <3>2, <3>4
    <3> QED
      BY <3>3, <3>4
  <2>4. \A id \in v : DepsOf(nodes, id) \subseteq v
    BY <1>3 DEF Explored
  <2>5. Bottomed(nodes, v)
    <3> SUFFICES ASSUME NEW S \in SUBSET v, S # {}
                 PROVE  \E id \in S : DepsOf(nodes, id) \cap S = {}
      BY DEF Bottomed
    <3>1. CASE S \cap visited = {}
      BY <1>3, <3>1
    <3>2. CASE S \cap visited # {}
      <4>1. PICK id \in S \cap visited : DepsOf(nodes, id) \cap (S \cap visited) = {}
        BY <3>2 DEF Explored, Bottomed
      <4>2. DepsOf(nodes, id) \subseteq visited
        BY <4>1 DEF Explored
      <4> QED
        BY <4>1, <4>2
    <3> QED
      BY <3>1, <3>2
  <2> QED
    BY <1>1, <2>1, <2>2, <2>3, <2>4, <2>5 DEF Explored
<1> QED
  BY <1>4, <1>5 DEF b, t

(* The search begins at a node.                                             *)
LEMMA CallStarts ==
  ASSUME NEW nodes, Proper(nodes), NEW id \in Ids(nodes),
         NEW visited, Explored(nodes, <<>>, visited), id \notin visited
  PROVE  LET stack == <<Frame(id)>>
         IN  OnPath(nodes, stack) /\ Explored(nodes, stack, visited)
<1> DEFINE a == <<Frame(id)>>
<1>1. Frame(id) \in FrameOf(nodes) /\ Frame(id).id = id /\ Frame(id).next = 1
  BY DEF Frame, FrameOf
<1>2. a \in Seq(FrameOf(nodes)) /\ Len(a) = 1 /\ a[1] = Frame(id)
  <2> HIDE DEF Frame, FrameOf
  <2> QED
    BY <1>1
<1> HIDE DEF a
<1>3. Len(Deps(nodes, id)) \in Nat
  <2>1. Deps(nodes, id) \in Seq(Ids(nodes))
    BY OneNode
  <2> QED
    BY <2>1
<1>4. \A i \in 1..1 : i = 1
  OBVIOUS
<1>5. OnPath(nodes, a)
  BY <1>1, <1>2, <1>3, <1>4 DEF OnPath
<1>6. Explored(nodes, a, visited)
  BY <1>1, <1>2, <1>4 DEF Explored
<1> QED
  BY <1>5, <1>6 DEF a

-----------------------------------------------------------------------------
(* The planner.                                                             *)

PlanFields == {"phase", "reply", "nodes", "root", "stack", "visited"}

(* What the search keeps: it goes through the nodes that were proposed, and *)
(* has visited the roots it has left.                                       *)
SearchOK ==
  /\ WellFormed(plan.reply.nodes) /\ plan.nodes = Dag(plan.reply.nodes)
  /\ Proper(plan.nodes)
  /\ OnPath(plan.nodes, plan.stack) /\ Explored(plan.nodes, plan.stack, plan.visited)
  /\ Len(plan.stack) <= StackLimit
  /\ plan.root \in 1..(Len(plan.nodes) + 1)
  /\ \A k \in 1..(plan.root - 1) :
       \/ plan.nodes[k].id \in plan.visited
       \/ k = plan.root - 1 /\ plan.stack # <<>> /\ plan.stack[1].id = plan.nodes[k].id

PlanInv ==
  /\ plan.phase # "idle" => DOMAIN plan = PlanFields /\ IsReply(plan.reply)
  /\ Searching => SearchOK
  /\ PlanIsDag

(* As many calls nest as there are nodes at most.                           *)
LEMMA NestedCalls ==
  ASSUME NEW nodes, Proper(nodes), NEW stack, OnPath(nodes, stack)
  PROVE  Len(stack) <= Cardinality(Ids(nodes))
<1> DEFINE n == Len(stack)
           f == [i \in 1..n |-> stack[i].id]
<1>1. n \in Nat /\ \A i \in 1..n : stack[i].id \in Ids(nodes)
  <2>1. stack \in Seq(FrameOf(nodes))
    BY DEF OnPath
  <2>2. \A i \in 1..n : stack[i] \in FrameOf(nodes)
    BY <2>1
  <2> QED
    BY <2>1, <2>2 DEF FrameOf
<1>2. f \in Injection(1..n, Ids(nodes))
  BY <1>1 DEF OnPath, Injection, IsInjective
<1>3. IsFiniteSet(Ids(nodes))
  <2> DEFINE m == Len(nodes)
             g == [i \in 1..m |-> nodes[i].id]
  <2>1. m \in Nat /\ DOMAIN nodes = 1..m
    BY DEF Proper
  <2>2. g \in Surjection(1..m, Ids(nodes))
    BY <2>1 DEF Surjection, Ids
  <2> QED
    BY <2>1, <2>2, FS_Surjection, FS_Interval
<1> HIDE DEF n, f
<1>4. Cardinality(1..n) = n
  BY <1>1, FS_Interval
<1> USE DEF n
<1> QED
  BY <1>2, <1>3, <1>4, FS_Injection

(* A plan that is not searched is no DAG of well-formed nodes.              *)
LEMMA ReplyNodes ==
  ASSUME NEW reply, IsReply(reply)
  PROVE  /\ WellFormed(reply.nodes) => reply.form = "object"
         /\ reply.form = "object" => Dag(reply.nodes) \in Seq(NodeOf(Id))
         /\ Len(Dag(reply.nodes)) = Len(reply.nodes)
<1>1. CASE reply = NoReply \/ reply = BareValue
  BY <1>1 DEF NoReply, BareValue, WellFormed, Dag
<1>2. CASE reply = Object(reply.nodes) /\ reply.nodes \in Seq([ok : BOOLEAN, id : Id, deps : Seq(Id)])
  <2> DEFINE s == reply.nodes
  <2>1. reply.form = "object"
    BY <1>2 DEF Object
  <2> HIDE DEF s
  <2>2. Len(s) \in Nat /\ DOMAIN s = 1..Len(s)
    BY <1>2 DEF s
  <2>3. \A i \in 1..Len(s) : At(s[i].id, s[i].deps) \in NodeOf(Id)
    <3> DEFINE R == [ok : BOOLEAN, id : Id, deps : Seq(Id)]
    <3>0. s \in Seq(R)
      BY <1>2 DEF s
    <3> HIDE DEF R
    <3>1. \A i \in 1..Len(s) : s[i] \in R
      BY <3>0
    <3> USE DEF R
    <3> QED
      BY <3>1 DEF At, NodeOf
  <2>4. Dag(s) = [i \in 1..Len(s) |-> At(s[i].id, s[i].deps)]
    BY <2>2 DEF Dag
  <2>5. Dag(s) \in Seq(NodeOf(Id)) /\ Len(Dag(s)) = Len(s)
    <3> HIDE DEF NodeOf, At
    <3> QED
      BY <2>2, <2>3, <2>4
  <2> QED
    BY <2>1, <2>5 DEF s
<1> QED
  BY <1>1, <1>2 DEF IsReply

LEMMA PlanStarts == PlannerInit => PlanInv
BY DEF PlannerInit, NoPlan, PlanInv, Searching, PlanIsDag

(* A question that is asked.                                                *)
LEMMA AskKeeps ==
  ASSUME NEW reply, IsReply(reply), AskPlan(reply)
  PROVE  PlanInv'
<1> DEFINE a == Asking(reply)
<1>1. /\ DOMAIN a = PlanFields /\ a.phase = "searching" /\ a.reply = reply
      /\ a.nodes = Dag(reply.nodes) /\ a.root = 1 /\ a.stack = <<>> /\ a.visited = {}
  BY DEF Asking, PlanFields
<1> HIDE DEF a
<1>2. CASE reply.form = "value"
  <2>1. plan' = [a EXCEPT !.phase = "raised"]
    BY <1>2 DEF AskPlan, a
  <2>2. plan'.phase = "raised" /\ plan'.reply = reply /\ DOMAIN plan' = PlanFields
    BY <1>1, <2>1 DEF PlanFields
  <2> QED
    BY <1>2, <2>2 DEF PlanInv, Searching, PlanIsDag
<1> DEFINE proper == /\ reply.form = "object" /\ WellFormed(reply.nodes)
                     /\ Unique(a.nodes) /\ Resolves(a.nodes)
<1>3. CASE reply.form # "value" /\ proper
  <2>1. plan' = a
    BY <1>3 DEF AskPlan, a
  <2>2. Proper(a.nodes) /\ Len(a.nodes) \in Nat
    <3>1. a.nodes \in Seq(NodeOf(Id)) /\ Len(a.nodes) = Len(reply.nodes)
      BY <1>1, <1>3, ReplyNodes
    <3>2. Len(reply.nodes) # 0
      <4>1. reply.nodes # <<>> /\ reply.nodes \in Seq([ok : BOOLEAN, id : Id, deps : Seq(Id)])
        BY <1>3 DEF WellFormed, IsReply, NoReply, BareValue
      <4> QED
        BY <4>1
    <3> QED
      BY <1>3, <3>1, <3>2 DEF Proper
  <2>3. OnPath(a.nodes, <<>>) /\ Explored(a.nodes, <<>>, {})
    BY DEF OnPath, Explored, Bottomed
  <2>4. SearchOK'
    <3>1. /\ WellFormed(a.reply.nodes) /\ a.nodes = Dag(a.reply.nodes)
          /\ OnPath(a.nodes, a.stack) /\ Explored(a.nodes, a.stack, a.visited)
      BY <1>1, <1>3, <2>3
    <3>2. Len(a.stack) <= StackLimit /\ a.root \in 1..(Len(a.nodes) + 1) /\ 1..(a.root - 1) = {}
      BY <1>1, <2>2, PlannerAssumption
    <3> QED
      BY <2>1, <2>2, <3>1, <3>2 DEF SearchOK
  <2> QED
    BY <1>1, <2>1, <2>4 DEF PlanInv, PlanIsDag
<1>4. CASE reply.form # "value" /\ ~proper
  <2>1. plan' = [a EXCEPT !.phase = "planned", !.nodes = Canonical]
    BY <1>4 DEF AskPlan, a
  <2>2. /\ plan'.phase = "planned" /\ plan'.reply = reply /\ DOMAIN plan' = PlanFields
        /\ plan'.nodes = Canonical
    BY <1>1, <2>1 DEF PlanFields
  <2>3. ~(WellFormed(reply.nodes) /\ IsDag(Dag(reply.nodes)))
    BY <1>1, <1>4, ReplyNodes DEF IsDag
  <2> QED
    BY <2>2, <2>3, CanonicalIsDag DEF PlanInv, Searching, PlanIsDag
<1> QED
  BY <1>2, <1>3, <1>4

(* How a call ends: the interpreter refuses it, it has been visited, it     *)
(* closes a cycle, or it nests.                                             *)
LEMMA CallOutcomes ==
  ASSUME Searching, SearchOK, DOMAIN plan = PlanFields, NEW id, NEW below
  PROVE  \/ Len(plan.stack) = StackLimit /\ CallDfs(id, below) = Raised
         \/ /\ Len(plan.stack) < StackLimit /\ id \in plan.visited
            /\ CallDfs(id, below) = [plan EXCEPT !.stack = below]
         \/ /\ id \notin plan.visited /\ plan.stack # <<>>
            /\ \E j \in 1..Len(plan.stack) : plan.stack[j].id = id
            /\ CallDfs(id, below) = Settled(Canonical)
         \/ /\ Len(plan.stack) < StackLimit /\ id \notin plan.visited
            /\ \A j \in 1..Len(plan.stack) : plan.stack[j].id # id
            /\ CallDfs(id, below) = [plan EXCEPT !.stack = Append(below, Frame(id))]
<1>1. plan.stack \in Seq(FrameOf(plan.nodes)) /\ Len(plan.stack) <= StackLimit
  BY DEF SearchOK, OnPath
<1>2. /\ DOMAIN plan.stack = 1..Len(plan.stack) /\ Len(plan.stack) \in Nat
      /\ plan.stack = <<>> => Len(plan.stack) = 0
  BY <1>1
<1>3. id \in Visiting <=> \E j \in 1..Len(plan.stack) : plan.stack[j].id = id
  BY <1>2 DEF Visiting
<1>4. Len(plan.stack) = StackLimit \/ Len(plan.stack) < StackLimit
  BY <1>1, <1>2, PlannerAssumption
<1>5. plan.stack = <<>> => id \notin Visiting
  BY <1>2, <1>3
<1>6. Len(plan.stack) < StackLimit => Len(plan.stack) # StackLimit
  BY <1>2, PlannerAssumption
<1> QED
  BY <1>3, <1>4, <1>5, <1>6, Zenon DEF CallDfs

(* What is left of the plan when the search ends.                           *)
LEMMA SearchRaises ==
  ASSUME SearchOK, DOMAIN plan = PlanFields, IsReply(plan.reply),
         Len(plan.stack) = StackLimit, NEW root,
         plan' = [Raised EXCEPT !.root = root] \/ plan' = Raised
  PROVE  PlanInv'
<1>1. /\ plan'.phase = "raised" /\ plan'.nodes = plan.nodes /\ plan'.reply = plan.reply
      /\ DOMAIN plan' = PlanFields
  BY DEF Raised, PlanFields
<1>2. Cardinality(Ids(plan.nodes)) >= StackLimit
  <2>1. Len(plan.stack) <= Cardinality(Ids(plan.nodes))
    BY NestedCalls DEF SearchOK
  <2> QED
    BY <2>1, PlannerAssumption
<1> QED
  BY <1>1, <1>2 DEF PlanInv, Searching, PlanIsDag

LEMMA SearchFindsCycle ==
  ASSUME SearchOK, DOMAIN plan = PlanFields, IsReply(plan.reply), ~Acyclic(plan.nodes),
         plan' = Settled(Canonical)
  PROVE  PlanInv'
<1>1. /\ plan'.phase = "planned" /\ plan'.nodes = Canonical /\ plan'.reply = plan.reply
      /\ DOMAIN plan' = PlanFields
  BY DEF Settled, PlanFields
<1>2. ~IsDag(Dag(plan.reply.nodes))
  BY DEF SearchOK, IsDag
<1> QED
  BY <1>1, <1>2, CanonicalIsDag DEF PlanInv, Searching, PlanIsDag

(* The search goes on with another stack.                                   *)
LEMMA SearchGoesOn ==
  ASSUME SearchOK, IsReply(plan.reply), NEW stack, NEW visited, NEW root,
         /\ DOMAIN plan' = PlanFields /\ plan'.phase = "searching"
         /\ plan'.reply = plan.reply /\ plan'.nodes = plan.nodes,
         plan'.stack = stack /\ plan'.visited = visited /\ plan'.root = root,
         OnPath(plan.nodes, stack), Explored(plan.nodes, stack, visited),
         Len(stack) <= StackLimit, root \in 1..(Len(plan.nodes) + 1),
         \A k \in 1..(root - 1) :
           \/ plan.nodes[k].id \in visited
           \/ k = root - 1 /\ stack # <<>> /\ stack[1].id = plan.nodes[k].id
  PROVE  PlanInv'
<1>1. SearchOK'
  BY Zenon DEF SearchOK
<1> QED
  BY <1>1 DEF PlanInv, PlanIsDag

LEMMA SearchFromKeeps ==
  ASSUME PlanInv, SearchFrom
  PROVE  PlanInv'
<1> DEFINE nodes == plan.nodes
           r == plan.root
           id == nodes[r].id
<1>1. /\ Searching /\ plan.phase # "idle" /\ plan.stack = <<>> /\ r <= Len(nodes)
      /\ plan' = [CallDfs(id, <<>>) EXCEPT !.root = @ + 1]
  BY DEF SearchFrom, Searching
<1>2. SearchOK /\ DOMAIN plan = PlanFields /\ IsReply(plan.reply)
  BY <1>1 DEF PlanInv
<1>3. /\ Proper(nodes) /\ r \in 1..Len(nodes) /\ id \in Ids(nodes) /\ Len(nodes) \in Nat
      /\ OnPath(nodes, <<>>) /\ Explored(nodes, <<>>, plan.visited)
      /\ \A k \in 1..(r - 1) : nodes[k].id \in plan.visited
  <2>1. Proper(nodes) /\ nodes \in Seq(NodeOf(Id)) /\ r \in 1..(Len(nodes) + 1)
    BY <1>2 DEF SearchOK, Proper
  <2>2. Len(nodes) \in Nat /\ DOMAIN nodes = 1..Len(nodes) /\ r \in 1..Len(nodes)
    BY <1>1, <2>1
  <2> QED
    BY <1>1, <1>2, <2>1, <2>2 DEF SearchOK, Ids
<1> HIDE DEF nodes, r, id
<1>4. /\ plan.stack = <<>> /\ plan.phase = "searching"
      /\ plan.nodes = nodes /\ plan.root = r
  BY <1>1 DEF nodes, r, Searching
<1>5. r \in Nat /\ r + 1 \in 1..(Len(nodes) + 1) /\ (r + 1) - 1 = r
      /\ \A k \in 1..r : k = r \/ k \in 1..(r - 1)
  BY <1>3
<1>6. CASE Len(plan.stack) = StackLimit /\ CallDfs(id, <<>>) = Raised
  <2>1. plan' = [Raised EXCEPT !.root = Raised.root + 1]
    BY <1>1, <1>6
  <2> QED
    BY <1>2, <1>6, <2>1, SearchRaises
<1>7. CASE /\ Len(plan.stack) < StackLimit /\ id \in plan.visited
           /\ CallDfs(id, <<>>) = [plan EXCEPT !.stack = <<>>]
  <2>1. /\ DOMAIN plan' = PlanFields /\ plan'.phase = "searching"
        /\ plan'.reply = plan.reply /\ plan'.nodes = plan.nodes
        /\ plan'.stack = <<>> /\ plan'.visited = plan.visited /\ plan'.root = r + 1
    BY <1>1, <1>2, <1>4, <1>7 DEF PlanFields
  <2>2. \A k \in 1..((r + 1) - 1) : plan.nodes[k].id \in plan.visited
    BY <1>3, <1>4, <1>5, <1>7 DEF id
  <2>3. Len(<<>>) <= StackLimit
    BY PlannerAssumption
  <2> QED
    BY <1>2, <1>3, <1>4, <1>5, <2>1, <2>2, <2>3, SearchGoesOn
<1>8. CASE /\ Len(plan.stack) < StackLimit /\ id \notin plan.visited
           /\ CallDfs(id, <<>>) = [plan EXCEPT !.stack = Append(<<>>, Frame(id))]
  <2> DEFINE s == <<Frame(id)>>
  <2>1. /\ DOMAIN plan' = PlanFields /\ plan'.phase = "searching"
        /\ plan'.reply = plan.reply /\ plan'.nodes = plan.nodes
        /\ plan'.stack = s /\ plan'.visited = plan.visited /\ plan'.root = r + 1
    <3>1. Append(<<>>, Frame(id)) = s
      OBVIOUS
    <3> HIDE DEF s
    <3> QED
      BY <1>1, <1>2, <1>4, <1>8, <3>1 DEF PlanFields
  <2>2. OnPath(nodes, s) /\ Explored(nodes, s, plan.visited)
    BY <1>3, <1>8, CallStarts, Zenon
  <2>3. s # <<>> /\ s[1].id = nodes[r].id /\ Len(s) = 1
    BY DEF Frame, id
  <2> HIDE DEF s
  <2>4. \A k \in 1..((r + 1) - 1) :
          \/ plan.nodes[k].id \in plan.visited
          \/ k = (r + 1) - 1 /\ s # <<>> /\ s[1].id = plan.nodes[k].id
    BY <1>3, <1>4, <1>5, <2>3
  <2>5. Len(s) <= StackLimit
    <3>1. Len(plan.stack) = 0
      BY <1>4
    <3> QED
      BY <1>8, <2>3, <3>1, PlannerAssumption
  <2> QED
    BY <1>2, <1>4, <1>5, <2>1, <2>2, <2>4, <2>5, SearchGoesOn
<1> QED
  BY <1>1, <1>2, <1>4, <1>6, <1>7, <1>8, CallOutcomes

(* The roots that were left stay left while the stack has the same bottom,  *)
(* or its bottom was visited.                                               *)
LEMMA RootsStay ==
  ASSUME SearchOK, NEW stack, NEW visited, plan.visited \subseteq visited,
         \/ stack # <<>> /\ plan.stack # <<>> => stack[1].id = plan.stack[1].id
         \/ plan.stack[1].id \in visited,
         plan.stack # <<>> => stack # <<>> \/ plan.stack[1].id \in visited
  PROVE  \A k \in 1..(plan.root - 1) :
           \/ plan.nodes[k].id \in visited
           \/ k = plan.root - 1 /\ stack # <<>> /\ stack[1].id = plan.nodes[k].id
BY DEF SearchOK

LEMMA SearchDependencyKeeps ==
  ASSUME PlanInv, SearchDependency
  PROVE  PlanInv'
<1> DEFINE stack == plan.stack
           n == Len(stack)
           id == Deps(plan.nodes, Last(stack).id)[Last(stack).next]
<1>1. /\ Searching /\ plan.phase # "idle" /\ stack # <<>>
      /\ Last(stack).next <= Len(Deps(plan.nodes, Last(stack).id))
      /\ plan' = CallDfs(id, Below(stack))
  BY DEF SearchDependency, Searching, Top, DepsAt, Deps, Below
<1>2. SearchOK /\ DOMAIN plan = PlanFields /\ IsReply(plan.reply)
  BY <1>1 DEF PlanInv
<1>3. /\ Proper(plan.nodes) /\ OnPath(plan.nodes, stack)
      /\ Explored(plan.nodes, stack, plan.visited) /\ plan.root \in 1..(Len(plan.nodes) + 1)
      /\ n <= StackLimit
  BY <1>2 DEF SearchOK
<1>4. /\ n \in Nat \ {0} /\ Below(stack) \in Seq(FrameOf(plan.nodes)) /\ Len(Below(stack)) = n
      /\ \A i \in 1..n : Below(stack)[i].id = stack[i].id
  <2>1. stack \in Seq(FrameOf(plan.nodes))
    BY <1>3 DEF OnPath
  <2> QED
    BY <1>1, <2>1, StackParts, Zenon
<1> HIDE DEF n, id
<1>5. CASE n = StackLimit /\ plan' = Raised
  BY <1>2, <1>5, SearchRaises DEF n
<1>6. CASE /\ n < StackLimit /\ id \in plan.visited
           /\ plan' = [plan EXCEPT !.stack = Below(stack)]
  <2>1. /\ DOMAIN plan' = PlanFields /\ plan'.phase = "searching"
        /\ plan'.reply = plan.reply /\ plan'.nodes = plan.nodes
        /\ plan'.stack = Below(stack) /\ plan'.visited = plan.visited /\ plan'.root = plan.root
    BY <1>1, <1>2, <1>6 DEF PlanFields, Searching
  <2>2. OnPath(plan.nodes, Below(stack)) /\ Explored(plan.nodes, Below(stack), plan.visited)
    BY <1>1, <1>3, <1>6, CallReturns, Zenon DEF id
  <2>3. Below(stack) # <<>> /\ Below(stack)[1].id = stack[1].id
    BY <1>4
  <2>4. \A k \in 1..(plan.root - 1) :
          \/ plan.nodes[k].id \in plan.visited
          \/ k = plan.root - 1 /\ Below(stack) # <<>> /\ Below(stack)[1].id = plan.nodes[k].id
    BY <1>2, <2>3, RootsStay
  <2>5. Len(Below(stack)) <= StackLimit
    BY <1>3, <1>4
  <2> QED
    BY <1>2, <1>3, <2>1, <2>2, <2>4, <2>5, SearchGoesOn, Zenon
<1>7. CASE \E j \in 1..n : stack[j].id = id /\ plan' = Settled(Canonical)
  <2>1. ~Acyclic(plan.nodes)
    BY <1>1, <1>3, <1>7, CallCloses, Zenon DEF id, n
  <2> QED
    BY <1>2, <1>7, <2>1, SearchFindsCycle
<1>8. CASE /\ n < StackLimit /\ id \notin plan.visited
           /\ \A j \in 1..n : stack[j].id # id
           /\ plan' = [plan EXCEPT !.stack = Append(Below(stack), Frame(id))]
  <2> DEFINE s == Append(Below(stack), Frame(id))
  <2>1. OnPath(plan.nodes, s) /\ Explored(plan.nodes, s, plan.visited)
    BY <1>1, <1>3, <1>8, CallNests, Zenon DEF id, n
  <2>2. /\ DOMAIN plan' = PlanFields /\ plan'.phase = "searching"
        /\ plan'.reply = plan.reply /\ plan'.nodes = plan.nodes
        /\ plan'.stack = s /\ plan'.visited = plan.visited /\ plan'.root = plan.root
    <3> HIDE DEF s
    <3>1. plan' = [plan EXCEPT !.stack = s]
      BY <1>8 DEF s
    <3> QED
      BY <1>1, <1>2, <3>1 DEF PlanFields, Searching
  <2>3. s # <<>> /\ s[1].id = stack[1].id /\ Len(s) = n + 1
    <3>1. Len(s) = n + 1 /\ s[1] = Below(stack)[1]
      BY <1>4
    <3> HIDE DEF s
    <3>2. s # <<>>
      BY <1>4, <3>1
    <3> QED
      BY <1>4, <3>1, <3>2
  <2> HIDE DEF s
  <2>4. \A k \in 1..(plan.root - 1) :
          \/ plan.nodes[k].id \in plan.visited
          \/ k = plan.root - 1 /\ s # <<>> /\ s[1].id = plan.nodes[k].id
    BY <1>2, <2>3, RootsStay
  <2>5. Len(s) <= StackLimit
    BY <1>4, <1>8, <2>3, PlannerAssumption
  <2> QED
    BY <1>2, <1>3, <2>1, <2>2, <2>4, <2>5, SearchGoesOn, Zenon
<1> QED
  BY <1>1, <1>2, <1>5, <1>6, <1>7, <1>8, CallOutcomes, Zenon DEF n

LEMMA SearchReturnsKeeps ==
  ASSUME PlanInv, SearchReturns
  PROVE  PlanInv'
<1> DEFINE stack == plan.stack
           n == Len(stack)
           b == Front(stack)
           v == plan.visited \cup {Last(stack).id}
<1>1. /\ Searching /\ plan.phase # "idle" /\ stack # <<>>
      /\ ~(Last(stack).next <= Len(Deps(plan.nodes, Last(stack).id)))
      /\ plan' = [plan EXCEPT !.stack = b, !.visited = v]
  <2>1. SearchOK
    BY DEF SearchReturns, PlanInv
  <2>2. Proper(plan.nodes) /\ stack \in Seq(FrameOf(plan.nodes)) /\ stack # <<>>
    BY <2>1 DEF SearchOK, OnPath, SearchReturns
  <2>3. Last(stack).id \in Ids(plan.nodes) /\ Last(stack).next \in Nat
    <3> HIDE DEF stack
    <3>1. /\ Len(stack) \in Nat \ {0} /\ Last(stack) = stack[Len(stack)]
          /\ \A i \in 1..Len(stack) :
               stack[i].id \in Ids(plan.nodes) /\ stack[i].next \in Nat \ {0}
      BY <2>2, StackParts, Zenon
    <3> QED
      BY <3>1
  <2>4. Deps(plan.nodes, Last(stack).id) \in Seq(Ids(plan.nodes))
    BY <2>2, <2>3, OneNode
  <2>5. Last(stack).next > Len(Deps(plan.nodes, Last(stack).id))
    BY DEF SearchReturns, Top, DepsAt, Deps
  <2>6. ~(Last(stack).next <= Len(Deps(plan.nodes, Last(stack).id)))
    BY <2>3, <2>4, <2>5
  <2> QED
    BY <2>2, <2>6 DEF SearchReturns, Searching, Top
<1>2. SearchOK /\ DOMAIN plan = PlanFields /\ IsReply(plan.reply)
  BY <1>1 DEF PlanInv
<1>3. /\ Proper(plan.nodes) /\ OnPath(plan.nodes, stack)
      /\ Explored(plan.nodes, stack, plan.visited) /\ plan.root \in 1..(Len(plan.nodes) + 1)
      /\ n <= StackLimit
  BY <1>2 DEF SearchOK
<1>4. /\ n \in Nat \ {0} /\ Last(stack) = stack[n] /\ Len(b) = n - 1
      /\ \A i \in 1..(n - 1) : b[i] = stack[i]
      /\ b \in Seq(FrameOf(plan.nodes))
  <2>1. stack \in Seq(FrameOf(plan.nodes))
    BY <1>3 DEF OnPath
  <2> QED
    BY <1>1, <2>1, StackParts, Zenon
<1>5. OnPath(plan.nodes, b) /\ Explored(plan.nodes, b, v)
  BY <1>1, <1>3, CallEnds, Zenon
<1> HIDE DEF n, b, v
<1>6. /\ DOMAIN plan' = PlanFields /\ plan'.phase = "searching"
      /\ plan'.reply = plan.reply /\ plan'.nodes = plan.nodes
      /\ plan'.stack = b /\ plan'.visited = v /\ plan'.root = plan.root
  BY <1>1, <1>2 DEF PlanFields, Searching
<1>7. /\ plan.visited \subseteq v
      /\ b # <<>> => b[1].id = stack[1].id
      /\ b # <<>> \/ stack[1].id \in v
  <2>1. CASE n = 1
    BY <1>4, <2>1 DEF v
  <2>2. CASE n # 1
    BY <1>4, <2>2 DEF v
  <2> QED
    BY <2>1, <2>2
<1>8. \A k \in 1..(plan.root - 1) :
        \/ plan.nodes[k].id \in v
        \/ k = plan.root - 1 /\ b # <<>> /\ b[1].id = plan.nodes[k].id
  BY <1>2, <1>7, RootsStay
<1>9. Len(b) <= StackLimit
  BY <1>3, <1>4, PlannerAssumption
<1> QED
  BY <1>2, <1>3, <1>5, <1>6, <1>8, <1>9, SearchGoesOn, Zenon

(* When the search has gone through the roots it has gone through the plan. *)
LEMMA NoCycleKeeps ==
  ASSUME PlanInv, NoCycle
  PROVE  PlanInv'
<1>1. /\ Searching /\ plan.phase # "idle" /\ plan.stack = <<>> /\ plan.root > Len(plan.nodes)
      /\ plan' = Settled(plan.nodes)
  BY DEF NoCycle, Searching
<1>2. SearchOK /\ DOMAIN plan = PlanFields /\ IsReply(plan.reply)
  BY <1>1 DEF PlanInv
<1>3. /\ plan'.phase = "planned" /\ plan'.nodes = plan.nodes /\ plan'.reply = plan.reply
      /\ DOMAIN plan' = PlanFields
  BY <1>1, <1>2 DEF Settled, PlanFields
<1>4. Proper(plan.nodes) /\ plan.nodes \in Seq(NodeOf(Id))
  BY <1>2 DEF SearchOK, Proper
<1>5. Ids(plan.nodes) \subseteq plan.visited
  <2>1. DOMAIN plan.nodes = 1..Len(plan.nodes) /\ Len(plan.nodes) \in Nat
    BY <1>4
  <2>2. plan.root - 1 = Len(plan.nodes)
    BY <1>1, <1>2, <2>1 DEF SearchOK
  <2>3. \A k \in 1..(plan.root - 1) : plan.nodes[k].id \in plan.visited
    BY <1>1, <1>2 DEF SearchOK
  <2> QED
    BY <2>1, <2>2, <2>3 DEF Ids
<1>6. Acyclic(plan.nodes)
  BY <1>2, <1>5 DEF SearchOK, Explored, Bottomed, Acyclic
<1>7. IsDag(plan.nodes)
  BY <1>4, <1>6 DEF IsDag, Proper
<1> QED
  BY <1>2, <1>3, <1>7 DEF PlanInv, Searching, PlanIsDag, SearchOK

-----------------------------------------------------------------------------
(* The loader: after each file, what was loaded is the first usable skill   *)
(* of each name so far.                                                     *)

Nothing == [skills |-> <<>>, errors |-> <<>>, seen |-> {}]

LEMMA LoadRuns ==
  ASSUME NEW n \in Nat, NEW files, DOMAIN files = 1..n
  PROVE  \E f : /\ f[0] = Nothing /\ Load(files) = f[n]
                /\ \A k \in 1..n : f[k] = LoadOne(f[k - 1], files[k])
<1> DEFINE S == {Parsed(files[i]) : i \in 1..n}
           T == [skills : Seq(S), errors : Seq({files[i] : i \in 1..n}),
                 seen : SUBSET {Parsed(files[i]).name : i \in 1..n}]
           g == [p \in T \X (1..n) |-> LoadOne(p[1], files[p[2]])]
           Right(c) == c = [s \in SUBSET (1..n) |->
                              IF s = {} THEN Nothing
                              ELSE LoadOne(c[s \ {Max(s)}], files[Max(s)])]
<1>1. Nothing \in T
  BY DEF Nothing
<1>2. ASSUME NEW r \in T, NEW i \in 1..n PROVE LoadOne(r, files[i]) \in T
  <2> DEFINE E == {files[j] : j \in 1..n}
             N == {Parsed(files[j]).name : j \in 1..n}
  <2>1. /\ DOMAIN r = {"skills", "errors", "seen"}
        /\ r.skills \in Seq(S) /\ r.errors \in Seq(E) /\ r.seen \in SUBSET N
    OBVIOUS
  <2>2. files[i] \in E /\ Parsed(files[i]) \in S /\ Parsed(files[i]).name \in N
    OBVIOUS
  <2> HIDE DEF S, E, N
  <2>3. /\ Append(r.errors, files[i]) \in Seq(E)
        /\ Append(r.skills, Parsed(files[i])) \in Seq(S)
        /\ r.seen \cup {Parsed(files[i]).name} \in SUBSET N
    BY <2>1, <2>2
  <2>4. r \in T
    OBVIOUS
  <2>5. /\ [r EXCEPT !.errors = Append(@, files[i])] \in [skills : Seq(S), errors : Seq(E), seen : SUBSET N]
        /\ [r EXCEPT !.seen = @ \cup {Parsed(files[i]).name},
                     !.skills = Append(@, Parsed(files[i]))]
             \in [skills : Seq(S), errors : Seq(E), seen : SUBSET N]
    BY <2>1, <2>3 DEF E, N
  <2> QED
    BY <2>4, <2>5 DEF LoadOne, E, N
<1>3. g \in [T \X (1..n) -> T]
  <2> HIDE DEF T
  <2> QED
    BY <1>2
<1>4. PICK it \in [SUBSET (1..n) -> T] : Folds(it, Nothing, g, n)
  <2> HIDE DEF T, g
  <2> QED
    BY <1>1, <1>3, FoldExists
<1>5. Right(it)
  <2> SUFFICES ASSUME NEW s \in SUBSET (1..n), s # {}
               PROVE  g[<<it[s \ {Max(s)}], Max(s)>>] = LoadOne(it[s \ {Max(s)}], files[Max(s)])
    BY <1>4 DEF Folds
  <2>1. Max(s) \in 1..n /\ it[s \ {Max(s)}] \in T
    BY <1>4, GreatestNumber
  <2> HIDE DEF T
  <2> QED
    BY <2>1
<1> DEFINE c == CHOOSE x : Right(x)
<1>6. Right(c)
  BY <1>5
<1>7. Load(files) = c[1..n]
  BY DEF Load, FoldLeft, MapThenFoldSet, Nothing
<1> HIDE DEF c, g, T
<1> DEFINE f == [k \in 0..n |-> c[1..k]]
<1>8. f[0] = Nothing
  <2>1. 1..0 = {} /\ {} \in SUBSET (1..n)
    OBVIOUS
  <2> QED
    BY <1>6, <2>1
<1>9. ASSUME NEW k \in 1..n PROVE f[k] = LoadOne(f[k - 1], files[k])
  <2>1. /\ 1..k \in SUBSET (1..n) /\ 1..k # {}
        /\ Max(1..k) = k /\ (1..k) \ {k} = 1..(k - 1)
    BY FirstNumbers
  <2>2. c[1..k] = LoadOne(c[(1..k) \ {Max(1..k)}], files[Max(1..k)])
    BY <1>6, <2>1
  <2>3. k \in 0..n /\ k - 1 \in 0..n
    OBVIOUS
  <2> QED
    BY <2>1, <2>2, <2>3
<1>10. Load(files) = f[n]
  BY <1>7
<1> QED
  BY <1>8, <1>9, <1>10

NameAt(files, i) == Parsed(files[i]).name

(* The first usable files of their names among the first k.                 *)
Firsts(files, k) ==
  {i \in 1..k : /\ Usable(files[i])
                /\ \A j \in 1..(i - 1) : Usable(files[j]) => NameAt(files, j) # NameAt(files, i)}

LoadedSoFar(files, k, r) ==
  /\ DOMAIN r = {"skills", "errors", "seen"}
  /\ r.skills \in Seq({Parsed(files[i]) : i \in DOMAIN files})
  /\ r.seen = {NameAt(files, i) : i \in {j \in 1..k : Usable(files[j])}}
  /\ IsFiniteSet(Firsts(files, k)) /\ Len(r.skills) = Cardinality(Firsts(files, k))
  /\ \A i \in Firsts(files, k) : \E m \in DOMAIN r.skills : r.skills[m] = Parsed(files[i])

LEMMA FirstsGrow ==
  ASSUME NEW files, NEW k \in Nat,
         NEW fresh, fresh = (/\ Usable(files[k + 1])
                             /\ \A j \in 1..k : Usable(files[j]) => NameAt(files, j) # NameAt(files, k + 1))
  PROVE  /\ fresh => Firsts(files, k + 1) = Firsts(files, k) \cup {k + 1}
         /\ ~fresh => Firsts(files, k + 1) = Firsts(files, k)
         /\ k + 1 \notin Firsts(files, k)
<1>1. 1..(k + 1) = (1..k) \cup {k + 1} /\ k + 1 \notin 1..k /\ (k + 1) - 1 = k
  OBVIOUS
<1> QED
  BY <1>1 DEF Firsts

LEMMA LoadOneKeeps ==
  ASSUME NEW n \in Nat, NEW files, DOMAIN files = 1..n, NEW k \in 0..(n - 1), NEW r,
         LoadedSoFar(files, k, r)
  PROVE  LoadedSoFar(files, k + 1, LoadOne(r, files[k + 1]))
<1> DEFINE file == files[k + 1]
           skill == Parsed(file)
           S == {Parsed(files[i]) : i \in DOMAIN files}
           F == Firsts(files, k)
           F1 == Firsts(files, k + 1)
           fresh == /\ Usable(file)
                    /\ \A j \in 1..k : Usable(files[j]) => NameAt(files, j) # NameAt(files, k + 1)
           new == LoadOne(r, file)
<1>1. /\ k \in Nat /\ k + 1 \in 1..n /\ 1..(k + 1) = (1..k) \cup {k + 1} /\ skill \in S
  OBVIOUS
<1>2. /\ DOMAIN r = {"skills", "errors", "seen"} /\ r.skills \in Seq(S)
      /\ r.seen = {NameAt(files, i) : i \in {j \in 1..k : Usable(files[j])}}
      /\ IsFiniteSet(F) /\ Len(r.skills) = Cardinality(F)
      /\ \A i \in F : \E m \in DOMAIN r.skills : r.skills[m] = Parsed(files[i])
  BY DEF LoadedSoFar
<1>3. /\ fresh => F1 = F \cup {k + 1}
      /\ ~fresh => F1 = F
      /\ k + 1 \notin F
  <2> HIDE DEF F, F1
  <2> QED
    BY <1>1, FirstsGrow DEF F, F1
<1>4. skill.name \in r.seen
        <=> \E j \in 1..k : Usable(files[j]) /\ NameAt(files, j) = NameAt(files, k + 1)
  BY <1>2 DEF NameAt
<1>5. {NameAt(files, i) : i \in {j \in 1..(k + 1) : Usable(files[j])}}
        = IF Usable(file) THEN r.seen \cup {skill.name} ELSE r.seen
  BY <1>1, <1>2 DEF NameAt
<1> HIDE DEF S, F, F1, skill
<1>6. CASE fresh
  <2>1. Parses(file) /\ Passes(skill) /\ skill.name \notin r.seen
    BY <1>4, <1>6 DEF Usable, skill
  <2>2. new = [r EXCEPT !.seen = @ \cup {skill.name}, !.skills = Append(@, skill)]
    BY <2>1 DEF LoadOne, skill
  <2>3. /\ DOMAIN new = {"skills", "errors", "seen"}
        /\ new.seen = r.seen \cup {skill.name} /\ new.skills = Append(r.skills, skill)
    BY <1>2, <2>2
  <2> HIDE DEF new
  <2>4. /\ new.skills \in Seq(S) /\ Len(new.skills) = Len(r.skills) + 1
        /\ DOMAIN new.skills = 1..(Len(r.skills) + 1) /\ Len(r.skills) \in Nat
        /\ new.skills[Len(r.skills) + 1] = skill
        /\ \A m \in DOMAIN r.skills : m \in DOMAIN new.skills /\ new.skills[m] = r.skills[m]
    BY <1>1, <1>2, <2>3
  <2>5. IsFiniteSet(F1) /\ Cardinality(F1) = Cardinality(F) + 1
    BY <1>2, <1>3, <1>6, FS_AddElement
  <2>6. ASSUME NEW i \in F1 PROVE \E m \in DOMAIN new.skills : new.skills[m] = Parsed(files[i])
    <3>1. CASE i = k + 1
      BY <2>4, <3>1 DEF skill
    <3>2. CASE i \in F
      BY <1>2, <2>4, <3>2
    <3> QED
      BY <1>3, <1>6, <3>1, <3>2
  <2>7. new.seen = {NameAt(files, i) : i \in {j \in 1..(k + 1) : Usable(files[j])}}
    BY <1>5, <1>6, <2>3
  <2> QED
    BY <1>2, <2>3, <2>4, <2>5, <2>6, <2>7 DEF LoadedSoFar, S, F1, new
<1>7. CASE ~fresh
  <2>1. ~Usable(file) \/ skill.name \in r.seen
    BY <1>4, <1>7
  <2>2. new = r \/ (~Parses(file) /\ new = [r EXCEPT !.errors = Append(@, file)])
    BY <2>1 DEF LoadOne, Usable, skill
  <2>3. /\ DOMAIN new = {"skills", "errors", "seen"}
        /\ new.seen = r.seen /\ new.skills = r.skills
    BY <1>2, <2>2
  <2> HIDE DEF new
  <2>4. new.seen = {NameAt(files, i) : i \in {j \in 1..(k + 1) : Usable(files[j])}}
    BY <1>5, <2>1, <2>3
  <2>5. F1 = F
    BY <1>3, <1>7
  <2> QED
    BY <1>2, <2>3, <2>4, <2>5 DEF LoadedSoFar, S, F, F1, new
<1> QED
  BY <1>6, <1>7

(* Whatever the files are, SkillLoader.load keeps the first usable skill of *)
(* each name and no other.                                                  *)
THEOREM LoadKeepsFirstUsable ==
  ASSUME NEW n \in Nat, NEW files, DOMAIN files = 1..n
  PROVE  FirstUsable(files, Load(files).skills)
<1>1. PICK f : /\ f[0] = Nothing /\ Load(files) = f[n]
               /\ \A k \in 1..n : f[k] = LoadOne(f[k - 1], files[k])
  BY LoadRuns
<1> DEFINE P == {k \in 0..n : LoadedSoFar(files, k, f[k])}
<1>2. 0 \in P
  <2>1. Firsts(files, 0) = {}
    BY DEF Firsts
  <2>2. LoadedSoFar(files, 0, Nothing)
    BY <2>1, FS_EmptySet DEF LoadedSoFar, Nothing
  <2> QED
    BY <1>1, <2>2
<1>3. ASSUME NEW k \in 0..(n - 1), k \in P PROVE k + 1 \in P
  <2>1. LoadedSoFar(files, k + 1, LoadOne(f[k], files[k + 1]))
    BY <1>3, LoadOneKeeps
  <2>2. k + 1 \in 1..n /\ k + 1 \in 0..n /\ (k + 1) - 1 = k
    OBVIOUS
  <2>3. f[k + 1] = LoadOne(f[k], files[k + 1])
    BY <1>1, <2>2
  <2> QED
    BY <2>1, <2>2, <2>3
<1>4. LoadedSoFar(files, n, Load(files))
  <2>1. n \in P
    <3> HIDE DEF P
    <3>1. 0..n \subseteq P
      BY <1>2, <1>3, UpTo
    <3> QED
      BY <3>1
  <2> QED
    BY <1>1, <2>1
<1> DEFINE usable == {i \in DOMAIN files : Usable(files[i])}
           first == {i \in usable : \A j \in usable :
                       Parsed(files[j]).name = Parsed(files[i]).name => i <= j}
<1>5. first = Firsts(files, n)
  <2>1. ASSUME NEW i \in first PROVE i \in Firsts(files, n)
    BY <2>1 DEF Firsts, NameAt
  <2>2. ASSUME NEW i \in Firsts(files, n) PROVE i \in first
    BY <2>2 DEF Firsts, NameAt
  <2> QED
    BY <2>1, <2>2
<1> QED
  BY <1>4, <1>5 DEF FirstUsable, LoadedSoFar

-----------------------------------------------------------------------------
(* The shelves.                                                             *)

(* What is on the curated shelf comes first, however much was learned.      *)
LEMMA CuratedComesFirst ==
  ASSUME IsFiniteSet(DOMAIN learned)
  PROVE  \E n \in Nat : /\ DOMAIN Files = 1..n
                        /\ DOMAIN Curated \subseteq 1..n
                        /\ \A i \in DOMAIN Curated : Files[i] = Curated[i]
                        /\ \A i \in 1..n : \A j \in DOMAIN Curated : i <= j => i \in DOMAIN Curated
<1> DEFINE names == Sorted(DOMAIN learned)
           m == Cardinality(DOMAIN learned)
           own == [i \in DOMAIN names |-> learned[names[i]]]
           X == Range(Curated) \cup Range(own) \cup Range(Imported) \cup Range(Evolved)
<1>1. m \in Nat /\ DOMAIN names = 1..m
  BY FS_CardinalityType DEF Sorted
<1> HIDE DEF names, m
<1>2. DOMAIN own = 1..m /\ \A i \in 1..m : own[i] \in Range(own)
  BY <1>1 DEF Range
<1>3. own \in Seq(Range(own))
  <2> HIDE DEF own
  <2> QED
    BY <1>1, <1>2, own = [i \in 1..m |-> own[i]] DEF own
<1> HIDE DEF own
<1>4. /\ Curated \in Seq(Range(Curated)) /\ Imported \in Seq(Range(Imported))
      /\ Evolved \in Seq(Range(Evolved))
  BY SkillsAssumption
<1>5. /\ Curated \in Seq(X) /\ own \in Seq(X) /\ Imported \in Seq(X) /\ Evolved \in Seq(X)
  BY <1>3, <1>4
<1>6. Files = Curated \o own \o Imported \o Evolved
  BY DEF Files, SearchPaths, own, names
<1> HIDE DEF X
<1>7. /\ Curated \o own \in Seq(X) /\ Len(Curated \o own) = Len(Curated) + Len(own)
      /\ \A i \in 1..Len(Curated) : (Curated \o own)[i] = Curated[i]
  BY <1>5
<1> DEFINE a == Curated \o own
<1>8. /\ a \o Imported \in Seq(X) /\ Len(a \o Imported) = Len(a) + Len(Imported)
      /\ \A i \in 1..Len(a) : (a \o Imported)[i] = a[i]
  <2> HIDE DEF a
  <2> QED
    BY <1>5, <1>7 DEF a
<1> DEFINE b == a \o Imported
<1>9. /\ b \o Evolved \in Seq(X) /\ Len(b \o Evolved) = Len(b) + Len(Evolved)
      /\ \A i \in 1..Len(b) : (b \o Evolved)[i] = b[i]
  <2> HIDE DEF b
  <2> QED
    BY <1>5, <1>8 DEF b
<1>10. Files = b \o Evolved
  BY <1>6
<1>11. /\ DOMAIN Curated = 1..Len(Curated) /\ Len(Curated) \in Nat /\ Len(own) \in Nat
       /\ Len(Imported) \in Nat /\ Len(Evolved) \in Nat
  BY <1>5
<1> HIDE DEF a, b
<1>12. /\ DOMAIN Files = 1..Len(Files) /\ Len(Files) \in Nat
       /\ Len(Files) >= Len(b) /\ Len(b) >= Len(a) /\ Len(a) >= Len(Curated)
       /\ Len(a) \in Nat /\ Len(b) \in Nat
  <2>1. Len(a) \in Nat /\ Len(a) = Len(Curated) + Len(own)
    BY <1>7 DEF a
  <2>2. Len(b) \in Nat /\ Len(b) = Len(a) + Len(Imported)
    BY <1>8 DEF b
  <2>3. Len(Files) \in Nat /\ DOMAIN Files = 1..Len(Files) /\ Len(Files) = Len(b) + Len(Evolved)
    BY <1>9, <1>10
  <2> QED
    BY <1>11, <2>1, <2>2, <2>3
<1>13. ASSUME NEW i \in 1..Len(Curated) PROVE Files[i] = Curated[i]
  <2>1. i \in 1..Len(a) /\ i \in 1..Len(b)
    BY <1>11, <1>12
  <2> QED
    BY <1>7, <1>8, <1>9, <1>10, <2>1 DEF a, b
<1> DEFINE n == Len(Files)
           c == Len(Curated)
<1>14. n \in Nat /\ c \in Nat /\ c <= n /\ DOMAIN Files = 1..n /\ DOMAIN Curated = 1..c
  BY <1>11, <1>12
<1> HIDE DEF n
<1>15. 1..c \subseteq 1..n /\ \A i \in 1..n : \A j \in 1..c : i <= j => i \in 1..c
  <2> HIDE DEF c
  <2> QED
    BY <1>14
<1> QED
  BY <1>13, <1>14, <1>15

(* The registry has each curated skill's name, with a curated skill.        *)
CuratedKept(skills) ==
  LET own == {Parsed(Curated[i]) : i \in {j \in DOMAIN Curated : Usable(Curated[j])}}
  IN \A skill \in own : \E k \in DOMAIN skills :
       skills[k].name = skill.name /\ skills[k] \in own

LEMMA LoadKeepsCurated ==
  ASSUME IsFiniteSet(DOMAIN learned)
  PROVE  FirstUsable(Files, Load(Files).skills) /\ CuratedKept(Load(Files).skills)
<1>1. PICK n \in Nat : /\ DOMAIN Files = 1..n
                       /\ DOMAIN Curated \subseteq 1..n
                       /\ \A i \in DOMAIN Curated : Files[i] = Curated[i]
                       /\ \A i \in 1..n : \A j \in DOMAIN Curated :
                            i <= j => i \in DOMAIN Curated
  BY CuratedComesFirst
<1> DEFINE skills == Load(Files).skills
           files == Files
<1>2. FirstUsable(files, skills)
  <2> HIDE DEF files
  <2> QED
    BY <1>1, LoadKeepsFirstUsable DEF files
<1> HIDE DEF files, skills
<1> DEFINE own == {Parsed(Curated[i]) : i \in {j \in DOMAIN Curated : Usable(Curated[j])}}
<1>3. ASSUME NEW i \in DOMAIN Curated, Usable(Curated[i])
      PROVE  \E k \in DOMAIN skills :
               skills[k].name = Parsed(Curated[i]).name /\ skills[k] \in own
  <2> DEFINE same == {j \in 1..n : /\ Usable(files[j])
                                   /\ Parsed(files[j]).name = Parsed(Curated[i]).name}
  <2>1. i \in same
    BY <1>1, <1>3 DEF files
  <2>2. PICK j \in same : \A l \in same : j <= l
    <3>1. same \in SUBSET Nat /\ same # {}
      BY <2>1
    <3> HIDE DEF same
    <3> QED
      BY <3>1, LeastNumber
  <2>3. j \in DOMAIN Curated /\ files[j] = Curated[j]
    BY <1>1, <2>1, <2>2 DEF files
  <2>4. PICK k \in DOMAIN skills : skills[k] = Parsed(files[j])
    <3>1. DOMAIN files = 1..n
      BY <1>1 DEF files
    <3> QED
      BY <1>2, <2>2, <3>1 DEF FirstUsable
  <2>5. skills[k] \in own /\ skills[k].name = Parsed(Curated[i]).name
    BY <2>2, <2>3, <2>4
  <2> QED
    BY <2>5
<1> QED
  BY <1>2, <1>3 DEF CuratedKept, files, skills

-----------------------------------------------------------------------------
(* What the extractor makes of the runs.                                    *)

Result == [ratio : Faithfulness, used : SUBSET Names]

(* A sum over the members of I, from the first to the last: it is there,    *)
(* and at most what they can give.                                          *)
Sums(c, n, I, r) ==
  c = [s \in SUBSET (1..n) |->
         IF s = {} THEN 0
         ELSE IF Max(s) \in I THEN c[s \ {Max(s)}] + r[Max(s)] ELSE c[s \ {Max(s)}]]

LEMMA SumExists ==
  ASSUME NEW n \in Nat, NEW I \in SUBSET (1..n), NEW B \in Nat,
         NEW r \in [1..n -> 0..B]
  PROVE  \E c : Sums(c, n, I, r)
<1> DEFINE Add(sum, i) == IF i \in I THEN sum + r[i] ELSE sum
           g == [p \in Nat \X (1..n) |-> Add(p[1], p[2])]
<1>1. \A s \in Nat, i \in 1..n : Add(s, i) \in Nat
  <2> SUFFICES ASSUME NEW s \in Nat, NEW i \in 1..n PROVE Add(s, i) \in Nat
    OBVIOUS
  <2>1. r[i] \in Nat
    OBVIOUS
  <2>2. s + r[i] \in Nat
    BY <2>1
  <2> QED
    BY <2>2
<1>2. g \in [Nat \X (1..n) -> Nat]
  <2> HIDE DEF Add
  <2> QED
    BY <1>1
<1>3. PICK c \in [SUBSET (1..n) -> Nat] : Folds(c, 0, g, n)
  <2> HIDE DEF g
  <2> QED
    BY <1>2, FoldExists
<1>4. ASSUME NEW s \in SUBSET (1..n), s # {}
      PROVE  g[<<c[s \ {Max(s)}], Max(s)>>] = Add(c[s \ {Max(s)}], Max(s))
  <2>1. Max(s) \in 1..n /\ c[s \ {Max(s)}] \in Nat
    BY <1>3, <1>4, GreatestNumber
  <2> HIDE DEF Add
  <2> QED
    BY <2>1
<1>5. Sums(c, n, I, r)
  <2> HIDE DEF g
  <2> QED
    BY <1>3, <1>4 DEF Folds, Sums
<1> QED
  BY <1>5

LEMMA SumsBounded ==
  ASSUME NEW n \in Nat, NEW I \in SUBSET (1..n), NEW B \in Nat,
         NEW r \in [1..n -> 0..B], NEW c, Sums(c, n, I, r)
  PROVE  Cardinality(I) \in Nat /\ c[1..n] \in 0..(B * Cardinality(I))
<1> DEFINE Runs(k) == I \cap (1..k)
           P == {k \in 0..n : /\ IsFiniteSet(Runs(k)) /\ Cardinality(Runs(k)) \in Nat
                              /\ c[1..k] \in 0..(B * Cardinality(Runs(k)))}
<1>1. 0 \in P
  <2>1. 1..0 = {} /\ {} \in SUBSET (1..n) /\ Runs(0) = {}
    OBVIOUS
  <2>2. c[1..0] = 0
    BY <2>1 DEF Sums
  <2> QED
    BY <2>1, <2>2, FS_EmptySet
<1>2. ASSUME NEW k \in 0..(n - 1), k \in P PROVE k + 1 \in P
  <2> DEFINE j == k + 1
             C == Cardinality(Runs(k))
             C1 == Cardinality(Runs(j))
             x == c[1..k]
             y == c[1..j]
  <2>1. j \in 1..n /\ j \in 0..n /\ j - 1 = k
    OBVIOUS
  <2>2. IsFiniteSet(Runs(k)) /\ C \in Nat /\ x \in 0..(B * C)
    BY <1>2
  <2>3. /\ 1..j \in SUBSET (1..n) /\ 1..j # {} /\ Max(1..j) = j /\ (1..j) \ {j} = 1..k
    BY <2>1, FirstNumbers
  <2>4. y = IF j \in I THEN x + r[j] ELSE x
    BY <2>3 DEF Sums
  <2>5. /\ j \in I => Runs(j) = Runs(k) \cup {j} /\ j \notin Runs(k)
        /\ j \notin I => Runs(j) = Runs(k)
    BY <2>1
  <2>6. r[j] \in 0..B
    BY <2>1
  <2> HIDE DEF Runs, x, y, j
  <2>7. CASE j \in I
    <3>1. IsFiniteSet(Runs(j)) /\ C1 = C + 1
      BY <2>2, <2>5, <2>7, FS_AddElement
    <3>2. y = x + r[j]
      BY <2>4, <2>7
    <3> HIDE DEF C, C1
    <3>3. y \in 0..(B * C1) /\ C1 \in Nat
      BY <2>2, <2>6, <3>1, <3>2
    <3> QED
      BY <2>1, <3>1, <3>3 DEF C1, y, j
  <2>8. CASE j \notin I
    <3>1. Runs(j) = Runs(k) /\ y = x
      BY <2>4, <2>5, <2>8
    <3> QED
      BY <2>1, <2>2, <3>1 DEF y, j
  <2> QED
    BY <2>7, <2>8
<1>3. n \in P
  <2> HIDE DEF P
  <2>1. 0..n \subseteq P
    BY <1>1, <1>2, UpTo
  <2> QED
    BY <2>1
<1>4. Runs(n) = I
  OBVIOUS
<1> HIDE DEF Runs
<1> QED
  BY <1>3, <1>4

Thousandths == 0..1000

(* The ratios of a cluster are thousandths, and there are as many as it has *)
(* runs.                                                                    *)
LEMMA RatiosBounded ==
  ASSUME round.results \in Seq(Result), NEW used
  PROVE  /\ Samples(used) \in Nat
         /\ Ratios(used) \in 0..(1000 * Samples(used))
<1> DEFINE res == round.results
           n == Len(res)
           In(i) == Success(res[i]) /\ res[i].used = used
           I == {i \in 1..n : In(i)}
           r == [i \in 1..n |-> res[i].ratio]
           Right(c) == c = [s \in SUBSET (1..n) |->
                              IF s = {} THEN 0
                              ELSE IF In(Max(s)) THEN c[s \ {Max(s)}] + res[Max(s)].ratio
                                   ELSE c[s \ {Max(s)}]]
<1>1. n \in Nat /\ DOMAIN res = 1..n
  OBVIOUS
<1> DEFINE B == 1000
<1>2. r \in [1..n -> Thousandths] /\ I \in SUBSET (1..n)
  <2>1. ASSUME NEW i \in 1..n PROVE res[i].ratio \in Thousandths
    <3>1. res[i] \in Result
      OBVIOUS
    <3>2. \A x \in Result : x.ratio \in Faithfulness
      BY DEF Result
    <3> HIDE DEF res
    <3>3. res[i].ratio \in Faithfulness
      BY <3>1, <3>2
    <3> QED
      <4>1. Faithfulness \subseteq 0..1000
        BY ArenaAssumption, Zenon
      <4>2. Faithfulness \subseteq Thousandths
        BY <4>1, Zenon DEF Thousandths
      <4> QED
        BY <3>3, <4>2
  <2> HIDE DEF res, n, In
  <2> QED
    BY <2>1
<1>3. Samples(used) = Cardinality(I)
  BY <1>1 DEF Samples
<1>4. Ratios(used) = (CHOOSE c : Right(c))[1..n]
  BY <1>1 DEF Ratios, FoldLeft, MapThenFoldSet
<1>5. ASSUME NEW c PROVE Right(c) <=> Sums(c, n, I, r)
  <2> HIDE DEF n, res, In
  <2>1. \A s \in SUBSET (1..n) :
          s # {} => (Max(s) \in I <=> In(Max(s))) /\ r[Max(s)] = res[Max(s)].ratio
    BY <1>1, GreatestNumber DEF n, res
  <2> HIDE DEF I, r
  <2> QED
    BY <2>1 DEF Sums
<1> DEFINE c == CHOOSE x : Right(x)
<1> HIDE DEF Right, n, I, r
<1>6. Ratios(used) = c[1..n]
  BY <1>4, Zenon
<1>7. B \in Nat /\ r \in [1..n -> 0..B] /\ n \in Nat /\ I \in SUBSET (1..n)
  <2>1. B \in Nat
    OBVIOUS
  <2>2. Thousandths = 0..B
    BY Zenon DEF Thousandths
  <2> HIDE DEF B
  <2> QED
    BY <1>1, <1>2, <2>1, <2>2, Zenon
<1> HIDE DEF B
<1>8. \E x : Sums(x, n, I, r)
  BY <1>7, SumExists
<1>9. Sums(c, n, I, r)
  <2>1. \E x : Right(x)
    BY <1>5, <1>8, Zenon
  <2>2. Right(c)
    BY <2>1, Zenon
  <2> QED
    BY <1>5, <2>2, Zenon
<1> HIDE DEF c
<1>10. Cardinality(I) \in Nat /\ c[1..n] \in 0..(B * Cardinality(I))
  BY <1>7, <1>9, SumsBounded, Zenon
<1>11. Samples(used) \in Nat /\ Ratios(used) \in 0..(B * Samples(used))
  BY <1>3, <1>6, <1>10, Zenon
<1> QED
  BY <1>11 DEF B

LEMMA ConfidenceBounded ==
  ASSUME round.results \in Seq(Result), NEW used
  PROVE  Confidence(used) \in Thousandths
<1> DEFINE n == Samples(used)
           r == Ratios(used)
           a == 2 * r + n + 1
           d == 2 * (n + 1)
<1>1. n \in Nat /\ r \in 0..(1000 * n)
  BY RatiosBounded
<1> HIDE DEF n, r
<1>2. a \in Nat /\ d \in Nat \ {0} /\ a < 1001 * d
  BY <1>1
<1> HIDE DEF a, d
<1>3. a \div d \in Thousandths
  BY <1>2 DEF Thousandths
<1> QED
  BY <1>3, Zenon DEF Confidence, a, d, n, r

(* The clusters are a sequence.                                             *)
LEMMA ClustersInOrder ==
  ASSUME round.results \in Seq(Result)
  PROVE  \E m \in Nat : DOMAIN Clusters = 1..m
<1> DEFINE res == round.results
           n == Len(res)
           U == {res[i].used : i \in 1..n}
           Add(seen, i) ==
             IF /\ Success(res[i]) /\ res[i].used # {} /\ ~Contains(seen, res[i].used)
                /\ Samples(res[i].used) >= MinTrajectories
             THEN Append(seen, res[i].used) ELSE seen
           g == [p \in Seq(U) \X (1..n) |-> Add(p[1], p[2])]
           Right(c) == c = [s \in SUBSET (1..n) |->
                              IF s = {} THEN <<>> ELSE Add(c[s \ {Max(s)}], Max(s))]
<1>1. n \in Nat /\ DOMAIN res = 1..n
  OBVIOUS
<1>2. ASSUME NEW s \in Seq(U), NEW i \in 1..n PROVE Add(s, i) \in Seq(U)
  <2>1. res[i].used \in U
    OBVIOUS
  <2> HIDE DEF U
  <2>2. Append(s, res[i].used) \in Seq(U)
    BY <2>1
  <2> QED
    BY <2>2
<1> HIDE DEF n, U
<1>3. g \in [Seq(U) \X (1..n) -> Seq(U)]
  <2> HIDE DEF Add
  <2> QED
    BY <1>2
<1>4. PICK it \in [SUBSET (1..n) -> Seq(U)] : Folds(it, <<>>, g, n)
  <2>1. <<>> \in Seq(U)
    OBVIOUS
  <2> HIDE DEF g
  <2> QED
    BY <1>1, <1>3, <2>1, FoldExists
<1>5. Right(it)
  <2> SUFFICES ASSUME NEW s \in SUBSET (1..n), s # {}
               PROVE  g[<<it[s \ {Max(s)}], Max(s)>>] = Add(it[s \ {Max(s)}], Max(s))
    BY <1>4 DEF Folds
  <2>1. Max(s) \in 1..n /\ it[s \ {Max(s)}] \in Seq(U)
    BY <1>1, <1>4, GreatestNumber
  <2> HIDE DEF Add
  <2> QED
    BY <2>1
<1> DEFINE c == CHOOSE x : Right(x)
<1>6. Right(c)
  BY <1>5
<1>7. Clusters = c[1..n]
  BY <1>1 DEF Clusters, FoldLeft, MapThenFoldSet
<1> HIDE DEF c, g, Add
<1> DEFINE P == {k \in 0..n : c[1..k] \in Seq(U)}
<1>8. 0 \in P
  <2>1. 1..0 = {} /\ {} \in SUBSET (1..n)
    OBVIOUS
  <2> QED
    BY <1>1, <1>6, <2>1
<1>9. ASSUME NEW k \in 0..(n - 1), k \in P PROVE k + 1 \in P
  <2>1. k + 1 \in 1..n /\ k + 1 \in 0..n /\ (k + 1) - 1 = k
    BY <1>1
  <2>2. /\ 1..(k + 1) \in SUBSET (1..n) /\ 1..(k + 1) # {}
        /\ Max(1..(k + 1)) = k + 1 /\ (1..(k + 1)) \ {k + 1} = 1..k
    BY <1>1, <2>1, FirstNumbers
  <2>3. c[1..(k + 1)] = Add(c[1..k], k + 1)
    BY <1>6, <2>2
  <2> QED
    BY <1>2, <1>9, <2>1, <2>3
<1>10. n \in P
  <2> HIDE DEF P
  <2>1. 0..n \subseteq P
    BY <1>1, <1>8, <1>9, UpTo
  <2> QED
    BY <1>1, <2>1
<1> QED
  BY <1>7, <1>10

(* What the fold of ReadLines gives for the four lines that are rendered.   *)
LEMMA FourLines ==
  ASSUME NEW N, NEW D, NEW O, NEW C, NEW lines, DOMAIN lines = 1..4,
         lines[1] = Line("name", N), lines[2] = Line("description", D),
         lines[3] = Line("origin", O), lines[4] = Line("confidence", C)
  PROVE  LET read == ReadLines(lines)
         IN /\ ~read.bad
            /\ DOMAIN read.data = {"name", "description", "origin", "confidence"}
            /\ read.data["name"] = N /\ read.data["description"] = D
            /\ read.data["origin"] = O /\ read.data["confidence"] = C
<1> DEFINE Key(i) == lines[i].key
           Val(k) == IF k = "name" THEN N ELSE IF k = "description" THEN D
                     ELSE IF k = "origin" THEN O ELSE C
           Data(s) == [k \in {Key(i) : i \in s} |-> Val(k)]
           Read(s) == [data |-> Data(s), metadata |-> <<>>, inside |-> FALSE, bad |-> FALSE]
           it == [s \in SUBSET (1..4) |-> Read(s)]
           Empty == [data |-> <<>>, metadata |-> <<>>, inside |-> FALSE, bad |-> FALSE]
           Right(c) == c = [s \in SUBSET (1..4) |->
                              IF s = {} THEN Empty
                              ELSE ReadLine(c[s \ {Max(s)}], lines[Max(s)])]
<1>1. /\ Key(1) = "name" /\ Key(2) = "description"
      /\ Key(3) = "origin" /\ Key(4) = "confidence"
  BY DEF Line
<1>2. \A i \in 1..4 : /\ Key(i) # NoColon /\ Key(i) # "metadata"
                      /\ lines[i].value = Val(Key(i))
  <2>1. \A i \in 1..4 : i = 1 \/ i = 2 \/ i = 3 \/ i = 4
    OBVIOUS
  <2>2. /\ lines[1].value = N /\ lines[2].value = D
        /\ lines[3].value = O /\ lines[4].value = C
    BY DEF Line
  <2> HIDE DEF Key
  <2>3. /\ lines[1].value = Val(Key(1)) /\ lines[2].value = Val(Key(2))
        /\ lines[3].value = Val(Key(3)) /\ lines[4].value = Val(Key(4))
    BY <1>1, <2>2
  <2> HIDE DEF Val
  <2> QED
    BY <1>1, <2>1, <2>3 DEF NoColon
<1>3. Read({}) = Empty
  <2>1. <<>> = [k \in {} |-> Val(k)]
    OBVIOUS
  <2>2. {Key(i) : i \in {}} = {}
    OBVIOUS
  <2> HIDE DEF Val, Key
  <2> QED
    BY <2>1, <2>2
<1>4. ASSUME NEW s \in SUBSET (1..4), NEW m \in s
      PROVE  Read(s) = ReadLine(Read(s \ {m}), lines[m])
  <2>1. /\ m \in 1..4 /\ Key(m) # NoColon /\ Key(m) # "metadata"
        /\ lines[m].value = Val(Key(m))
    BY <1>2
  <2>2. {Key(i) : i \in s \ {m}} \cup {Key(m)} = {Key(i) : i \in s}
    OBVIOUS
  <2> DEFINE before == Data(s \ {m})
  <2>3. Put(before, Key(m), Val(Key(m))) = Data(s)
    <3> HIDE DEF Key, Val
    <3> QED
      BY <2>2 DEF Put
  <2>4. ReadLine(Read(s \ {m}), lines[m])
          = [Read(s \ {m}) EXCEPT !.inside = FALSE, !.data = Put(@, Key(m), Val(Key(m)))]
    BY <2>1 DEF ReadLine
  <2> HIDE DEF Data, Key, Val
  <2> QED
    BY <2>3, <2>4
<1>5. Right(it)
  <2> HIDE DEF Read, Empty
  <2> SUFFICES ASSUME NEW s \in SUBSET (1..4), s # {}
               PROVE  Read(s) = ReadLine(it[s \ {Max(s)}], lines[Max(s)])
    BY <1>3
  <2>1. Max(s) \in s
    BY GreatestNumber
  <2>2. it[s \ {Max(s)}] = Read(s \ {Max(s)})
    OBVIOUS
  <2> QED
    BY <1>4, <2>1, <2>2
<1> DEFINE c == CHOOSE x : Right(x)
<1>6. Right(c)
  BY <1>5, Zenon
<1>7. ReadLines(lines) = c[1..4]
  BY DEF ReadLines, FoldLeft, MapThenFoldSet
<1> HIDE DEF c, it, Read
<1> DEFINE P == {k \in 0..4 : c[1..k] = Read(1..k)}
<1>8. 0 \in P
  <2>1. 1..0 = {} /\ {} \in SUBSET (1..4)
    OBVIOUS
  <2> HIDE DEF Empty
  <2> QED
    BY <1>3, <1>6, <2>1
<1>9. ASSUME NEW k \in 0..3, k \in P PROVE k + 1 \in P
  <2>1. /\ k + 1 \in 1..4 /\ 1..(k + 1) \in SUBSET (1..4) /\ 1..(k + 1) # {}
        /\ Max(1..(k + 1)) = k + 1 /\ (1..(k + 1)) \ {k + 1} = 1..k /\ k + 1 \in 1..(k + 1)
    <3>1. 4 \in Nat /\ k + 1 \in 1..4 /\ (k + 1) - 1 = k /\ k + 1 \in 1..(k + 1)
      OBVIOUS
    <3>2. /\ 1..(k + 1) \in SUBSET (1..4) /\ 1..(k + 1) # {}
          /\ Max(1..(k + 1)) = k + 1 /\ (1..(k + 1)) \ {k + 1} = 1..((k + 1) - 1)
      BY <3>1, FirstNumbers
    <3> QED
      BY <3>1, <3>2
  <2>2. c[1..(k + 1)] = ReadLine(c[1..k], lines[k + 1])
    <3> DEFINE s == 1..(k + 1)
    <3>1. s \in SUBSET (1..4) /\ s # {} /\ Max(s) = k + 1 /\ s \ {k + 1} = 1..k
      BY <2>1
    <3> HIDE DEF s, Empty
    <3>2. c[s] = ReadLine(c[s \ {Max(s)}], lines[Max(s)])
      BY <1>6, <3>1
    <3> QED
      BY <3>1, <3>2 DEF s
  <2>3. Read(1..(k + 1)) = ReadLine(Read(1..k), lines[k + 1])
    BY <1>4, <2>1
  <2> QED
    BY <1>9, <2>1, <2>2, <2>3
<1>10. 4 \in P
  <2> HIDE DEF P
  <2>1. 1 \in P /\ 2 \in P
    BY <1>8, <1>9
  <2>2. 3 \in P
    BY <2>1, <1>9
  <2> QED
    BY <2>2, <1>9
<1>11. {Key(i) : i \in 1..4} = {"name", "description", "origin", "confidence"}
  <2>1. 1..4 = {1, 2, 3, 4}
    OBVIOUS
  <2> HIDE DEF Key
  <2>2. {Key(i) : i \in {1, 2, 3, 4}} = {Key(1), Key(2), Key(3), Key(4)}
    OBVIOUS
  <2> QED
    BY <1>1, <2>1, <2>2
<1>12. ReadLines(lines) = Read(1..4)
  BY <1>7, <1>10
<1>13. DOMAIN Data(1..4) = {"name", "description", "origin", "confidence"}
  BY <1>11
<1>14. /\ Data(1..4)["name"] = N /\ Data(1..4)["description"] = D
       /\ Data(1..4)["origin"] = O /\ Data(1..4)["confidence"] = C
  BY <1>11
<1> HIDE DEF Data
<1> QED
  BY <1>12, <1>13, <1>14 DEF Read

(* What the extractor renders parses, as the skill of its name whose        *)
(* provenance is the one that goes with it.                                 *)
SkillOK(item) ==
  /\ Parses(item.md)
  /\ Parsed(item.md).name = item.name
  /\ item.provenance = Parsed(item.md).description \o Parsed(item.md).confidence

LEMMA RenderedParses ==
  ASSUME round.results \in Seq(Result), NEW used
  PROVE  SkillOK(Extracted(used))
<1> DEFINE file == Rendered(used)
           N == ClusterName(used)
           D == About(used)
           O == <<"learned">>
           c == Confidence(used)
           C == <<c>>
           lines == SubSeq(file, 2, 5)
           read == ReadLines(lines)
<1>1. c \in Thousandths
  BY ConfidenceBounded
<1>2. /\ Len(file) = 6 /\ file # <<>> /\ Head(file) = file[1]
      /\ file[1] = Line(Fence, Blank) /\ file[6] = Line(Fence, Blank)
      /\ file[2] = Line("name", N) /\ file[3] = Line("description", D)
      /\ file[4] = Line("origin", O) /\ file[5] = Line("confidence", C)
  <2> HIDE DEF N, D, O, C
  <2> QED
    BY DEF Rendered, N, D, O, C
<1>3. /\ IsFence(file[1]) /\ IsFence(file[6])
      /\ ~IsFence(file[2]) /\ ~IsFence(file[3]) /\ ~IsFence(file[4]) /\ ~IsFence(file[5])
  <2> HIDE DEF file, N, D, O, C
  <2> QED
    BY <1>2 DEF IsFence, Line, Fence
<1>4. DOMAIN lines = 1..4 /\ \A i \in 1..4 : lines[i] = file[i + 1]
  <2> HIDE DEF file
  <2> QED
    OBVIOUS
<1>5. /\ lines[1] = Line("name", N) /\ lines[2] = Line("description", D)
      /\ lines[3] = Line("origin", O) /\ lines[4] = Line("confidence", C)
  <2> HIDE DEF file, lines, N, D, O, C
  <2>1. lines[1] = file[1 + 1] /\ lines[2] = file[2 + 1]
        /\ lines[3] = file[3 + 1] /\ lines[4] = file[4 + 1]
    BY <1>4
  <2> QED
    BY <1>2, <2>1
<1>6. FrontMatter(file) = lines
  <2> HIDE DEF file, N, D, O, C
  <2>1. \A i \in 2..6 : i = 2 \/ i = 3 \/ i = 4 \/ i = 5 \/ i = 6
    OBVIOUS
  <2>2. 6 \in 2..6 /\ 6 - 1 = 5 /\ \A i \in 2..5 : i = 2 \/ i = 3 \/ i = 4 \/ i = 5
    OBVIOUS
  <2> DEFINE End(i) == IsFence(file[i]) /\ \A j \in 2..(i - 1) : ~IsFence(file[j])
  <2>3. End(6)
    BY <1>3, <2>2
  <2>4. \A i \in 2..6 : End(i) => i = 6
    <3> HIDE DEF IsFence
    <3> QED
      BY <1>3, <2>1
  <2> HIDE DEF End
  <2>5. (CHOOSE i \in 2..6 : End(i)) = 6
    BY <2>2, <2>3, <2>4
  <2>6. FrontMatter(file) = SubSeq(file, 2, (CHOOSE i \in 2..6 : End(i)) - 1)
    BY <1>2 DEF FrontMatter, End
  <2> QED
    BY <2>2, <2>5, <2>6
<1>7. /\ ~read.bad
      /\ DOMAIN read.data = {"name", "description", "origin", "confidence"}
      /\ read.data["name"] = N /\ read.data["description"] = D
      /\ read.data["origin"] = O /\ read.data["confidence"] = C
  <2> HIDE DEF lines, N, D, O, C
  <2> QED
    BY <1>4, <1>5, FourLines
<1> HIDE DEF read, lines, file, c, N, D
<1>8. OriginOf(read) = O /\ O # Blank /\ O[1] = "learned"
  BY <1>7 DEF OriginOf, Get, Blank
<1>9. ConfidenceOf(read) = C /\ C[1] = c
  BY <1>7 DEF ConfidenceOf
<1>10. FrontMatterOk(read)
  <2> HIDE DEF O, C
  <2>1. C # Blank
    BY DEF C, Blank
  <2> QED
    BY <1>1, <1>7, <1>8, <1>9, <2>1 DEF FrontMatterOk, Origins, Thousandths
<1>11. Closed(file)
  BY <1>2, <1>3 DEF Closed
<1>12. Parses(file)
  BY <1>6, <1>10, <1>11 DEF Parses, read
<1>13. /\ Parsed(file).name = N /\ Parsed(file).description = D
       /\ Parsed(file).confidence = C
  <2> HIDE DEF O, C
  <2> QED
    BY <1>6, <1>7, <1>9 DEF Parsed, read
<1> DEFINE item == Extracted(used)
<1>14. item.name = N /\ item.md = file /\ item.provenance = D \o C
  BY DEF Extracted, N, D, C, c, file
<1> HIDE DEF item, C
<1>15. SkillOK(item)
  BY <1>12, <1>13, <1>14 DEF SkillOK
<1> QED
  BY <1>15 DEF item

-----------------------------------------------------------------------------
(* Rounds.                                                                  *)

RoundFields == {"phase", "results", "extracted", "file"}

Ripe(items) ==
  items \in Seq(Range(items)) /\ \A item \in Range(items) : SkillOK(item)

RoundOK ==
  \/ round = Off
  \/ round = Ready
  \/ Running /\ DOMAIN round = RoundFields /\ round.results \in Seq(Result)
  \/ /\ round.phase = "writing" /\ DOMAIN round = RoundFields
     /\ Ripe(round.extracted)
     /\ round.file \in {"closed", "skill", "skill written", "provenance"}

(* The two files of a folder fit.                                           *)
Fits(name) ==
  /\ Parses(learned[name])
  /\ LET skill == Parsed(learned[name])
     IN /\ skill.name = name
        /\ name \in DOMAIN provenance
        /\ provenance[name] = skill.description \o skill.confidence

(* The item whose files are open, and how far it is.                        *)
Open == Writing /\ round.file # "closed"

HalfWritten ==
  /\ Open => Item.name \in DOMAIN learned
  /\ Open /\ round.file # "skill" => learned[Item.name] = Item.md
  /\ Open /\ round.file = "provenance" => Item.name \in DOMAIN provenance

ShelfOK ==
  /\ IsFiniteSet(DOMAIN learned)
  /\ HalfWritten
  /\ \A name \in DOMAIN learned \ torn : (Open => name # Item.name) => Fits(name)

RegistryOK == round # Off => CuratedKept(registry)

ArenaInv == PlanInv /\ RoundOK /\ ShelfOK /\ RegistryOK

(* The planner in a round.                                                  *)
LEMMA NoPlanKeeps ==
  ASSUME plan' = NoPlan PROVE PlanInv'
BY DEF NoPlan, PlanInv, Searching, PlanIsDag

LEMMA PlanKeeps ==
  ASSUME PlanInv, round.results \in Seq(Result), Plan
  PROVE  PlanInv'
<1>1. CASE BlankQuestion
  <2> DEFINE a == Asking(NoReply)
  <2>1. DOMAIN a = PlanFields /\ a.reply = NoReply
    BY DEF Asking, PlanFields
  <2> HIDE DEF a
  <2>2. plan' = [a EXCEPT !.phase = "raised"]
    BY <1>1 DEF BlankQuestion, a
  <2>3. /\ plan'.phase = "raised" /\ plan'.reply = NoReply /\ DOMAIN plan' = PlanFields
        /\ NoReply.form = "none"
    BY <2>1, <2>2 DEF PlanFields, NoReply
  <2>4. IsReply(NoReply)
    BY DEF IsReply
  <2> QED
    BY <2>3, <2>4 DEF PlanInv, Searching, PlanIsDag
<1>2. CASE \E reply \in Replies[Brief] : AskPlan(reply)
  <2>1. PICK reply \in Replies[Brief] : AskPlan(reply)
    BY <1>2
  <2>2. Brief \in DOMAIN Replies
    <3>1. Len(round.results) \in Nat
      BY LenProperties
    <3>2. Len(Replies) \in Nat /\ DOMAIN Replies = 1..Len(Replies)
      BY ArenaAssumption, LenProperties
    <3>3. Brief <= Len(Replies)
      BY DEF Plan, Briefs
    <3> QED
      BY <3>1, <3>2, <3>3 DEF Brief
  <2>3. IsReply(reply)
    BY <2>1, <2>2, ArenaAssumption
  <2> QED
    BY <2>1, <2>3, AskKeeps
<1>3. CASE PlannerStep
  BY <1>3, SearchFromKeeps, SearchDependencyKeeps, SearchReturnsKeeps, NoCycleKeeps
     DEF PlannerStep
<1> QED
  BY <1>1, <1>2, <1>3 DEF Plan

(* The first item of the rest, and the rest.                                *)
LEMMA RipeParts ==
  ASSUME NEW items, Ripe(items), items # <<>>
  PROVE  SkillOK(Head(items)) /\ Ripe(Tail(items))
<1> DEFINE X == Range(items)
           rest == Tail(items)
<1>1. items \in Seq(X) /\ \A item \in X : SkillOK(item)
  BY DEF Ripe
<1> HIDE DEF X
<1>2. Head(items) \in X /\ rest \in Seq(X)
  BY <1>1, HeadTailProperties
<1> HIDE DEF rest
<1>3. rest \in Seq(Range(rest)) /\ Range(rest) \subseteq X
  <2>1. /\ Len(rest) \in Nat /\ DOMAIN rest = 1..Len(rest)
        /\ rest \in [1..Len(rest) -> X]
    BY <1>2, LenProperties
  <2>2. Range(rest) \subseteq X
    BY <2>1 DEF Range
  <2>3. rest \in [1..Len(rest) -> Range(rest)]
    BY <2>1 DEF Range
  <2> QED
    BY <2>1, <2>2, <2>3, SeqDef
<1> QED
  BY <1>1, <1>2, <1>3 DEF Ripe, rest

(* The round it is in.                                                      *)
LEMMA RoundStarts ==
  ASSUME BeginRound PROVE RoundOK'
<1>1. /\ round'.phase = "running" /\ DOMAIN round' = RoundFields
      /\ round'.results = <<>>
  BY DEF BeginRound, RoundFields
<1>2. round'.results \in Seq(Result')
  BY <1>1
<1> QED
  BY <1>1, <1>2 DEF RoundOK, Running

LEMMA RunIsRecorded ==
  ASSUME RoundOK, NEW ratio \in Faithfulness, NEW used \in SUBSET Names, RunEnds(ratio, used)
  PROVE  RoundOK'
<1>1. Running /\ DOMAIN round = RoundFields /\ round.results \in Seq(Result)
  BY DEF RoundOK, RunEnds, Running, Off, Ready
<1> DEFINE r == [ratio |-> ratio, used |-> used]
<1>2. r \in Result
  BY DEF Result
<1> HIDE DEF r
<1>3. Append(round.results, r) \in Seq(Result)
  BY <1>1, <1>2, AppendProperties
<1>4. round' = [round EXCEPT !.results = Append(@, r)]
  BY DEF RunEnds, r
<1>5. /\ round'.phase = "running" /\ DOMAIN round' = RoundFields
      /\ round'.results = Append(round.results, r)
  BY <1>1, <1>4 DEF RoundFields, Running
<1>6. Result' = Result
  BY DEF RunEnds, Result, Names
<1> QED
  BY <1>3, <1>5, <1>6 DEF RoundOK, Running

LEMMA ItemsAreRipe ==
  ASSUME RoundOK, Extract PROVE RoundOK'
<1>1. Running /\ DOMAIN round = RoundFields /\ round.results \in Seq(Result)
  BY DEF RoundOK, Extract, Running, Off, Ready
<1> DEFINE items == [i \in DOMAIN Clusters |-> Extracted(Clusters[i])]
<1>2. PICK m \in Nat : DOMAIN Clusters = 1..m
  BY <1>1, ClustersInOrder
<1>3. DOMAIN items = 1..m /\ \A i \in 1..m : SkillOK(items[i])
  BY <1>1, <1>2, RenderedParses
<1>4. round' = [round EXCEPT !.phase = "writing", !.file = "closed", !.extracted = items]
  BY DEF Extract
<1>5. items \in [1..m -> Range(items)]
  BY <1>2 DEF Range
<1> HIDE DEF items
<1>6. Ripe(items)
  <2>1. items \in Seq(Range(items))
    BY <1>2, <1>5, SeqDef
  <2> QED
    BY <1>3, <2>1 DEF Ripe, Range
<1>7. /\ round'.phase = "writing" /\ DOMAIN round' = RoundFields
      /\ round'.extracted = items /\ round'.file = "closed"
  BY <1>1, <1>4 DEF RoundFields
<1>8. Ripe(round'.extracted)
  BY <1>6, <1>7
<1> QED
  BY <1>7, <1>8 DEF RoundOK, Ripe, SkillOK

(* The item that is written.                                                *)
LEMMA WritingParts ==
  ASSUME RoundOK, Writing
  PROVE  /\ round.phase = "writing" /\ DOMAIN round = RoundFields
         /\ Ripe(round.extracted) /\ round.extracted # <<>>
         /\ round.file \in {"closed", "skill", "skill written", "provenance"}
         /\ SkillOK(Item)
<1>1. /\ round.phase = "writing" /\ DOMAIN round = RoundFields
      /\ Ripe(round.extracted) /\ round.extracted # <<>>
      /\ round.file \in {"closed", "skill", "skill written", "provenance"}
  <2>1. round.phase = "writing" /\ round.extracted # <<>>
    BY DEF Writing
  <2>2. round # Off /\ round # Ready /\ ~Running
    BY <2>1 DEF Off, Ready, Running
  <2> QED
    BY <2>1, <2>2, Zenon DEF RoundOK
<1> QED
  BY <1>1, RipeParts DEF Item

(* A step that goes on with the same item.                                  *)
LEMMA SameItem ==
  ASSUME RoundOK, Writing, NEW file \in {"skill", "skill written", "provenance"},
         round' = [round EXCEPT !.file = file]
  PROVE  RoundOK' /\ Writing' /\ Open' /\ Item' = Item /\ round'.file = file
<1>1. /\ round.phase = "writing" /\ DOMAIN round = RoundFields
      /\ Ripe(round.extracted) /\ round.extracted # <<>>
  BY WritingParts
<1>2. /\ round'.phase = "writing" /\ DOMAIN round' = RoundFields
      /\ round'.extracted = round.extracted /\ round'.file = file
  BY <1>1 DEF RoundFields
<1>3. Ripe(round'.extracted)
  BY <1>1, <1>2
<1>4. RoundOK'
  BY <1>2, <1>3 DEF RoundOK, Ripe, SkillOK
<1> QED
  BY <1>1, <1>2, <1>4 DEF Writing, Open, Item

LEMMA OpenSkillKeeps ==
  ASSUME RoundOK, ShelfOK, OpenSkill
  PROVE  RoundOK' /\ ShelfOK'
<1>1. /\ Writing /\ round.file = "closed" /\ learned' = Put(learned, Item.name, Truncated)
      /\ round' = [round EXCEPT !.file = "skill"] /\ provenance' = provenance /\ torn' = torn
  BY DEF OpenSkill
<1>2. RoundOK' /\ Writing' /\ Open' /\ Item' = Item /\ round'.file = "skill"
  BY <1>1, SameItem
<1>3. /\ DOMAIN learned' = DOMAIN learned \cup {Item.name}
      /\ \A name \in DOMAIN learned : name # Item.name => learned'[name] = learned[name]
  BY <1>1 DEF Put
<1>4. IsFiniteSet(DOMAIN learned')
  BY <1>3, FS_AddElement DEF ShelfOK
<1>5. HalfWritten'
  BY <1>2, <1>3 DEF HalfWritten
<1>6. ASSUME NEW name \in DOMAIN learned' \ torn', name # Item.name
      PROVE  Fits(name)'
  <2>1. name \in DOMAIN learned \ torn /\ learned'[name] = learned[name]
    BY <1>1, <1>3, <1>6
  <2>2. Fits(name)
    BY <1>1, <2>1 DEF ShelfOK, Open
  <2> QED
    BY <1>1, <2>1, <2>2 DEF Fits
<1> QED
  BY <1>2, <1>4, <1>5, <1>6 DEF ShelfOK

LEMMA WriteSkillKeeps ==
  ASSUME RoundOK, ShelfOK, WriteSkill
  PROVE  RoundOK' /\ ShelfOK'
<1>1. /\ Writing /\ round.file = "skill" /\ learned' = [learned EXCEPT ![Item.name] = Item.md]
      /\ round' = [round EXCEPT !.file = "skill written"]
      /\ provenance' = provenance /\ torn' = torn
  BY DEF WriteSkill
<1>2. RoundOK' /\ Writing' /\ Open' /\ Item' = Item /\ round'.file = "skill written"
  BY <1>1, SameItem
<1>3. Open /\ Item.name \in DOMAIN learned
  BY <1>1 DEF ShelfOK, HalfWritten, Open
<1>4. /\ DOMAIN learned' = DOMAIN learned /\ learned'[Item.name] = Item.md
      /\ \A name \in DOMAIN learned : name # Item.name => learned'[name] = learned[name]
  BY <1>1, <1>3
<1>5. HalfWritten'
  BY <1>2, <1>3, <1>4 DEF HalfWritten
<1>6. ASSUME NEW name \in DOMAIN learned' \ torn', name # Item.name
      PROVE  Fits(name)'
  <2>1. name \in DOMAIN learned \ torn /\ learned'[name] = learned[name]
    BY <1>1, <1>4, <1>6
  <2>2. Fits(name)
    BY <1>6, <2>1 DEF ShelfOK
  <2> QED
    BY <1>1, <2>1, <2>2 DEF Fits
<1> QED
  BY <1>2, <1>4, <1>5, <1>6 DEF ShelfOK

LEMMA OpenProvenanceKeeps ==
  ASSUME RoundOK, ShelfOK, OpenProvenance
  PROVE  RoundOK' /\ ShelfOK'
<1>1. /\ Writing /\ round.file = "skill written"
      /\ provenance' = Put(provenance, Item.name, Truncated)
      /\ round' = [round EXCEPT !.file = "provenance"]
      /\ learned' = learned /\ torn' = torn
  BY DEF OpenProvenance
<1>2. RoundOK' /\ Writing' /\ Open' /\ Item' = Item /\ round'.file = "provenance"
  BY <1>1, SameItem
<1>3. Open /\ Item.name \in DOMAIN learned /\ learned[Item.name] = Item.md
  BY <1>1 DEF ShelfOK, HalfWritten, Open
<1>4. /\ DOMAIN provenance' = DOMAIN provenance \cup {Item.name}
      /\ \A name \in DOMAIN provenance :
           name # Item.name => provenance'[name] = provenance[name]
  BY <1>1 DEF Put
<1>5. HalfWritten'
  BY <1>1, <1>2, <1>3, <1>4 DEF HalfWritten
<1>6. ASSUME NEW name \in DOMAIN learned' \ torn', name # Item.name
      PROVE  Fits(name)'
  <2>1. Fits(name)
    BY <1>1, <1>6 DEF ShelfOK
  <2> QED
    BY <1>1, <1>4, <1>6, <2>1 DEF Fits
<1> QED
  BY <1>1, <1>2, <1>5, <1>6 DEF ShelfOK

LEMMA WriteProvenanceKeeps ==
  ASSUME RoundOK, ShelfOK, WriteProvenance
  PROVE  RoundOK' /\ ShelfOK'
<1>1. /\ Writing /\ round.file = "provenance"
      /\ provenance' = [provenance EXCEPT ![Item.name] = Item.provenance]
      /\ torn' = torn \ {Item.name}
      /\ round' = [round EXCEPT !.file = "closed", !.extracted = Tail(@)]
      /\ learned' = learned
  BY DEF WriteProvenance
<1>2. /\ round.phase = "writing" /\ DOMAIN round = RoundFields
      /\ Ripe(round.extracted) /\ round.extracted # <<>> /\ SkillOK(Item)
  BY <1>1, WritingParts
<1> DEFINE rest == Tail(round.extracted)
<1>3. Ripe(rest)
  BY <1>2, RipeParts
<1> HIDE DEF rest
<1>4. round' = [round EXCEPT !.file = "closed", !.extracted = rest]
  BY <1>1 DEF rest
<1>5. /\ round'.phase = "writing" /\ DOMAIN round' = RoundFields
      /\ round'.extracted = rest /\ round'.file = "closed"
  BY <1>2, <1>4 DEF RoundFields
<1>6. Ripe(round'.extracted)
  BY <1>3, <1>5
<1>7. RoundOK' /\ ~Open'
  BY <1>5, <1>6 DEF RoundOK, Ripe, SkillOK, Open
<1>8. /\ Open /\ Item.name \in DOMAIN learned /\ learned[Item.name] = Item.md
      /\ Item.name \in DOMAIN provenance
  BY <1>1 DEF ShelfOK, HalfWritten, Open
<1>9. /\ DOMAIN provenance' = DOMAIN provenance
      /\ provenance'[Item.name] = Item.provenance
      /\ \A name \in DOMAIN provenance :
           name # Item.name => provenance'[name] = provenance[name]
  BY <1>1, <1>8
<1>10. HalfWritten'
  BY <1>7 DEF HalfWritten
<1>11. ASSUME NEW name \in DOMAIN learned' \ torn' PROVE Fits(name)'
  <2>1. CASE name = Item.name
    BY <1>1, <1>2, <1>8, <1>9, <2>1 DEF Fits, SkillOK
  <2>2. CASE name # Item.name
    <3>1. Fits(name)
      BY <1>1, <1>11, <2>2 DEF ShelfOK
    <3> QED
      BY <1>1, <1>9, <2>2, <3>1 DEF Fits
  <2> QED
    BY <2>1, <2>2
<1> QED
  BY <1>1, <1>7, <1>10, <1>11 DEF ShelfOK

(* Steps that leave the files alone and the item, if one is half written,   *)
(* as torn.                                                                 *)
LEMMA TornIsLeft ==
  ASSUME ShelfOK, UNCHANGED <<learned, provenance>>, ~Open',
         torn' = IF Open THEN torn \cup {Item.name} ELSE torn
  PROVE  ShelfOK'
<1>1. HalfWritten'
  BY DEF HalfWritten
<1>2. ASSUME NEW name \in DOMAIN learned' \ torn' PROVE Fits(name)'
  <2>1. name \in DOMAIN learned \ torn /\ (Open => name # Item.name)
    BY <1>2
  <2>2. Fits(name)
    BY <2>1 DEF ShelfOK
  <2> QED
    BY <2>2 DEF Fits
<1> QED
  BY <1>1, <1>2 DEF ShelfOK

(* What no step of a round takes away.                                      *)
LEMMA NobodyWrites ==
  ASSUME ShelfOK, UNCHANGED <<learned, provenance, torn>>, ~Open, ~Open'
  PROVE  ShelfOK'
BY TornIsLeft

LEMMA ArenaStarts == Init => ArenaInv
<1> SUFFICES ASSUME Init PROVE ArenaInv
  OBVIOUS
<1>1. PlanInv
  BY PlanStarts DEF Init
<1>2. RoundOK /\ RegistryOK
  BY DEF Init, RoundOK, RegistryOK
<1>3. ~Open
  BY DEF Init, Off, Open, Writing
<1>4. DOMAIN learned = {}
  BY DEF Init
<1>5. ShelfOK
  BY <1>3, <1>4, FS_EmptySet DEF ShelfOK, HalfWritten
<1> QED
  BY <1>1, <1>2, <1>5 DEF ArenaInv

LEMMA PlanStays ==
  ASSUME PlanInv, plan' = plan PROVE PlanInv'
BY DEF PlanInv, Searching, SearchOK, PlanIsDag

(* The process starts.                                                      *)
LEMMA StartKeeps ==
  ASSUME ArenaInv, Start PROVE ArenaInv'
<1>1. /\ round = Off /\ round' = Ready /\ registry' = Load(Files).skills
      /\ UNCHANGED <<plan, learned, provenance, torn>>
  BY DEF Start
<1>2. ~Open /\ ~Open'
  BY <1>1 DEF Open, Writing, Off, Ready
<1>3. CuratedKept(registry')
  BY <1>1, LoadKeepsCurated DEF ArenaInv, ShelfOK
<1>4. RegistryOK'
  BY <1>3 DEF RegistryOK, CuratedKept
<1>5. RoundOK'
  BY <1>1 DEF RoundOK, Ready
<1>6. PlanInv'
  BY <1>1, PlanStays DEF ArenaInv
<1> QED
  BY <1>1, <1>2, <1>4, <1>5, <1>6, NobodyWrites DEF ArenaInv

(* A step that ends a round, in the middle or not.                          *)
LEMMA BackToReady ==
  ASSUME ArenaInv, round # Off, round' = Ready, PlanInv',
         UNCHANGED <<learned, provenance, registry>>,
         torn' = IF Open THEN torn \cup {Item.name} ELSE torn
  PROVE  ArenaInv'
<1>1. ~Open'
  BY DEF Open, Writing, Ready
<1>2. RoundOK'
  BY DEF RoundOK, Ready
<1>3. RegistryOK'
  BY DEF ArenaInv, RegistryOK, CuratedKept
<1> QED
  BY <1>1, <1>2, <1>3, TornIsLeft DEF ArenaInv

LEMMA ExitKeeps ==
  ASSUME ArenaInv, Exit PROVE ArenaInv'
<1>1. /\ round' = Off /\ plan' = NoPlan /\ UNCHANGED <<learned, provenance>>
      /\ torn' = IF Open THEN torn \cup {Item.name} ELSE torn
  BY DEF Exit, Open
<1>2. ~Open' /\ RoundOK' /\ RegistryOK'
  BY <1>1 DEF Open, Writing, Off, RoundOK, RegistryOK
<1> QED
  BY <1>1, <1>2, TornIsLeft, NoPlanKeeps DEF ArenaInv

(* A step that leaves the files and the registry alone, of a process that   *)
(* is writing none.                                                         *)
LEMMA NothingWritten ==
  ASSUME ArenaInv, round # Off, ~Open, ~Open', PlanInv', RoundOK',
         UNCHANGED <<learned, provenance, registry, torn>>
  PROVE  ArenaInv'
<1>1. RegistryOK'
  BY DEF ArenaInv, RegistryOK, CuratedKept
<1> QED
  BY <1>1, NobodyWrites DEF ArenaInv

LEMMA ArenaStep ==
  ASSUME ArenaInv, [Next]_vars PROVE ArenaInv'
<1>0. PlanInv /\ RoundOK /\ ShelfOK /\ RegistryOK
  BY DEF ArenaInv
<1>1. CASE Start
  BY <1>1, StartKeeps
<1>2. CASE BeginRound
  <2>1. round = Ready /\ round'.phase = "running" /\ plan' = plan
    BY <1>2 DEF BeginRound
  <2>2. round # Off /\ ~Open /\ ~Open'
    BY <2>1 DEF Open, Writing, Ready, Off
  <2>3. RoundOK' /\ PlanInv'
    BY <1>0, <1>2, <2>1, RoundStarts, PlanStays
  <2>4. UNCHANGED <<learned, provenance, registry, torn>>
    BY <1>2 DEF BeginRound
  <2> QED
    BY <2>2, <2>3, <2>4, NothingWritten
<1>3. CASE Plan
  <2>1. Running /\ UNCHANGED <<learned, provenance, registry, round, torn>>
    BY <1>3 DEF Plan
  <2>2. round # Off /\ ~Open /\ ~Open'
    BY <2>1 DEF Open, Writing, Running, Off
  <2>3. round.results \in Seq(Result)
    BY <1>0, <2>1 DEF RoundOK, Running, Off, Ready
  <2>4. PlanInv'
    BY <1>0, <1>3, <2>3, PlanKeeps
  <2>5. RoundOK'
    BY <1>0, <2>1 DEF RoundOK, Running, Result, Names
  <2> QED
    BY <2>1, <2>2, <2>4, <2>5, NothingWritten
<1>4. CASE \E ratio \in Faithfulness, used \in SUBSET Names : RunEnds(ratio, used)
  <2>1. PICK ratio \in Faithfulness, used \in SUBSET Names : RunEnds(ratio, used)
    BY <1>4
  <2>2. /\ Running /\ plan' = NoPlan /\ UNCHANGED <<learned, provenance, registry, torn>>
        /\ round' = [round EXCEPT !.results = Append(@, [ratio |-> ratio, used |-> used])]
    BY <2>1 DEF RunEnds
  <2>3. RoundOK'
    BY <1>0, <2>1, RunIsRecorded
  <2>4. round # Off /\ ~Open /\ ~Open'
    BY <2>2 DEF Open, Writing, Running, Off
  <2>5. PlanInv'
    BY <2>2, NoPlanKeeps
  <2> QED
    BY <2>2, <2>3, <2>4, <2>5, NothingWritten
<1>5. CASE Extract
  <2>1. /\ Running /\ plan' = plan /\ UNCHANGED <<learned, provenance, registry, torn>>
    BY <1>5 DEF Extract
  <2>2. RoundOK'
    BY <1>0, <1>5, ItemsAreRipe
  <2>3. DOMAIN round = RoundFields
    BY <1>0, <2>1 DEF RoundOK, Running, Off, Ready
  <2>4. round'.file = "closed"
    BY <1>5, <2>3 DEF Extract, RoundFields
  <2>5. round # Off /\ ~Open /\ ~Open'
    BY <2>1, <2>4 DEF Open, Writing, Running, Off
  <2> QED
    BY <1>0, <2>1, <2>2, <2>5, NothingWritten, PlanStays
<1>6. CASE OpenSkill \/ WriteSkill \/ OpenProvenance \/ WriteProvenance
  <2>1. Writing /\ plan' = plan /\ registry' = registry
    BY <1>6 DEF OpenSkill, WriteSkill, OpenProvenance, WriteProvenance
  <2>2. RoundOK' /\ ShelfOK'
    BY <1>0, <1>6, OpenSkillKeeps, WriteSkillKeeps, OpenProvenanceKeeps, WriteProvenanceKeeps
  <2>3. round # Off
    BY <2>1 DEF Writing, Off
  <2>4. RegistryOK'
    BY <1>0, <2>1, <2>3 DEF RegistryOK, CuratedKept
  <2> QED
    BY <1>0, <2>1, <2>2, <2>4, PlanStays DEF ArenaInv
<1>7. CASE RoundRaises \/ DiagnosisRaises
  <2>1. /\ Running /\ round' = Ready /\ (plan' = plan \/ plan' = NoPlan)
        /\ UNCHANGED <<learned, provenance, registry, torn>>
    BY <1>7 DEF RoundRaises, DiagnosisRaises
  <2>2. round # Off /\ ~Open
    BY <2>1 DEF Open, Writing, Running, Off
  <2>3. PlanInv'
    BY <1>0, <2>1, PlanStays, NoPlanKeeps
  <2> QED
    BY <2>1, <2>2, <2>3, BackToReady
<1>8. CASE RoundEnds
  <2>1. /\ round.phase = "writing" /\ ~Writing /\ round' = Ready /\ plan' = plan
        /\ UNCHANGED <<learned, provenance, registry, torn>>
    BY <1>8 DEF RoundEnds, Writing
  <2>2. round # Off /\ ~Open
    BY <2>1 DEF Open, Off
  <2> QED
    BY <1>0, <2>1, <2>2, BackToReady, PlanStays
<1>9. CASE WriteRaises
  <2>1. /\ Writing /\ round' = Ready /\ plan' = plan
        /\ UNCHANGED <<learned, provenance, registry>>
        /\ torn' = IF Open THEN torn \cup {Item.name} ELSE torn
    BY <1>9 DEF WriteRaises, Open
  <2>2. round # Off
    BY <2>1 DEF Writing, Off
  <2> QED
    BY <1>0, <2>1, <2>2, BackToReady, PlanStays
<1>10. CASE Exit
  BY <1>10, ExitKeeps
<1>11. CASE UNCHANGED vars
  <2>1. UNCHANGED <<plan, learned, provenance, registry, round, torn>>
    BY <1>11 DEF vars
  <2>2. PlanInv'
    BY <1>0, <2>1, PlanStays
  <2>3. RoundOK'
    BY <1>0, <2>1 DEF RoundOK, Running, Result, Names
  <2>4. ShelfOK'
    BY <1>0, <2>1 DEF ShelfOK, HalfWritten, Open, Writing, Item, Fits
  <2>5. RegistryOK'
    BY <1>0, <2>1 DEF RegistryOK, CuratedKept
  <2> QED
    BY <2>2, <2>3, <2>4, <2>5 DEF ArenaInv
<1> QED
  BY <1>1, <1>2, <1>3, <1>4, <1>5, <1>6, <1>7, <1>8, <1>9, <1>10, <1>11 DEF Next, Step

THEOREM ArenaCorrect == Spec => []ArenaInv
BY ArenaStarts, ArenaStep, PTL DEF Spec

(* Whatever a model answers, what the scheduler is given is a DAG with the  *)
(* nodes of the reply if these are one, and the canonical plan if not.      *)
THEOREM PlansAreDags == Spec => []PlanIsDag
<1>1. ArenaInv => PlanIsDag
  BY DEF ArenaInv, PlanInv
<1> QED
  BY <1>1, ArenaCorrect, PTL

(* A process that starts has the first usable skill of each name, whatever  *)
(* state the files were left in, and keeps the curated ones.                *)
THEOREM RegistryIsFirst == Spec => []RegistryIsFirstUsable
<1>1. ArenaInv => RegistryIsFirstUsable
  <2> SUFFICES ASSUME ArenaInv PROVE RegistryIsFirstUsable
    OBVIOUS
  <2>1. FirstUsable(Files, Load(Files).skills)
    BY LoadKeepsCurated DEF ArenaInv, ShelfOK
  <2>2. round = Ready => round # Off
    BY DEF Ready, Off
  <2>3. round = Ready => CuratedKept(registry)
    BY <2>2 DEF ArenaInv, RegistryOK
  <2> QED
    BY <2>1, <2>3 DEF RegistryIsFirstUsable, CuratedKept
<1> QED
  BY <1>1, ArenaCorrect, PTL

(* The provenance of a learned skill is that of its text, but for folders   *)
(* that a crash or an error left between the two.                           *)
THEOREM ProvenanceFits == Spec => []ProvenanceMatches
<1>1. ArenaInv => ProvenanceMatches
  <2> SUFFICES ASSUME ArenaInv, NEW name \in DOMAIN learned \ torn,
                      Writing => name # Item.name
               PROVE  Fits(name)
    BY DEF ProvenanceMatches, Fits
  <2>1. Open => name # Item.name
    BY DEF Open
  <2> QED
    BY <2>1 DEF ArenaInv, ShelfOK
<1> QED
  BY <1>1, ArenaCorrect, PTL
=============================================================================
