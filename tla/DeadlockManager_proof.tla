----------------------- MODULE DeadlockManager_proof ------------------------
(***************************************************************************)
(* Proofs about DeadlockManager, for any set of requests: the depth-first  *)
(* search is exact and linear, in whatever order it meets nodes and        *)
(* neighbours, so a call of recover answers what is true, and it evicts    *)
(* only from a cycle.                                                      *)
(***************************************************************************)
EXTENDS DeadlockManager, WellFoundedInduction, FiniteSetTheorems, TLAPS

(* A set of natural numbers that is not empty has a least one: the least   *)
(* number principle stands in for induction over the length of a walk.     *)
LEMMA LeastNat ==
  ASSUME NEW T \in SUBSET Nat, T # {}
  PROVE  \E x \in T : \A y \in T : x <= y
<1> DEFINE R == OpToRel(<, Nat)
<1>1. IsWellFoundedOn(R, Nat)
  BY NatLessThanWellFounded
<1>2. PICK x \in T : \A y \in T : <<y, x>> \notin R
  <2> HIDE DEF R
  <2> QED  BY <1>1, WFMin
<1>3. \A y \in T : <<y, x>> \notin R => ~ y < x
  BY DEF OpToRel
<1>4. \A y \in T : ~ y < x
  <2> HIDE DEF R
  <2> QED  BY <1>2, <1>3
<1>5. \A y \in T : x \in Nat /\ y \in Nat
  OBVIOUS
<1>6. \A y \in T : x <= y
  <2> HIDE DEF R
  <2> QED  BY <1>4, <1>5
<1> QED  BY <1>6, Zenon

NoDanglingWait == \A n \in DOMAIN edges : edges[n] \subseteq DOMAIN edges

(* The grey nodes are the calls of dfs that run; each was called by the one  *)
(* below it, its parent, which waits for it.  So a wait for a grey node      *)
(* closes a cycle, and the walk along parent ends.                           *)
SearchPath ==
  /\ \A n \in DOMAIN colour : colour[n] = "grey" <=> n \in Range(stack)
  /\ IsInjective(stack)
  /\ \A i \in 1 .. Len(stack) - 1 :
       /\ stack[i + 1] \in edges[stack[i]]
       /\ parent[stack[i + 1]] = stack[i]

(* What the search knows: an unvisited node has all its neighbours left, a   *)
(* finished one has only finished neighbours, and the neighbours that a      *)
(* running dfs has looked at are finished, but for the one it has called.    *)
Explored ==
  /\ \A n \in DOMAIN colour :
       /\ left[n] \subseteq edges[n]
       /\ colour[n] = "white" => left[n] = edges[n]
       /\ colour[n] = "black" => \A m \in edges[n] : colour[m] = "black"
  /\ \A i \in 1 .. Len(stack) : \A m \in edges[stack[i]] \ left[stack[i]] :
       colour[m] = "black" \/ (i < Len(stack) /\ m = stack[i + 1])

Black == {n \in DOMAIN colour : colour[n] = "black"}

FinishedAcyclic == \A S \in SUBSET Black : ~Deadlock(edges, S)

NoAnswerYet == phase # "idle" => answer = None

DInv ==
  /\ TypeOK /\ NoDanglingWait /\ SearchPath
  /\ Explored /\ FinishedAcyclic
  /\ NoAnswerYet /\ AnswerHonest

-----------------------------------------------------------------------------
(* The walk along parent retraces the calls of dfs: two functions that both *)
(* follow parent from the innermost node cannot differ at a first place.    *)
LEMMA CallersAreStack ==
  ASSUME SearchPath, stack # <<>>, stack \in Seq(Nodes)
  PROVE  Callers = [k \in 0 .. Len(stack) - 1 |-> stack[Len(stack) - k]]
<1> DEFINE K == 0 .. Len(stack) - 1
           Follows(f) == f = [k \in K |-> IF k = 0 THEN Top ELSE parent[f[k - 1]]]
           calls == [k \in K |-> stack[Len(stack) - k]]
<1>1. Len(stack) \in Nat \ {0}
  OBVIOUS
<1>2. Callers = CHOOSE f : Follows(f)
  BY DEF Callers
<1>3. Follows(calls)
  <2>1. ASSUME NEW k \in K
        PROVE  calls[k] = IF k = 0 THEN Top ELSE parent[calls[k - 1]]
    <3>1. CASE k = 0
      BY <1>1, <3>1 DEF Top
    <3>2. CASE k # 0
      <4>1. k - 1 \in K /\ Len(stack) - k \in 1 .. Len(stack) - 1
        BY <1>1, <3>2
      <4>2. parent[stack[Len(stack) - k + 1]] = stack[Len(stack) - k]
        BY <4>1 DEF SearchPath
      <4>3. calls[k - 1] = stack[Len(stack) - k + 1]
        BY <4>1, <1>1
      <4> QED  BY <3>2, <4>2, <4>3
    <3> QED  BY <3>1, <3>2
  <2> QED  BY <2>1
<1>4. Follows(Callers)
  <2> HIDE DEF Follows, calls
  <2> QED  BY <1>2, <1>3
<1>5. ASSUME NEW k \in K, Callers[k] # calls[k]
      PROVE  FALSE
  <2> DEFINE Differ == {j \in K : Callers[j] # calls[j]}
  <2>1. PICK j \in Differ : \A i \in Differ : j <= i
    <3>1. k \in Differ
      <4> HIDE DEF calls
      <4> QED  BY <1>5
    <3>2. Differ \in SUBSET Nat
      BY <1>1
    <3> HIDE DEF Differ
    <3> QED  BY <3>1, <3>2, LeastNat
  <2>2. CASE j = 0
    BY <2>1, <2>2, <1>3, <1>4
  <2>3. CASE j # 0
    <3>1. j - 1 \in K /\ j - 1 \notin Differ
      BY <1>1, <2>1, <2>3
    <3>2. Callers[j - 1] = calls[j - 1]
      BY <3>1
    <3>3. Callers[j] = parent[Callers[j - 1]] /\ calls[j] = parent[calls[j - 1]]
      BY <1>3, <1>4, <2>1, <2>3
    <3> QED  BY <2>1, <3>2, <3>3
  <2> QED  BY <2>2, <2>3
<1> QED  BY <1>4, <1>5

-----------------------------------------------------------------------------
(* The types of the variables while a search runs, and while none does. *)
LEMMA SearchTypes ==
  ASSUME TypeOK, Searching
  PROVE  /\ phase \in {"detect", "verify"}
         /\ DOMAIN colour = DOMAIN edges
         /\ DOMAIN edges \subseteq Nodes
         /\ colour \in [DOMAIN edges -> {"white", "grey", "black"}]
         /\ parent \in [DOMAIN edges -> Nodes \cup {None}]
         /\ left \in [DOMAIN edges -> SUBSET Nodes]
         /\ stack \in Seq(DOMAIN edges)
         /\ stack \in Seq(Nodes)
BY DEF TypeOK, Searching

LEMMA IdleTypes ==
  ASSUME TypeOK, phase = "idle"
  PROVE  DOMAIN colour = {} /\ stack = <<>>
BY DEF TypeOK

(* What the first and the last lines of find_cycle leave. *)
SearchInv == SearchPath /\ Explored /\ FinishedAcyclic

LEMMA BegunSearch ==
  ASSUME NEW g, NEW p, BeginSearch(g, p), edges' = g
  PROVE  SearchInv'
<1>1. /\ DOMAIN colour' = DOMAIN g
      /\ \A n \in DOMAIN g : colour'[n] = "white" /\ left'[n] = edges'[n]
      /\ stack' = <<>>
  BY DEF BeginSearch
<1>2. SearchPath'
  BY <1>1 DEF SearchPath, Range, IsInjective
<1>3. Explored'
  BY <1>1 DEF Explored
<1>4. FinishedAcyclic'
  BY <1>1 DEF FinishedAcyclic, Black, Deadlock
<1> QED  BY <1>2, <1>3, <1>4 DEF SearchInv

LEMMA NoSearchHolds ==
  ASSUME DOMAIN colour = {}, stack = <<>>
  PROVE  SearchInv
BY DEF SearchInv, SearchPath, Explored, FinishedAcyclic, Black, Deadlock, Range, IsInjective

(* The end of the sequence of calls. *)
LEMMA TopOfStack ==
  ASSUME TypeOK, SearchPath, Searching, stack # <<>>
  PROVE  /\ Len(stack) \in Nat \ {0}
         /\ Top = stack[Len(stack)]
         /\ Top \in DOMAIN edges
         /\ colour[Top] = "grey"
         /\ \A i \in 1 .. Len(stack) : stack[i] \in DOMAIN edges /\ colour[stack[i]] = "grey"
         /\ \A n \in DOMAIN edges : colour[n] = "grey" => \E i \in 1 .. Len(stack) : stack[i] = n
         /\ \A i, j \in 1 .. Len(stack) : stack[i] = stack[j] => i = j
<1>1. stack \in Seq(DOMAIN edges) /\ DOMAIN colour = DOMAIN edges
  BY SearchTypes
<1>2. Len(stack) \in Nat \ {0} /\ DOMAIN stack = 1 .. Len(stack)
  BY <1>1
<1>3. \A i \in 1 .. Len(stack) : stack[i] \in DOMAIN edges /\ stack[i] \in Range(stack)
  BY <1>1, <1>2 DEF Range
<1>4. \A i \in 1 .. Len(stack) : colour[stack[i]] = "grey"
  BY <1>1, <1>3 DEF SearchPath
<1>5. \A n \in DOMAIN edges : colour[n] = "grey" => \E i \in 1 .. Len(stack) : stack[i] = n
  BY <1>1, <1>2 DEF SearchPath, Range
<1>6. \A i, j \in 1 .. Len(stack) : stack[i] = stack[j] => i = j
  BY <1>2 DEF SearchPath, IsInjective
<1> QED  BY <1>2, <1>3, <1>4, <1>5, <1>6 DEF Top

(* A wait of the innermost node for a grey node closes a simple cycle, and   *)
(* find_cycle returns it in the order of its waits.                          *)
LEMMA CycleFound ==
  ASSUME DInv, NEW m, BackEdge(m)
  PROVE  /\ CycleTo(m) \in Seq(DOMAIN edges)
         /\ CycleTo(m) # <<>>
         /\ IsCycle(edges, CycleTo(m))
         /\ Deadlock(edges, Range(CycleTo(m)))
<1> DEFINE L == Len(stack)
           c == CycleTo(m)
<1>1. TypeOK /\ SearchPath /\ Searching /\ stack # <<>> /\ stack \in Seq(Nodes)
  BY SearchTypes DEF DInv, BackEdge, LooksAt
<1>2. m \in DOMAIN edges /\ m \in edges[Top] /\ colour[m] = "grey"
  <2>1. Top \in DOMAIN edges /\ DOMAIN colour = DOMAIN edges
    BY <1>1, TopOfStack, SearchTypes
  <2>2. m \in edges[Top]
    BY <2>1 DEF DInv, BackEdge, LooksAt, Explored
  <2> QED  BY <2>1, <2>2 DEF DInv, NoDanglingWait, BackEdge
<1>3. PICK j \in 1 .. L : stack[j] = m
  BY <1>1, <1>2, TopOfStack
<1>4. L \in Nat \ {0}
  BY <1>1, TopOfStack
<1>5. Callers = [k \in 0 .. L - 1 |-> stack[L - k]]
  BY <1>1, CallersAreStack
<1>6. StepsTo(m) = L - j
  <2>1. L - j \in DOMAIN Callers /\ Callers[L - j] = m
    BY <1>3, <1>4, <1>5
  <2>2. \A k \in DOMAIN Callers : Callers[k] = m => k = L - j
    <3> TAKE k \in DOMAIN Callers
    <3> HAVE Callers[k] = m
    <3>1. k \in 0 .. L - 1 /\ stack[L - k] = stack[j]
      BY <1>3, <1>5
    <3>2. L - k = j
      BY <1>1, <1>3, <1>4, <3>1, TopOfStack
    <3> QED  BY <1>3, <1>4, <3>1, <3>2
  <2> QED  BY <2>1, <2>2 DEF StepsTo
<1>7. c = [i \in 1 .. L - j + 1 |-> IF i <= L - j THEN stack[j + i] ELSE stack[j]]
  <2>1. \A i \in 1 .. L - j : Callers[L - j - i] = stack[j + i]
    BY <1>3, <1>4, <1>5
  <2> QED  BY <1>3, <1>4, <1>6, <2>1 DEF CycleTo
<1>8. c \in Seq(DOMAIN edges) /\ Len(c) = L - j + 1
  <2>1. \A i \in 1 .. L - j + 1 : c[i] \in DOMAIN edges
    BY <1>1, <1>3, <1>4, <1>7, TopOfStack
  <2> QED  BY <1>3, <1>4, <1>7, <2>1
<1> HIDE DEF c
<1>9. /\ \A i \in 1 .. L - j : c[i] = stack[j + i] /\ j + i \in 1 .. L
      /\ c[L - j + 1] = stack[j]
  BY <1>3, <1>4, <1>7
<1>10. \A i \in 1 .. L - j : c[i + 1] \in edges[c[i]]
  <2> TAKE i \in 1 .. L - j
  <2>1. CASE i < L - j
    <3>1. stack[j + i + 1] \in edges[stack[j + i]]
      BY <1>1, <1>3, <1>4, <2>1 DEF SearchPath
    <3> QED  BY <1>3, <1>4, <1>9, <2>1, <3>1
  <2>2. CASE i = L - j
    BY <1>1, <1>2, <1>3, <1>4, <1>9, <2>2, TopOfStack
  <2> QED  BY <1>3, <1>4, <2>1, <2>2
<1>11. c[1] \in edges[c[Len(c)]]
  <2>1. CASE j = L
    BY <1>1, <1>2, <1>3, <1>4, <1>8, <1>9, <2>1, TopOfStack
  <2>2. CASE j # L
    <3>1. stack[j + 1] \in edges[stack[j]]
      BY <1>1, <1>3, <1>4, <2>2 DEF SearchPath
    <3> QED  BY <1>3, <1>4, <1>8, <1>9, <2>2, <3>1
  <2> QED  BY <2>1, <2>2
<1>12. IsInjective(c)
  <2>1. DOMAIN c = 1 .. L - j + 1
    BY <1>7
  <2>2. ASSUME NEW a \in 1 .. L - j + 1, NEW b \in 1 .. L - j + 1, c[a] = c[b]
        PROVE  a = b
    <3>1. \A i \in 1 .. L - j + 1 :
            \E p \in 1 .. L : c[i] = stack[p] /\ (IF i <= L - j THEN p = j + i ELSE p = j)
      <4> TAKE i \in 1 .. L - j + 1
      <4>1. CASE i <= L - j
        BY <1>3, <1>4, <1>9, <4>1
      <4>2. CASE ~ i <= L - j
        BY <1>3, <1>4, <1>9, <4>2
      <4> QED  BY <4>1, <4>2
    <3>2. PICK p \in 1 .. L : c[a] = stack[p] /\ (IF a <= L - j THEN p = j + a ELSE p = j)
      BY <3>1
    <3>3. PICK q \in 1 .. L : c[b] = stack[q] /\ (IF b <= L - j THEN q = j + b ELSE q = j)
      BY <3>1
    <3>4. p = q
      BY <1>1, <2>2, <3>2, <3>3, TopOfStack
    <3> QED  BY <1>3, <1>4, <3>2, <3>3, <3>4
  <2> QED  BY <2>1, <2>2 DEF IsInjective
<1>13. Deadlock(edges, Range(c))
  <2>1. Len(c) = L - j + 1 /\ DOMAIN c = 1 .. Len(c) /\ Len(c) \in Nat \ {0}
    BY <1>3, <1>4, <1>7, <1>8
  <2>2. Range(c) # {}
    <3>1. 1 \in DOMAIN c
      BY <2>1
    <3> QED  BY <3>1 DEF Range
  <2>3. ASSUME NEW i \in 1 .. Len(c)
        PROVE  edges[c[i]] \cap Range(c) # {}
    <3>1. \A k \in 1 .. Len(c) : c[k] \in Range(c)
      BY <2>1 DEF Range
    <3>2. CASE i = Len(c)
      BY <1>11, <2>1, <3>1, <3>2
    <3>3. CASE i # Len(c)
      <4>1. i \in 1 .. L - j /\ i + 1 \in 1 .. Len(c)
        BY <1>3, <1>4, <2>1, <3>3
      <4> QED  BY <1>10, <3>1, <4>1
    <3> QED  BY <3>2, <3>3
  <2>4. \A n \in Range(c) : \E i \in 1 .. Len(c) : c[i] = n
    BY <2>1 DEF Range
  <2> QED  BY <2>2, <2>3, <2>4 DEF Deadlock
<1>14. c # <<>>
  BY <1>3, <1>4, <1>8
<1>15. IsCycle(edges, c)
  BY <1>3, <1>4, <1>8, <1>10, <1>11, <1>12 DEF IsCycle
<1> QED  BY <1>8, <1>13, <1>14, <1>15 DEF c

-----------------------------------------------------------------------------
(* The steps of a search that goes on preserve what it knows. *)
LEMMA VisitRootStep ==
  ASSUME DInv, NEW n \in DOMAIN colour, VisitRoot(n)
  PROVE  TypeOK' /\ SearchInv'
<1>1. TypeOK /\ Searching /\ stack = <<>> /\ n \in DOMAIN edges /\ colour[n] = "white"
  BY SearchTypes DEF DInv, VisitRoot
<1>2. /\ DOMAIN colour = DOMAIN edges /\ DOMAIN colour' = DOMAIN edges
      /\ colour'[n] = "grey"
      /\ \A k \in DOMAIN edges \ {n} : colour'[k] = colour[k] /\ colour[k] # "grey"
  <2>1. \A k \in DOMAIN edges : colour[k] # "grey"
    BY <1>1, SearchTypes DEF DInv, SearchPath, Range
  <2> QED  BY <1>1, <2>1, SearchTypes DEF VisitRoot
<1>3. stack' = <<n>> /\ Len(stack') = 1 /\ stack'[1] = n /\ edges' = edges /\ left' = left
  BY DEF VisitRoot, graph
<1>4. TypeOK'
  BY <1>1, SearchTypes DEF TypeOK, VisitRoot, graph, Searching
<1>5. SearchPath'
  <2>1. Range(stack') = {n}
    BY <1>3 DEF Range
  <2> QED  BY <1>2, <1>3, <2>1 DEF SearchPath, IsInjective
<1>6. Explored'
  <2>1. ASSUME NEW k \in DOMAIN edges
        PROVE  /\ left'[k] \subseteq edges'[k]
               /\ colour'[k] = "white" => left'[k] = edges'[k]
               /\ colour'[k] = "black" => \A x \in edges'[k] : colour'[x] = "black"
    <3>1. left[k] \subseteq edges[k] /\ (colour[k] = "white" => left[k] = edges[k])
      BY <1>2 DEF DInv, Explored
    <3>2. colour[k] = "black" => \A x \in edges[k] : colour[x] = "black" /\ x \in DOMAIN edges
      BY <1>2 DEF DInv, Explored, NoDanglingWait
    <3> QED  BY <1>1, <1>2, <1>3, <3>1, <3>2
  <2>2. edges'[n] \ left'[n] = {}
    BY <1>1, <1>2, <1>3 DEF DInv, Explored
  <2> QED  BY <1>2, <1>3, <2>1, <2>2 DEF Explored
<1>7. FinishedAcyclic'
  <2>1. Black' = Black
    BY <1>1, <1>2 DEF Black
  <2> QED  BY <1>3, <2>1 DEF DInv, FinishedAcyclic, Deadlock
<1> QED  BY <1>4, <1>5, <1>6, <1>7 DEF SearchInv

LEMMA DescendStep ==
  ASSUME DInv, NEW m \in DOMAIN colour, Descend(m)
  PROVE  TypeOK' /\ SearchInv'
<1> DEFINE L == Len(stack)
<1>1. /\ TypeOK /\ SearchPath /\ Searching /\ stack # <<>>
      /\ m \in DOMAIN edges /\ colour[m] = "white" /\ m \in left[Top]
  BY SearchTypes DEF DInv, Descend, LooksAt
<1>2. /\ L \in Nat \ {0} /\ Top = stack[L] /\ Top \in DOMAIN edges /\ Top # m
      /\ m \in edges[Top]
      /\ \A i \in 1 .. L : stack[i] \in DOMAIN edges /\ stack[i] # m
  <2>1. m \in edges[Top]
    BY <1>1, TopOfStack, SearchTypes DEF DInv, Explored
  <2> QED  BY <1>1, <2>1, TopOfStack
<1>3. /\ DOMAIN colour = DOMAIN edges /\ DOMAIN colour' = DOMAIN edges
      /\ colour'[m] = "grey"
      /\ \A k \in DOMAIN edges \ {m} : colour'[k] = colour[k]
      /\ left'[Top] = left[Top] \ {m}
      /\ \A k \in DOMAIN edges \ {Top} : left'[k] = left[k]
      /\ parent'[m] = Top
      /\ \A k \in DOMAIN edges \ {m} : parent'[k] = parent[k]
      /\ edges' = edges
  BY <1>1, <1>2, SearchTypes DEF Descend, graph
<1>4. /\ stack' \in Seq(DOMAIN edges)
      /\ Len(stack') = L + 1
      /\ \A i \in 1 .. L : stack'[i] = stack[i]
      /\ stack'[L + 1] = m
  BY <1>1, SearchTypes DEF Descend
<1>5. TypeOK'
  <2>1. colour' \in [DOMAIN edges -> {"white", "grey", "black"}]
    BY <1>1, SearchTypes DEF Descend
  <2>2. parent' \in [DOMAIN edges -> Nodes \cup {None}]
    BY <1>1, <1>2, SearchTypes DEF Descend
  <2>3. left' \in [DOMAIN edges -> SUBSET Nodes]
    BY <1>1, <1>2, SearchTypes DEF Descend
  <2> QED  BY <1>1, <1>4, <2>1, <2>2, <2>3 DEF TypeOK, Descend, graph, Searching
<1>6. SearchPath'
  <2>1. ASSUME NEW k \in DOMAIN edges
        PROVE  colour'[k] = "grey" <=> \E i \in 1 .. L + 1 : stack'[i] = k
    <3>1. CASE k = m
      BY <1>2, <1>3, <1>4, <3>1
    <3>2. CASE k # m
      BY <1>1, <1>2, <1>3, <1>4, <3>2, TopOfStack
    <3> QED  BY <3>1, <3>2
  <2>2. DOMAIN stack' = 1 .. L + 1
    BY <1>2, <1>4
  <2>3. \A k \in DOMAIN colour' : colour'[k] = "grey" <=> k \in Range(stack')
    BY <1>3, <2>1, <2>2 DEF Range
  <2>4. IsInjective(stack')
    <3>1. ASSUME NEW a \in 1 .. L + 1, NEW b \in 1 .. L + 1, stack'[a] = stack'[b]
          PROVE  a = b
      <4>1. CASE a \in 1 .. L /\ b \in 1 .. L
        BY <1>1, <1>4, <3>1, <4>1, TopOfStack
      <4>2. CASE a = L + 1 \/ b = L + 1
        BY <1>2, <1>4, <3>1, <4>2
      <4> QED  BY <1>2, <4>1, <4>2
    <3> QED  BY <2>2, <3>1 DEF IsInjective
  <2>5. ASSUME NEW i \in 1 .. L
        PROVE  stack'[i + 1] \in edges'[stack'[i]] /\ parent'[stack'[i + 1]] = stack'[i]
    <3>1. CASE i = L
      BY <1>2, <1>3, <1>4, <3>1
    <3>2. CASE i # L
      <4>1. i \in 1 .. L - 1 /\ i + 1 \in 1 .. L
        BY <1>2, <3>2
      <4>2. stack[i + 1] \in edges[stack[i]] /\ parent[stack[i + 1]] = stack[i]
        BY <4>1 DEF DInv, SearchPath
      <4> QED  BY <1>2, <1>3, <1>4, <4>1, <4>2
    <3> QED  BY <3>1, <3>2
  <2> QED  BY <1>2, <1>4, <2>3, <2>4, <2>5 DEF SearchPath
<1>7. Explored'
  <2>1. ASSUME NEW k \in DOMAIN edges
        PROVE  /\ left'[k] \subseteq edges'[k]
               /\ colour'[k] = "white" => left'[k] = edges'[k]
               /\ colour'[k] = "black" => \A x \in edges'[k] : colour'[x] = "black"
    <3>1. left[k] \subseteq edges[k] /\ (colour[k] = "white" => left[k] = edges[k])
      BY <1>3 DEF DInv, Explored
    <3>2. colour[Top] = "grey"
      BY <1>1, TopOfStack
    <3>3. colour[k] = "black" => \A x \in edges[k] : colour[x] = "black" /\ x \in DOMAIN edges
      BY <1>3 DEF DInv, Explored, NoDanglingWait
    <3> QED  BY <1>1, <1>2, <1>3, <3>1, <3>2, <3>3
  <2>2. ASSUME NEW i \in 1 .. L + 1, NEW x \in edges'[stack'[i]] \ left'[stack'[i]]
        PROVE  colour'[x] = "black" \/ (i < L + 1 /\ x = stack'[i + 1])
    <3>1. CASE i = L + 1
      BY <1>1, <1>2, <1>3, <1>4, <3>1 DEF DInv, Explored
    <3>2. CASE i = L
      <4>1. x \in edges[Top] /\ (x = m \/ x \notin left[Top]) /\ x \in DOMAIN edges
        BY <1>2, <1>3, <1>4, <3>2 DEF DInv, NoDanglingWait
      <4>2. CASE x = m
        BY <1>2, <1>4, <3>2, <4>2
      <4>3. CASE x # m
        <5>1. colour[x] = "black"
          BY <1>2, <4>1, <4>3 DEF DInv, Explored
        <5> QED  BY <1>3, <4>1, <4>3, <5>1
      <4> QED  BY <4>2, <4>3
    <3>3. CASE i \in 1 .. L - 1
      <4>1. i \in 1 .. L /\ i + 1 \in 1 .. L /\ i # L
        BY <1>2, <3>3
      <4>2. stack[i] # Top
        BY <1>1, <1>2, <4>1, TopOfStack
      <4>3. x \in edges[stack[i]] \ left[stack[i]] /\ x \in DOMAIN edges
        BY <1>2, <1>3, <1>4, <4>1, <4>2 DEF DInv, NoDanglingWait
      <4>4. colour[x] = "black" \/ x = stack[i + 1]
        BY <4>1, <4>3 DEF DInv, Explored
      <4> QED  BY <1>1, <1>2, <1>3, <1>4, <4>1, <4>3, <4>4
    <3> QED  BY <1>2, <3>1, <3>2, <3>3
  <2> QED  BY <1>3, <1>4, <2>1, <2>2 DEF Explored
<1>8. FinishedAcyclic'
  <2>1. Black' = Black
    BY <1>1, <1>3 DEF Black
  <2> QED  BY <1>3, <2>1 DEF DInv, FinishedAcyclic, Deadlock
<1> QED  BY <1>5, <1>6, <1>7, <1>8 DEF SearchInv

LEMMA SkipFinishedStep ==
  ASSUME DInv, NEW m \in DOMAIN colour, SkipFinished(m)
  PROVE  TypeOK' /\ SearchInv'
<1> DEFINE L == Len(stack)
<1>1. /\ TypeOK /\ SearchPath /\ Searching /\ stack # <<>>
      /\ m \in DOMAIN edges /\ colour[m] = "black"
  BY SearchTypes DEF DInv, SkipFinished, LooksAt
<1>2. L \in Nat \ {0} /\ Top = stack[L] /\ Top \in DOMAIN edges /\ colour[Top] = "grey"
  BY <1>1, TopOfStack
<1>3. /\ DOMAIN colour = DOMAIN edges
      /\ left'[Top] = left[Top] \ {m}
      /\ \A k \in DOMAIN edges \ {Top} : left'[k] = left[k]
      /\ UNCHANGED <<edges, colour, parent, stack>>
  BY <1>1, <1>2, SearchTypes DEF SkipFinished, graph
<1>4. TypeOK'
  <2>1. left' \in [DOMAIN edges -> SUBSET Nodes]
    BY <1>1, <1>2, SearchTypes DEF SkipFinished
  <2> QED  BY <1>1, <2>1, SearchTypes DEF TypeOK, SkipFinished, graph, Searching
<1>5. SearchPath'
  BY <1>3 DEF DInv, SearchPath
<1>6. Explored'
  <2>1. ASSUME NEW k \in DOMAIN edges
        PROVE  /\ left'[k] \subseteq edges[k]
               /\ colour[k] = "white" => left'[k] = edges[k]
               /\ colour[k] = "black" => \A x \in edges[k] : colour[x] = "black"
    BY <1>2, <1>3 DEF DInv, Explored
  <2>2. ASSUME NEW i \in 1 .. L, NEW x \in edges[stack[i]] \ left'[stack[i]]
        PROVE  colour[x] = "black" \/ (i < L /\ x = stack[i + 1])
    <3>1. stack[i] \in DOMAIN edges
      BY <1>1, TopOfStack
    <3>2. x = m \/ x \in edges[stack[i]] \ left[stack[i]]
      BY <1>3, <3>1
    <3> QED  BY <1>1, <3>2 DEF DInv, Explored
  <2> QED  BY <1>3, <2>1, <2>2 DEF Explored
<1>7. FinishedAcyclic'
  BY <1>3 DEF DInv, FinishedAcyclic, Black, Deadlock
<1> QED  BY <1>4, <1>5, <1>6, <1>7 DEF SearchInv

(* A node is finished when all its neighbours are.  No deadlock among the    *)
(* finished ones arises: it would contain the node, and without it its rest  *)
(* would be a deadlock of nodes finished before, which never wait for it.    *)
LEMMA LeaveStep ==
  ASSUME DInv, Leave
  PROVE  TypeOK' /\ SearchInv'
<1> DEFINE L == Len(stack)
<1>1. TypeOK /\ SearchPath /\ Searching /\ stack # <<>> /\ left[Top] = {}
  BY DEF DInv, Leave
<1>2. /\ L \in Nat \ {0} /\ Top = stack[L] /\ Top \in DOMAIN edges /\ colour[Top] = "grey"
      /\ \A i \in 1 .. L : stack[i] \in DOMAIN edges /\ (stack[i] = Top => i = L)
  BY <1>1, TopOfStack
<1>3. /\ DOMAIN colour = DOMAIN edges /\ DOMAIN colour' = DOMAIN edges
      /\ colour'[Top] = "black"
      /\ \A k \in DOMAIN edges \ {Top} : colour'[k] = colour[k]
      /\ UNCHANGED <<edges, left, parent>>
  BY <1>1, <1>2, SearchTypes DEF Leave, Finished, graph
<1>4. /\ stack' \in Seq(DOMAIN edges)
      /\ Len(stack') = L - 1
      /\ \A i \in 1 .. L - 1 : stack'[i] = stack[i]
  <2>1. stack \in Seq(DOMAIN edges) /\ stack' = SubSeq(stack, 1, L - 1)
    BY <1>1, SearchTypes DEF Leave
  <2>2. \A i \in 1 .. L - 1 : stack[i] \in DOMAIN edges
    BY <1>2
  <2>3. stack' = [i \in 1 .. L - 1 |-> stack[i]]
    BY <1>2, <2>1
  <2> QED  BY <1>2, <2>2, <2>3
<1>5. \A x \in edges[Top] : colour[x] = "black" /\ x \in DOMAIN edges
  BY <1>1, <1>2 DEF DInv, Explored, NoDanglingWait
<1>6. TypeOK'
  <2>1. colour' \in [DOMAIN edges -> {"white", "grey", "black"}]
    BY <1>1, SearchTypes DEF Leave, Finished
  <2> QED  BY <1>1, <1>4, <2>1, SearchTypes DEF TypeOK, Leave, graph, Searching
<1>7. SearchPath'
  <2>1. ASSUME NEW k \in DOMAIN edges
        PROVE  colour'[k] = "grey" <=> \E i \in 1 .. L - 1 : stack'[i] = k
    <3>1. CASE k = Top
      BY <1>2, <1>3, <1>4, <3>1
    <3>2. CASE k # Top
      <4>1. colour[k] = "grey" <=> \E i \in 1 .. L : stack[i] = k
        BY <1>1, TopOfStack
      <4>2. \A i \in 1 .. L : stack[i] = k => i \in 1 .. L - 1
        BY <1>2, <3>2
      <4>3. colour[k] = "grey" <=> \E i \in 1 .. L - 1 : stack[i] = k
        BY <1>2, <4>1, <4>2
      <4>4. colour'[k] = colour[k]
        BY <1>3, <3>2
      <4> QED  BY <1>4, <4>3, <4>4
    <3> QED  BY <3>1, <3>2
  <2>2. DOMAIN stack' = 1 .. L - 1
    BY <1>2, <1>4
  <2>3. \A k \in DOMAIN colour' : colour'[k] = "grey" <=> k \in Range(stack')
    BY <1>3, <2>1, <2>2 DEF Range
  <2>4. IsInjective(stack')
    BY <1>1, <1>2, <1>4, <2>2, TopOfStack DEF IsInjective
  <2>5. ASSUME NEW i \in 1 .. L - 2
        PROVE  stack'[i + 1] \in edges'[stack'[i]] /\ parent'[stack'[i + 1]] = stack'[i]
    BY <1>2, <1>3, <1>4 DEF DInv, SearchPath
  <2> QED  BY <1>2, <1>4, <2>3, <2>4, <2>5 DEF SearchPath
<1>8. Explored'
  <2>1. ASSUME NEW k \in DOMAIN edges
        PROVE  /\ left'[k] \subseteq edges'[k]
               /\ colour'[k] = "white" => left'[k] = edges'[k]
               /\ colour'[k] = "black" => \A x \in edges'[k] : colour'[x] = "black"
    <3>1. left[k] \subseteq edges[k] /\ (colour[k] = "white" => left[k] = edges[k])
      BY <1>3 DEF DInv, Explored
    <3>2. colour[k] = "black" => \A x \in edges[k] : colour[x] = "black" /\ x \in DOMAIN edges
      BY <1>3 DEF DInv, Explored, NoDanglingWait
    <3> QED  BY <1>2, <1>3, <1>5, <3>1, <3>2
  <2>2. ASSUME NEW i \in 1 .. L - 1, NEW x \in edges'[stack'[i]] \ left'[stack'[i]]
        PROVE  colour'[x] = "black" \/ (i < L - 1 /\ x = stack'[i + 1])
    <3>1. i \in 1 .. L /\ i + 1 \in 1 .. L /\ x \in DOMAIN edges
          /\ x \in edges[stack[i]] \ left[stack[i]]
      BY <1>2, <1>3, <1>4 DEF DInv, NoDanglingWait
    <3>2. colour[x] = "black" \/ x = stack[i + 1]
      BY <3>1 DEF DInv, Explored
    <3>3. CASE i = L - 1
      BY <1>2, <1>3, <3>1, <3>2, <3>3
    <3>4. CASE i # L - 1
      BY <1>2, <1>3, <1>4, <3>1, <3>2, <3>4
    <3> QED  BY <3>3, <3>4
  <2> QED  BY <1>3, <1>4, <2>1, <2>2 DEF Explored
<1>9. FinishedAcyclic'
  <2> SUFFICES ASSUME NEW S \in SUBSET Black', Deadlock(edges, S)
               PROVE  FALSE
    BY <1>3 DEF FinishedAcyclic, Deadlock
  <2> DEFINE T == S \ {Top}
  <2>1. T \in SUBSET Black /\ \A k \in T : k \in DOMAIN edges /\ colour[k] = "black"
    BY <1>3 DEF Black
  <2>2. \A k \in T : edges[k] \cap T # {}
    <3> TAKE k \in T
    <3>1. PICK x \in edges[k] : x \in S
      BY DEF Deadlock
    <3>2. colour[x] = "black"
      BY <1>3, <2>1 DEF DInv, Explored
    <3> QED  BY <1>2, <3>1, <3>2
  <2>3. T # {}
    <3>1. CASE Top \in S
      <4>1. PICK x \in edges[Top] : x \in S
        BY <3>1 DEF Deadlock
      <4>2. x # Top
        BY <1>2, <1>5
      <4> QED  BY <4>1, <4>2
    <3>2. CASE Top \notin S
      BY <3>2 DEF Deadlock
    <3> QED  BY <3>1, <3>2
  <2> HIDE DEF T
  <2>4. Deadlock(edges, T)
    BY <2>2, <2>3 DEF Deadlock
  <2> QED  BY <2>1, <2>4 DEF DInv, FinishedAcyclic
<1> QED  BY <1>6, <1>7, <1>8, <1>9 DEF SearchInv

-----------------------------------------------------------------------------
(* Registered requests have a unique victim: the most blocks, then the       *)
(* fewest tokens, then the least id leave one.                               *)
LEMMA VictimExists ==
  ASSUME TypeOK, NEW c, Range(c) # {}, Range(c) \subseteq DOMAIN requests
  PROVE  /\ Victim(c) \in Range(c)
         /\ \A u \in Range(c) \ {Victim(c)} : Precedes(Victim(c), u)
<1> DEFINE R == Range(c)
           held(u) == requests[u].held
           tokens(u) == requests[u].tokens
<1>1. \A u \in R : u \in Nat /\ held(u) \in 0 .. MaxHeld /\ tokens(u) \in Nat
  BY DeadlockAssumption DEF TypeOK, Request
<1>2. PICK a \in R : \A u \in R : held(u) <= held(a)
  <2> DEFINE H == {MaxHeld - held(u) : u \in R}
  <2>1. H \in SUBSET Nat /\ H # {}
    BY <1>1, DeadlockAssumption
  <2>2. PICK x \in H : \A y \in H : x <= y
    <3> HIDE DEF H
    <3> QED  BY <2>1, LeastNat
  <2>3. PICK a \in R : x = MaxHeld - held(a)
    BY <2>2
  <2>4. \A u \in R : MaxHeld - held(a) <= MaxHeld - held(u)
    BY <2>2, <2>3
  <2>5. \A u \in R : held(u) <= held(a)
    <3> HIDE DEF held, tokens, H, R
    <3> QED  BY <1>1, <2>3, <2>4, DeadlockAssumption
  <2> QED  BY <2>3, <2>5
<1> DEFINE R1 == {u \in R : held(u) = held(a)}
<1>3. PICK b \in R1 : \A u \in R1 : tokens(b) <= tokens(u)
  <2> DEFINE T == {tokens(u) : u \in R1}
  <2>1. T \in SUBSET Nat /\ T # {}
    BY <1>1, <1>2
  <2>2. PICK x \in T : \A y \in T : x <= y
    <3> HIDE DEF T
    <3> QED  BY <2>1, LeastNat
  <2> QED  BY <2>2
<1> DEFINE R2 == {u \in R1 : tokens(u) = tokens(b)}
<1>4. PICK v \in R2 : \A u \in R2 : v <= u
  <2>1. R2 \in SUBSET Nat /\ R2 # {}
    BY <1>1, <1>3
  <2> HIDE DEF R2
  <2> QED  BY <2>1, LeastNat
<1>5. v \in R /\ held(v) = held(a) /\ tokens(v) = tokens(b)
  BY <1>3, <1>4
<1>6. ASSUME NEW u \in R \ {v}
      PROVE  Precedes(v, u)
  <2>1. CASE held(u) # held(a)
    <3>1. held(v) > held(u)
      BY <1>1, <1>2, <1>5, <2>1, DeadlockAssumption
    <3> QED  BY <3>1 DEF Precedes
  <2>2. CASE held(u) = held(a) /\ tokens(u) # tokens(b)
    <3>1. held(v) = held(u) /\ tokens(v) < tokens(u)
      BY <1>1, <1>3, <1>5, <2>2
    <3> QED  BY <3>1 DEF Precedes
  <2>3. CASE held(u) = held(a) /\ tokens(u) = tokens(b)
    <3>1. held(v) = held(u) /\ tokens(v) = tokens(u) /\ v < u
      BY <1>1, <1>4, <1>5, <2>3
    <3> QED  BY <3>1 DEF Precedes
  <2> QED  BY <2>1, <2>2, <2>3
<1> HIDE DEF R1, R2, held, tokens
<1> QED  BY <1>5, <1>6 DEF Victim

-----------------------------------------------------------------------------
(* The steps that end a search, and what they answer. *)
LEMMA EvictStep ==
  ASSUME DInv, NEW m \in DOMAIN colour, EvictVictim(m)
  PROVE  /\ DInv'
         /\ cycle' = CycleTo(m) /\ IsCycle(edges, cycle')
         /\ \E v \in Range(cycle') : DOMAIN edges' = DOMAIN edges \ {v}
<1> DEFINE c == CycleTo(m)
           v == Victim(c)
           g == WithoutNode(edges, v)
<1>1. /\ c \in Seq(DOMAIN edges) /\ IsCycle(edges, c)
      /\ Range(c) # {} /\ Range(c) \subseteq DOMAIN edges
  <2>1. c \in Seq(DOMAIN edges) /\ IsCycle(edges, c) /\ Deadlock(edges, Range(c))
    BY CycleFound DEF EvictVictim
  <2> QED  BY <2>1 DEF Deadlock, Range
<1>2. /\ edges' = g /\ cycle' = c /\ BeginSearch(g, "verify") /\ answer' = answer
      /\ requests' = [requests EXCEPT ![v].held = 0]
      /\ Range(c) \subseteq DOMAIN requests /\ Searching
  BY DEF EvictVictim, BackEdge, LooksAt
<1>3. TypeOK /\ phase # "idle"
  BY <1>2 DEF DInv, Searching
<1>4. v \in Range(c)
  BY <1>1, <1>2, <1>3, VictimExists
<1>5. /\ DOMAIN g = DOMAIN edges \ {v} /\ \A n \in DOMAIN g : g[n] = edges[n] \ {v}
      /\ g \in [DOMAIN g -> SUBSET DOMAIN g] /\ g \in [DOMAIN g -> SUBSET Nodes]
  BY <1>3 DEF WithoutNode, TypeOK
<1>6. DOMAIN edges \subseteq Nodes
  BY <1>3 DEF TypeOK
<1>7. requests' \in [DOMAIN requests -> Request] /\ DOMAIN requests \subseteq Nodes
  <2>1. v \in DOMAIN requests /\ requests[v] \in Request /\ requests \in [DOMAIN requests -> Request]
    BY <1>2, <1>3, <1>4 DEF TypeOK
  <2>2. [requests[v] EXCEPT !.held = 0] \in Request
    BY <2>1, DeadlockAssumption DEF Request
  <2>3. requests' = [requests EXCEPT ![v] = [requests[v] EXCEPT !.held = 0]]
    BY <1>2
  <2> HIDE DEF v
  <2>4. requests' \in [DOMAIN requests -> Request]
    BY <2>1, <2>2, <2>3
  <2> QED  BY <1>3, <2>4 DEF TypeOK
<1> HIDE DEF c, v, g
<1>8. TypeOK'
  <2>1. phase' = "verify" /\ stack' = <<>> /\ left' = g
        /\ colour' = [n \in DOMAIN g |-> "white"] /\ parent' = [n \in DOMAIN g |-> None]
    BY <1>2 DEF BeginSearch
  <2>2. cycle' \in Seq(Nodes)
    BY <1>1, <1>2, <1>6
  <2>3. answer' \in {None, "recovered", "deadlocked", "KeyError"}
    BY <1>2, <1>3 DEF TypeOK
  <2> QED  BY <1>2, <1>5, <1>6, <1>7, <2>1, <2>2, <2>3 DEF TypeOK
<1>9. NoDanglingWait'
  BY <1>2, <1>5 DEF DInv, NoDanglingWait
<1>10. SearchInv'
  BY <1>2, BegunSearch
<1>11. NoAnswerYet' /\ AnswerHonest'
  <2>1. answer' = None /\ None \notin {"recovered", "deadlocked", "KeyError"}
    BY <1>2, <1>3, DeadlockAssumption DEF DInv, NoAnswerYet
  <2> QED  BY <2>1 DEF NoAnswerYet, AnswerHonest
<1>12. DInv'
  BY <1>8, <1>9, <1>10, <1>11 DEF DInv, SearchInv
<1> QED  BY <1>1, <1>2, <1>4, <1>5, <1>12 DEF c

(* The steps that return to the caller. *)
LEMMA EndSearchHolds ==
  ASSUME EndSearch
  PROVE  /\ SearchInv' /\ NoAnswerYet'
         /\ phase' = "idle" /\ DOMAIN colour' = {} /\ stack' = <<>>
         /\ colour' = <<>> /\ parent' = <<>> /\ left' = <<>>
<1>1. /\ phase' = "idle" /\ DOMAIN colour' = {} /\ stack' = <<>>
      /\ colour' = <<>> /\ parent' = <<>> /\ left' = <<>>
  BY DEF EndSearch
<1>2. SearchInv'
  BY <1>1 DEF SearchInv, SearchPath, Explored, FinishedAcyclic, Black, Deadlock, Range, IsInjective
<1> QED  BY <1>1, <1>2 DEF NoAnswerYet

LEMMA EndKeepsTypes ==
  ASSUME DInv, EndSearch, UNCHANGED graph, cycle' \in Seq(Nodes),
         answer' \in {"recovered", "deadlocked", "KeyError"}
  PROVE  TypeOK' /\ NoDanglingWait'
<1>1. edges' = edges /\ requests' = requests
  BY DEF graph
<1>2. NoDanglingWait'
  BY <1>1 DEF DInv, NoDanglingWait
<1>3. phase' = "idle" /\ colour' = <<>> /\ parent' = <<>> /\ left' = <<>> /\ stack' = <<>>
  BY EndSearchHolds
<1>4. TypeOK'
  BY <1>1, <1>3 DEF DInv, TypeOK
<1> QED  BY <1>2, <1>4

LEMMA LookupFailsStep ==
  ASSUME DInv, NEW m \in DOMAIN colour, LookupFails(m)
  PROVE  DInv' /\ cycle' = CycleTo(m) /\ IsCycle(edges, cycle') /\ edges' = edges
<1>1. /\ BackEdge(m) /\ cycle' = CycleTo(m) /\ answer' = "KeyError" /\ EndSearch
      /\ UNCHANGED graph /\ ~ Range(CycleTo(m)) \subseteq DOMAIN requests
  BY DEF LookupFails
<1>2. /\ CycleTo(m) \in Seq(DOMAIN edges) /\ IsCycle(edges, CycleTo(m))
      /\ Deadlock(edges, Range(CycleTo(m)))
  BY <1>1, CycleFound
<1>3. cycle' \in Seq(Nodes)
  BY <1>1, <1>2 DEF DInv, TypeOK
<1>4. TypeOK' /\ NoDanglingWait'
  BY <1>1, <1>3, EndKeepsTypes
<1>5. AnswerHonest'
  BY <1>1, <1>2 DEF AnswerHonest, graph
<1>6. edges' = edges
  BY <1>1 DEF graph
<1> QED  BY <1>1, <1>2, <1>4, <1>5, <1>6, EndSearchHolds DEF DInv, SearchInv

LEMMA StillDeadlockedStep ==
  ASSUME DInv, NEW m \in DOMAIN colour, StillDeadlocked(m)
  PROVE  DInv'
<1>1. /\ BackEdge(m) /\ answer' = "deadlocked" /\ EndSearch
      /\ UNCHANGED graph /\ cycle' = cycle /\ edges' = edges
  BY DEF StillDeadlocked, graph
<1>2. Deadlocked(edges)
  <2>1. CycleTo(m) \in Seq(DOMAIN edges) /\ Deadlock(edges, Range(CycleTo(m)))
    BY <1>1, CycleFound
  <2>2. Range(CycleTo(m)) \in SUBSET DOMAIN edges
    BY <2>1 DEF Range
  <2> QED  BY <2>1, <2>2 DEF Deadlocked
<1>3. TypeOK' /\ NoDanglingWait'
  BY <1>1, EndKeepsTypes DEF DInv, TypeOK
<1>4. AnswerHonest'
  BY <1>1, <1>2 DEF AnswerHonest, Deadlocked, Deadlock
<1> QED  BY <1>1, <1>3, <1>4, EndSearchHolds DEF DInv, SearchInv

LEMMA NoCycleLeftStep ==
  ASSUME DInv, NoCycleLeft
  PROVE  DInv'
<1>1. /\ Searching /\ stack = <<>> /\ answer' = "recovered" /\ EndSearch
      /\ UNCHANGED graph /\ cycle' = cycle /\ edges' = edges
      /\ \A n \in DOMAIN colour : colour[n] # "white"
  BY DEF NoCycleLeft, AllVisited, graph
<1>2. DOMAIN edges = Black
  <2>1. \A n \in DOMAIN colour : colour[n] # "grey"
    BY <1>1 DEF DInv, SearchPath, Range
  <2> QED  BY <1>1, <2>1, SearchTypes DEF DInv, Black
<1>3. ~Deadlocked(edges)
  BY <1>2 DEF DInv, FinishedAcyclic, Deadlocked
<1>4. TypeOK' /\ NoDanglingWait'
  BY <1>1, EndKeepsTypes DEF DInv, TypeOK
<1>5. AnswerHonest'
  BY <1>1, <1>3 DEF AnswerHonest, Deadlocked, Deadlock
<1> QED  BY <1>1, <1>4, <1>5, EndSearchHolds DEF DInv, SearchInv

-----------------------------------------------------------------------------
(* The calls that begin while no search runs. *)
LEMMA RecoverStep ==
  ASSUME DInv, Recover
  PROVE  DInv' /\ cycle' = <<>> /\ edges' = edges
<1>1. /\ BeginSearch(edges, "detect") /\ edges' = edges /\ requests' = requests
      /\ cycle' = <<>> /\ answer' = None
  BY DEF Recover, ForgetReport, graph
<1>2. SearchInv'
  BY <1>1, BegunSearch
<1>3. TypeOK'
  <2>1. phase' = "detect" /\ stack' = <<>> /\ left' = edges
        /\ colour' = [n \in DOMAIN edges |-> "white"] /\ parent' = [n \in DOMAIN edges |-> None]
    BY <1>1 DEF BeginSearch
  <2> QED  BY <1>1, <2>1 DEF DInv, TypeOK
<1>4. NoDanglingWait'
  BY <1>1 DEF DInv, NoDanglingWait
<1>5. NoAnswerYet' /\ AnswerHonest'
  BY <1>1, DeadlockAssumption DEF NoAnswerYet, AnswerHonest
<1> QED  BY <1>1, <1>2, <1>3, <1>4, <1>5 DEF DInv, SearchInv

(* A change of the graph between two calls of recover. *)
LEMMA ChangedGraph ==
  ASSUME DInv, phase = "idle", UNCHANGED <<phase, search>>, ForgetReport,
         DOMAIN edges' \subseteq Nodes,
         edges' \in [DOMAIN edges' -> SUBSET DOMAIN edges'],
         DOMAIN requests' \subseteq Nodes,
         requests' \in [DOMAIN requests' -> Request]
  PROVE  DInv' /\ cycle' = <<>>
<1>1. /\ phase' = "idle" /\ colour' = colour /\ parent' = parent /\ left' = left
      /\ stack' = stack /\ cycle' = <<>> /\ answer' = None
  BY DEF search, ForgetReport
<1>2. NoDanglingWait'
  BY DEF NoDanglingWait
<1>3. TypeOK'
  BY <1>1 DEF DInv, TypeOK
<1>4. SearchInv'
  <2>1. DOMAIN colour' = {} /\ stack' = <<>>
    BY <1>1, IdleTypes DEF DInv
  <2> QED  BY <2>1 DEF SearchInv, SearchPath, Explored, FinishedAcyclic, Black, Deadlock,
                       Range, IsInjective
<1>5. NoAnswerYet' /\ AnswerHonest'
  BY <1>1, DeadlockAssumption DEF NoAnswerYet, AnswerHonest
<1> QED  BY <1>1, <1>2, <1>3, <1>4, <1>5 DEF DInv, SearchInv

LEMMA AddRequestStep ==
  ASSUME DInv, NEW n \in Nodes, NEW r \in Request, AddRequest(n, r)
  PROVE  DInv' /\ cycle' = <<>>
<1>1. DOMAIN edges' \subseteq Nodes /\ edges' \in [DOMAIN edges' -> SUBSET DOMAIN edges']
  BY DEF AddRequest, WithNodes, DInv, TypeOK, NoDanglingWait
<1>2. DOMAIN requests' \subseteq Nodes /\ requests' \in [DOMAIN requests' -> Request]
  BY DEF AddRequest, DInv, TypeOK
<1> QED  BY <1>1, <1>2, ChangedGraph DEF AddRequest

LEMMA AddNodeStep ==
  ASSUME DInv, NEW n \in Nodes, AddNode(n)
  PROVE  DInv' /\ cycle' = <<>>
<1>1. DOMAIN edges' \subseteq Nodes /\ edges' \in [DOMAIN edges' -> SUBSET DOMAIN edges']
  BY DEF AddNode, WithNodes, DInv, TypeOK, NoDanglingWait
<1>2. DOMAIN requests' \subseteq Nodes /\ requests' \in [DOMAIN requests' -> Request]
  BY DEF AddNode, DInv, TypeOK
<1> QED  BY <1>1, <1>2, ChangedGraph DEF AddNode

LEMMA AddWaitStep ==
  ASSUME DInv, NEW waiting \in Nodes, NEW holder \in Nodes, AddWait(waiting, holder)
  PROVE  DInv' /\ cycle' = <<>>
<1> DEFINE g == WithNodes(edges, {waiting, holder})
<1>1. /\ DOMAIN g = DOMAIN edges \cup {waiting, holder}
      /\ g \in [DOMAIN g -> SUBSET DOMAIN g]
  BY DEF WithNodes, DInv, TypeOK, NoDanglingWait
<1>2. edges' = [g EXCEPT ![waiting] = @ \cup {holder}]
  BY DEF AddWait
<1>3. DOMAIN edges \subseteq Nodes
  BY DEF DInv, TypeOK
<1>4. DOMAIN edges' \subseteq Nodes /\ edges' \in [DOMAIN edges' -> SUBSET DOMAIN edges']
  <2> HIDE DEF g
  <2> QED  BY <1>1, <1>2, <1>3
<1>5. DOMAIN requests' \subseteq Nodes /\ requests' \in [DOMAIN requests' -> Request]
  BY DEF AddWait, DInv, TypeOK
<1> QED  BY <1>4, <1>5, ChangedGraph DEF AddWait

LEMMA RemoveRequestStep ==
  ASSUME DInv, NEW n \in Nodes, RemoveRequest(n)
  PROVE  DInv' /\ cycle' = <<>>
<1>1. DOMAIN edges' \subseteq Nodes /\ edges' \in [DOMAIN edges' -> SUBSET DOMAIN edges']
  BY DEF RemoveRequest, WithoutNode, DInv, TypeOK, NoDanglingWait
<1>2. DOMAIN requests' \subseteq Nodes /\ requests' \in [DOMAIN requests' -> Request]
  BY DEF RemoveRequest, DInv, TypeOK
<1> QED  BY <1>1, <1>2, ChangedGraph DEF RemoveRequest

-----------------------------------------------------------------------------
LEMMA InitDInv == Init => DInv
<1> SUFFICES ASSUME Init PROVE DInv
  OBVIOUS
<1>1. /\ edges = <<>> /\ requests = <<>> /\ phase = "idle" /\ colour = <<>> /\ parent = <<>>
      /\ left = <<>> /\ stack = <<>> /\ cycle = <<>> /\ answer = None
      /\ DOMAIN edges = {} /\ DOMAIN requests = {} /\ DOMAIN colour = {}
  BY DEF Init, NoSearch
<1>2. TypeOK /\ NoDanglingWait
  BY <1>1 DEF TypeOK, NoDanglingWait
<1>3. SearchInv
  BY <1>1, NoSearchHolds
<1>4. NoAnswerYet /\ AnswerHonest
  BY <1>1, DeadlockAssumption DEF NoAnswerYet, AnswerHonest
<1> QED  BY <1>2, <1>3, <1>4 DEF DInv, SearchInv

(* A step of a search changes neither the graph nor what was found. *)
LEMMA SearchGoesOn ==
  ASSUME DInv, TypeOK', SearchInv', phase # "idle",
         UNCHANGED <<graph, phase, cycle, answer>>
  PROVE  DInv' /\ cycle' = cycle /\ edges' = edges
<1>1. edges' = edges /\ cycle' = cycle /\ answer' = answer /\ answer = None
  BY DEF graph, DInv, NoAnswerYet
<1>2. NoDanglingWait' /\ NoAnswerYet' /\ AnswerHonest'
  BY <1>1, DeadlockAssumption DEF DInv, NoDanglingWait, NoAnswerYet, AnswerHonest
<1> QED  BY <1>1, <1>2 DEF DInv, SearchInv

(* What a step changes: the invariant that it keeps, and what EvictsFromCycle *)
(* says of it.                                                                *)
Sound ==
  /\ cycle' \notin {<<>>, cycle} => IsCycle(edges, cycle')
  /\ DOMAIN edges' # DOMAIN edges /\ phase # "idle" =>
       \E v \in Range(cycle') : DOMAIN edges' = DOMAIN edges \ {v}

LEMMA NextDInv ==
  ASSUME DInv, [Next]_vars
  PROVE  DInv' /\ Sound
<1>1. ASSUME NEW n \in Nodes, NEW r \in Request, AddRequest(n, r)
      PROVE  DInv' /\ Sound
  <2>1. phase = "idle"
    BY <1>1 DEF AddRequest
  <2> QED  BY <1>1, <2>1, AddRequestStep DEF Sound
<1>2. ASSUME NEW n \in Nodes, AddNode(n)
      PROVE  DInv' /\ Sound
  <2>1. phase = "idle"
    BY <1>2 DEF AddNode
  <2> QED  BY <1>2, <2>1, AddNodeStep DEF Sound
<1>3. ASSUME NEW n \in Nodes, RemoveRequest(n)
      PROVE  DInv' /\ Sound
  <2>1. phase = "idle"
    BY <1>3 DEF RemoveRequest
  <2> QED  BY <1>3, <2>1, RemoveRequestStep DEF Sound
<1>4. ASSUME NEW waiting \in Nodes, NEW holder \in Nodes, AddWait(waiting, holder)
      PROVE  DInv' /\ Sound
  <2>1. phase = "idle"
    BY <1>4 DEF AddWait
  <2> QED  BY <1>4, <2>1, AddWaitStep DEF Sound
<1>5. ASSUME Recover
      PROVE  DInv' /\ Sound
  BY <1>5, RecoverStep DEF Sound
<1>6. ASSUME NEW n \in DOMAIN colour, VisitRoot(n)
      PROVE  DInv' /\ Sound
  <2>1. phase # "idle" /\ UNCHANGED <<graph, phase, cycle, answer>>
    BY <1>6 DEF VisitRoot, Searching
  <2> QED  BY <1>6, <2>1, VisitRootStep, SearchGoesOn DEF Sound
<1>7. ASSUME NEW m \in DOMAIN colour, Descend(m)
      PROVE  DInv' /\ Sound
  <2>1. phase # "idle" /\ UNCHANGED <<graph, phase, cycle, answer>>
    BY <1>7 DEF Descend, LooksAt, Searching
  <2> QED  BY <1>7, <2>1, DescendStep, SearchGoesOn DEF Sound
<1>8. ASSUME NEW m \in DOMAIN colour, SkipFinished(m)
      PROVE  DInv' /\ Sound
  <2>1. phase # "idle" /\ UNCHANGED <<graph, phase, cycle, answer>>
    BY <1>8 DEF SkipFinished, LooksAt, Searching
  <2> QED  BY <1>8, <2>1, SkipFinishedStep, SearchGoesOn DEF Sound
<1>9. ASSUME Leave
      PROVE  DInv' /\ Sound
  <2>1. phase # "idle" /\ UNCHANGED <<graph, phase, cycle, answer>>
    BY <1>9 DEF Leave, Searching
  <2> QED  BY <1>9, <2>1, LeaveStep, SearchGoesOn DEF Sound
<1>10. ASSUME NEW m \in DOMAIN colour, EvictVictim(m)
       PROVE  DInv' /\ Sound
  BY <1>10, EvictStep DEF Sound
<1>11. ASSUME NEW m \in DOMAIN colour, LookupFails(m)
       PROVE  DInv' /\ Sound
  BY <1>11, LookupFailsStep DEF Sound
<1>12. ASSUME NEW m \in DOMAIN colour, StillDeadlocked(m)
       PROVE  DInv' /\ Sound
  <2>1. edges' = edges /\ cycle' = cycle
    BY <1>12 DEF StillDeadlocked, graph
  <2> QED  BY <1>12, <2>1, StillDeadlockedStep DEF Sound
<1>13. ASSUME NoCycleLeft
       PROVE  DInv' /\ Sound
  <2>1. edges' = edges /\ cycle' = cycle
    BY <1>13 DEF NoCycleLeft, graph
  <2> QED  BY <1>13, <2>1, NoCycleLeftStep DEF Sound
<1>14. ASSUME UNCHANGED vars
       PROVE  DInv' /\ Sound
  <2>1. /\ edges' = edges /\ requests' = requests /\ phase' = phase /\ colour' = colour
        /\ parent' = parent /\ left' = left /\ stack' = stack /\ cycle' = cycle /\ answer' = answer
    BY <1>14 DEF vars, graph, search
  <2>2. TypeOK' /\ NoDanglingWait' /\ SearchPath'
    BY <2>1 DEF DInv, TypeOK, NoDanglingWait, SearchPath
  <2>3. Explored' /\ FinishedAcyclic'
    BY <2>1 DEF DInv, Explored, FinishedAcyclic, Black, Deadlock
  <2>4. NoAnswerYet' /\ AnswerHonest'
    BY <2>1 DEF DInv, NoAnswerYet, AnswerHonest, Deadlocked, Deadlock
  <2>5. DInv'
    BY <2>2, <2>3, <2>4 DEF DInv
  <2> QED  BY <2>1, <2>5 DEF Sound
<1> QED
  BY <1>1, <1>2, <1>3, <1>4, <1>5, <1>6, <1>7, <1>8, <1>9, <1>10, <1>11, <1>12, <1>13, <1>14 DEF Next

(* DInv is inductive: types, the shape of the graph, what a search knows, and *)
(* the truth of the last answer hold in every state.                          *)
THEOREM SearchInvariance == Spec => []DInv
<1>1. DInv /\ [Next]_vars => DInv'
  BY NextDInv
<1> QED  BY InitDInv, <1>1, PTL DEF Spec

(* Every variable keeps its type, and no search state outlives its call.      *)
THEOREM TypeCorrect == Spec => []TypeOK
<1>1. DInv => TypeOK
  BY DEF DInv
<1> QED  BY SearchInvariance, <1>1, PTL

(* The running calls of dfs are a path of waits, along which parent leads     *)
(* back: the loop that collects the cycle ends at the node that closes it.    *)
THEOREM SearchIsPath == Spec => []SearchPath
<1>1. DInv => SearchPath
  BY DEF DInv
<1> QED  BY SearchInvariance, <1>1, PTL

(* recover reports a deadlock exactly when there is one, for every graph and  *)
(* every order of the search, and fails only on an unregistered node of it.   *)
THEOREM AnswersAreTrue == Spec => []AnswerHonest
<1>1. DInv => AnswerHonest
  BY DEF DInv
<1> QED  BY SearchInvariance, <1>1, PTL

(* The cycle of a report is a simple cycle of waits, and only a request on it *)
(* is evicted, one for each call of recover.                                  *)
THEOREM OnlyCycleEvicted == Spec => EvictsFromCycle
<1>1. DInv /\ [Next]_vars => [Sound]_vars
  BY NextDInv
<1> QED  BY SearchInvariance, <1>1, PTL DEF Spec, EvictsFromCycle, Sound
-----------------------------------------------------------------------------
(* What a search has left to do: the waits that no loop has looked at, the  *)
(* nodes that no search has reached, and the calls that have to return.     *)
Waits == {w \in Nodes \X Nodes : w[1] \in DOMAIN left /\ w[2] \in left[w[1]]}

Coloured(c) == {n \in DOMAIN colour : colour[n] = c}

(* Callers add two nodes at most with a call. *)
GraphFinite == IsFiniteSet(DOMAIN edges)

LEMMA GraphFiniteStep ==
  ASSUME DInv, GraphFinite, [Next]_vars
  PROVE  GraphFinite'
<1>1. \E a, b \in Nodes \cup {None} : DOMAIN edges' \subseteq DOMAIN edges \cup {a} \cup {b}
  BY DEF Next, AddRequest, AddNode, RemoveRequest, AddWait, Recover, VisitRoot, Descend,
         SkipFinished, Leave, EvictVictim, LookupFails, StillDeadlocked, NoCycleLeft,
         WithNodes, WithoutNode, vars, graph
<1>2. PICK a, b \in Nodes \cup {None} : DOMAIN edges' \subseteq DOMAIN edges \cup {a} \cup {b}
  BY <1>1
<1>3. IsFiniteSet(DOMAIN edges \cup {a})
  BY FS_AddElement DEF GraphFinite
<1>4. IsFiniteSet(DOMAIN edges \cup {a} \cup {b})
  BY <1>3, FS_AddElement
<1> QED  BY <1>2, <1>4, FS_Subset DEF GraphFinite

(* All of it can be counted. *)
Counted ==
  /\ IsFiniteSet(Waits) /\ Cardinality(Waits) \in Nat
  /\ \A c \in {"white", "grey"} :
       IsFiniteSet(Coloured(c)) /\ Cardinality(Coloured(c)) \in Nat
  /\ WorkLeft = Cardinality(Waits) + 2 * Cardinality(Coloured("white"))
                   + Cardinality(Coloured("grey"))

LEMMA WorkCounted == DInv /\ GraphFinite /\ Searching => Counted
<1> SUFFICES ASSUME DInv, GraphFinite, Searching  PROVE Counted
  OBVIOUS
<1> DEFINE D == DOMAIN edges
<1>1. DOMAIN left = D /\ DOMAIN colour = D /\ IsFiniteSet(D)
  BY SearchTypes DEF DInv, GraphFinite
<1>2. \A n \in D : left[n] \subseteq D
  BY <1>1 DEF DInv, NoDanglingWait, Explored
<1> HIDE DEF D
<1>3. Waits \subseteq D \X D
  BY <1>1, <1>2 DEF Waits
<1>4. IsFiniteSet(D \X D)
  BY <1>1, FS_Product
<1>5. IsFiniteSet(Waits)
  BY <1>3, <1>4, FS_Subset
<1>6. \A c \in {"white", "grey"} : IsFiniteSet(Coloured(c))
  BY <1>1, FS_Subset DEF Coloured
<1> QED  BY <1>5, <1>6, FS_CardinalityType DEF WorkLeft, Waits, Coloured, Counted

LEMMA WorkCountedNext == DInv' /\ GraphFinite' /\ Searching' => Counted'
BY WorkCounted, PTL

(* A loop of dfs looks at one of the waits that were left. *)
LEMMA WaitUsed ==
  ASSUME DInv, GraphFinite, NEW m, LooksAt(m),
         left' = [left EXCEPT ![Top] = @ \ {m}]
  PROVE  Cardinality(Waits') = Cardinality(Waits) - 1
<1>1. /\ TypeOK /\ SearchPath /\ Searching /\ stack # <<>> /\ m \in left[Top]
      /\ NoDanglingWait /\ Explored
  BY DEF DInv, LooksAt
<1>2. /\ Top \in DOMAIN edges /\ DOMAIN edges \subseteq Nodes
      /\ left \in [DOMAIN edges -> SUBSET Nodes]
  BY <1>1, TopOfStack, SearchTypes
<1> DEFINE t == Top
<1>3. <<t, m>> \in Waits
  BY <1>1, <1>2 DEF Waits
<1>4. /\ left' \in [DOMAIN edges -> SUBSET Nodes]
      /\ \A n \in DOMAIN edges : left'[n] = IF n = t THEN left[n] \ {m} ELSE left[n]
  BY <1>2
<1> HIDE DEF t
<1>5. Waits' = Waits \ {<<t, m>>}
  <2>1. DOMAIN left' = DOMAIN left
    BY <1>2, <1>4
  <2>2. ASSUME NEW a \in Nodes, NEW b \in Nodes
        PROVE  <<a, b>> \in Waits' <=> <<a, b>> \in Waits /\ <<a, b>> # <<t, m>>
    <3>1. <<a, b>> \in Waits' <=> a \in DOMAIN left /\ b \in left'[a]
      BY <2>1 DEF Waits
    <3>2. <<a, b>> \in Waits <=> a \in DOMAIN left /\ b \in left[a]
      BY DEF Waits
    <3> QED  BY <1>2, <1>4, <3>1, <3>2
  <2> QED  BY <2>2 DEF Waits
<1> QED  BY <1>1, <1>3, <1>5, WorkCounted, FS_RemoveElement DEF Counted

(* One step of the search leaves less to do. *)
LEMMA WorkShrinks ==
  ASSUME DInv, GraphFinite, [Next]_vars, phase # "idle", phase' = phase
  PROVE  WorkLeft' < WorkLeft \/ UNCHANGED vars
<1>1. /\ TypeOK /\ SearchPath /\ Searching /\ NoDanglingWait /\ Explored
      /\ DInv' /\ GraphFinite'
  BY NextDInv, GraphFiniteStep DEF DInv, Searching
<1>2. Searching'
  BY DEF Searching
<1> DEFINE waits == Cardinality(Waits)
           white == Cardinality(Coloured("white"))
           grey == Cardinality(Coloured("grey"))
<1>3. /\ waits \in Nat /\ white \in Nat /\ grey \in Nat
      /\ WorkLeft = waits + 2 * white + grey
      /\ IsFiniteSet(Coloured("white")) /\ IsFiniteSet(Coloured("grey"))
  BY <1>1, WorkCounted DEF Counted
<1>4. /\ waits' \in Nat /\ white' \in Nat /\ grey' \in Nat
      /\ WorkLeft' = waits' + 2 * white' + grey'
  BY <1>1, <1>2, WorkCountedNext DEF Counted
<1>5. ASSUME NEW n \in DOMAIN colour, colour[n] = "white",
             colour' = [colour EXCEPT ![n] = "grey"]
      PROVE  white' = white - 1 /\ grey' = grey + 1
  <2>1. /\ Coloured("white")' = Coloured("white") \ {n} /\ n \in Coloured("white")
        /\ Coloured("grey")' = Coloured("grey") \cup {n} /\ n \notin Coloured("grey")
    BY <1>5 DEF Coloured
  <2> QED  BY <1>3, <2>1, FS_AddElement, FS_RemoveElement
<1>6. ASSUME NEW n \in DOMAIN colour, VisitRoot(n)
      PROVE  WorkLeft' < WorkLeft
  <2>1. left' = left /\ Waits' = Waits
    BY <1>6 DEF VisitRoot, Waits
  <2>2. white' = white - 1 /\ grey' = grey + 1
    BY <1>5, <1>6 DEF VisitRoot
  <2> HIDE DEF white, grey
  <2> QED  BY <1>3, <1>4, <2>1, <2>2
<1>7. ASSUME NEW m \in DOMAIN colour, Descend(m)
      PROVE  WorkLeft' < WorkLeft
  <2>1. waits' = waits - 1
    BY <1>7, WaitUsed DEF Descend
  <2>2. white' = white - 1 /\ grey' = grey + 1
    BY <1>5, <1>7 DEF Descend
  <2> HIDE DEF waits, white, grey
  <2> QED  BY <1>3, <1>4, <2>1, <2>2
<1>8. ASSUME NEW m \in DOMAIN colour, SkipFinished(m)
      PROVE  WorkLeft' < WorkLeft
  <2>1. waits' = waits - 1
    BY <1>8, WaitUsed DEF SkipFinished
  <2>2. Coloured("white")' = Coloured("white") /\ Coloured("grey")' = Coloured("grey")
    BY <1>8 DEF SkipFinished, Coloured
  <2>3. white' = white /\ grey' = grey
    BY <2>2
  <2> HIDE DEF waits, white, grey
  <2> QED  BY <1>3, <1>4, <2>1, <2>3
<1>9. ASSUME Leave
      PROVE  WorkLeft' < WorkLeft
  <2> DEFINE t == Top
  <2>1. /\ stack # <<>> /\ left' = left
        /\ colour' = [colour EXCEPT ![t] = "black"]
    BY <1>9 DEF Leave, Finished
  <2>2. t \in DOMAIN colour /\ colour[t] = "grey"
    BY <1>1, <2>1, TopOfStack, SearchTypes
  <2> HIDE DEF t
  <2>3. Waits' = Waits
    BY <2>1 DEF Waits
  <2>4. /\ Coloured("white")' = Coloured("white")
        /\ Coloured("grey")' = Coloured("grey") \ {t} /\ t \in Coloured("grey")
    BY <2>1, <2>2 DEF Coloured
  <2>5. white' = white /\ grey' = grey - 1
    BY <1>3, <2>4, FS_RemoveElement
  <2> HIDE DEF white, grey
  <2> QED  BY <1>3, <1>4, <2>3, <2>5
<1>10. \/ \E n \in DOMAIN colour : VisitRoot(n) \/ Descend(n) \/ SkipFinished(n)
       \/ Leave
       \/ UNCHANGED vars
  BY DEF Next, AddRequest, AddNode, RemoveRequest, AddWait, Recover, EvictVictim,
         LookupFails, StillDeadlocked, NoCycleLeft, EndSearch, BeginSearch
<1> QED  BY <1>6, <1>7, <1>8, <1>9, <1>10

(* find_cycle does work in proportion to the waits and the nodes, whatever  *)
(* the graph: no step of a search gives back what an earlier one has done.  *)
THEOREM SearchIsLinear == Spec => LinearSearch
<1>1. Init => GraphFinite
  BY FS_EmptySet DEF Init, GraphFinite
<1>2. DInv /\ GraphFinite /\ [Next]_vars => GraphFinite'
  BY GraphFiniteStep
<1>3. DInv /\ GraphFinite /\ [Next]_vars
        => [phase # "idle" /\ phase' = phase => WorkLeft' < WorkLeft]_vars
  BY WorkShrinks
<1> QED  BY <1>1, <1>2, <1>3, SearchInvariance, PTL DEF Spec, LinearSearch
=============================================================================
