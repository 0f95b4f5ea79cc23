-------------------------- MODULE DeadlockManager ---------------------------
(***************************************************************************)
(* WaitForGraph and DeadlockManager of deadlock.py: requests that wait for *)
(* each other, a depth-first search for a cycle of waits, and the eviction *)
(* of one request of the cycle that it finds.                              *)
(*                                                                         *)
(* The search is unrolled into one action per iteration of its loops, with *)
(* the stack of calls of dfs as a variable.  It meets the nodes and the    *)
(* neighbours of a node in any order: the dictionary keeps the order in    *)
(* which callers added the nodes, and a set of strings has no fixed order. *)
(* Request ids are numbers, ordered as the strings are.                    *)
(***************************************************************************)
EXTENDS Integers, Sequences, FiniteSets, Functions

CONSTANTS
  Nodes,      (* the ids of requests that callers use                       *)
  MaxHeld,    (* bound on the blocks that a request holds                   *)
  MaxTokens,  (* bound on the tokens that it has generated                  *)
  None        (* Python's None                                              *)

ASSUME DeadlockAssumption ==
  /\ Nodes \subseteq Nat
  /\ MaxHeld \in Nat /\ MaxTokens \in Nat
  /\ None \notin Nodes
  /\ None \notin {"recovered", "deadlocked", "KeyError"}

VARIABLES
  edges,      (* graph.edges: the nodes, and for each those it waits for    *)
  requests,   (* the registry: blocks held and tokens generated, by id      *)
  phase,      (* the part of recover that runs: "idle", "detect", "verify"  *)
  colour,     (* state in find_cycle: 0 is "white", 1 "grey", 2 "black"     *)
  parent,     (* parent in find_cycle                                       *)
  left,       (* the neighbours that the loop of dfs(n) has not looked at   *)
  stack,      (* the calls of dfs that have not returned, outermost first   *)
  cycle,      (* the cycle that the last call of recover found, or <<>>     *)
  answer      (* what it answered: "recovered", "deadlocked", "KeyError"    *)

graph  == <<edges, requests>>
search == <<colour, parent, left, stack>>
vars   == <<graph, phase, search, cycle, answer>>

Request == [held : 0 .. MaxHeld, tokens : 0 .. MaxTokens]

(* Every node has its entry, also one that nobody registered. *)
WithNodes(g, ns) == [n \in DOMAIN g \cup ns |-> IF n \in DOMAIN g THEN g[n] ELSE {}]

(* Mutation: the waits of others for v are kept. *)
WithoutItsWaits(g, v) == [n \in DOMAIN g \ {v} |-> g[n]]

(* remove_request: v, its waits, and the waits for v disappear. *)
WithoutNode(g, v) == [n \in DOMAIN g \ {v} |-> g[n] \ {v}]

NoSearch ==
  /\ phase = "idle"
  /\ colour = <<>> /\ parent = <<>> /\ left = <<>> /\ stack = <<>>

Init ==
  /\ edges = <<>>
  /\ requests = <<>>
  /\ NoSearch
  /\ cycle = <<>>
  /\ answer = None

-----------------------------------------------------------------------------
(* Calls that change the graph.  The report of the last call of recover is  *)
(* forgotten, since it speaks of the graph before them.                     *)
ForgetReport == cycle' = <<>> /\ answer' = None

(* The manager registers n, or replaces what it knew of it. *)
AddRequest(n, r) ==
  /\ phase = "idle"
  /\ requests' = [m \in DOMAIN requests \cup {n} |-> IF m = n THEN r ELSE requests[m]]
  /\ edges' = WithNodes(edges, {n})
  /\ ForgetReport
  /\ UNCHANGED <<phase, search>>

(* The graph alone: a node, a wait, and the end of a request. *)
AddNode(n) ==
  /\ phase = "idle"
  /\ edges' = WithNodes(edges, {n})
  /\ ForgetReport
  /\ UNCHANGED <<requests, phase, search>>

AddWait(waiting, holder) ==
  /\ phase = "idle"
  /\ edges' = [WithNodes(edges, {waiting, holder}) EXCEPT ![waiting] = @ \cup {holder}]
  /\ ForgetReport
  /\ UNCHANGED <<requests, phase, search>>

RemoveRequest(n) ==
  /\ phase = "idle"
  /\ edges' = WithoutNode(edges, n)
  /\ ForgetReport
  /\ UNCHANGED <<requests, phase, search>>

-----------------------------------------------------------------------------
(* find_cycle on the graph g, from its first lines to its return. *)
BeginSearch(g, p) ==
  /\ phase' = p
  /\ colour' = [n \in DOMAIN g |-> "white"]
  /\ parent' = [n \in DOMAIN g |-> None]
  /\ left' = g
  /\ stack' = <<>>

EndSearch ==
  /\ phase' = "idle"
  /\ colour' = <<>> /\ parent' = <<>> /\ left' = <<>> /\ stack' = <<>>

Recover ==
  /\ phase = "idle"
  /\ BeginSearch(edges, "detect")
  /\ ForgetReport
  /\ UNCHANGED graph

Searching == phase # "idle"
Top == stack[Len(stack)]

(* The outer loop calls dfs on a node that no search has reached. *)
VisitRoot(n) ==
  /\ Searching
  /\ stack = <<>>
  /\ colour[n] = "white"
  /\ colour' = [colour EXCEPT ![n] = "grey"]
  /\ stack' = <<n>>
  /\ UNCHANGED <<graph, phase, parent, left, cycle, answer>>

(* The loop of the innermost dfs comes to its neighbour m. *)
LooksAt(m) ==
  /\ Searching
  /\ stack # <<>>
  /\ m \in left[Top]

Descend(m) ==
  /\ LooksAt(m)
  /\ colour[m] = "white"
  /\ left' = [left EXCEPT ![Top] = @ \ {m}]
  /\ colour' = [colour EXCEPT ![m] = "grey"]
  /\ parent' = [parent EXCEPT ![m] = Top]
  /\ stack' = Append(stack, m)
  /\ UNCHANGED <<graph, phase, cycle, answer>>

SkipFinished(m) ==
  /\ LooksAt(m)
  /\ colour[m] = "black"
  /\ left' = [left EXCEPT ![Top] = @ \ {m}]
  /\ UNCHANGED <<graph, phase, colour, parent, stack, cycle, answer>>

(* Mutation: a node that was left may be visited again. *)
Unmarked == "white"

Finished == "black"

(* dfs returns the empty list to its caller. *)
Leave ==
  /\ Searching
  /\ stack # <<>>
  /\ left[Top] = {}
  /\ colour' = [colour EXCEPT ![Top] = Finished]
  /\ stack' = SubSeq(stack, 1, Len(stack) - 1)
  /\ UNCHANGED <<graph, phase, parent, left, cycle, answer>>

-----------------------------------------------------------------------------
(* The innermost node, its parent, the parent of that, up to the root. *)
Callers ==
  LET up[k \in 0 .. Len(stack) - 1] == IF k = 0 THEN Top ELSE parent[up[k - 1]]
  IN  up

(* The steps that the walk along parent takes to come to m. *)
StepsTo(m) == CHOOSE k \in DOMAIN Callers : Callers[k] = m

(* Mutation: the list is returned as it was collected, against the waits. *)
CycleUnreversed(m) ==
  [i \in 1 .. StepsTo(m) + 1 |-> IF i = 1 THEN m ELSE Callers[i - 2]]

(* The cycle closed by a wait of the innermost node for m, an outer one: m  *)
(* and the parents of the innermost node up to m, reversed.                 *)
CycleTo(m) ==
  [i \in 1 .. StepsTo(m) + 1 |->
     IF i <= StepsTo(m) THEN Callers[StepsTo(m) - i] ELSE m]

(* The key of the victim: most blocks, then fewest tokens, then least id. *)
Precedes(u, v) ==
  \/ requests[u].held > requests[v].held
  \/ /\ requests[u].held = requests[v].held
     /\ \/ requests[u].tokens < requests[v].tokens
        \/ requests[u].tokens = requests[v].tokens /\ u < v

Victim(c) == CHOOSE v \in Range(c) : \A u \in Range(c) \ {v} : Precedes(v, u)

BackEdge(m) == LooksAt(m) /\ colour[m] = "grey"

(* The first search has found a cycle of registered requests: recover evicts *)
(* the victim and searches the graph that is left.                           *)
EvictVictim(m) ==
  /\ BackEdge(m)
  /\ phase = "detect"
  /\ LET c == CycleTo(m)
         g == WithoutNode(edges, Victim(c))
     IN  /\ Range(c) \subseteq DOMAIN requests
         /\ requests' = [requests EXCEPT ![Victim(c)].held = 0]
         /\ edges' = g
         /\ cycle' = c
         /\ BeginSearch(g, "verify")
  /\ UNCHANGED answer

(* A node of the cycle was never registered: recover raises KeyError. *)
LookupFails(m) ==
  /\ BackEdge(m)
  /\ phase = "detect"
  /\ ~ Range(CycleTo(m)) \subseteq DOMAIN requests
  /\ cycle' = CycleTo(m)
  /\ answer' = "KeyError"
  /\ EndSearch
  /\ UNCHANGED graph

(* The second search has found a cycle: one victim was not enough. *)
StillDeadlocked(m) ==
  /\ BackEdge(m)
  /\ phase = "verify"
  /\ answer' = "deadlocked"
  /\ EndSearch
  /\ UNCHANGED <<graph, cycle>>

(* Mutation: one call of dfs from the first node. *)
OneVisited ==
  /\ stack = <<>>
  /\ colour # <<>> => \E n \in DOMAIN colour : colour[n] # "white"

(* The outer loop is over. *)
AllVisited == stack = <<>> /\ \A n \in DOMAIN colour : colour[n] # "white"

(* Every node was searched without a cycle: nothing to do, or recovered. *)
NoCycleLeft ==
  /\ Searching
  /\ AllVisited
  /\ answer' = "recovered"
  /\ EndSearch
  /\ UNCHANGED <<graph, cycle>>

Next ==
  \/ \E n \in Nodes, r \in Request : AddRequest(n, r)
  \/ \E n \in Nodes : AddNode(n) \/ RemoveRequest(n)
  \/ \E waiting, holder \in Nodes : AddWait(waiting, holder)
  \/ Recover
  \/ \E n \in DOMAIN colour : VisitRoot(n) \/ Descend(n) \/ SkipFinished(n)
  \/ Leave
  \/ \E n \in DOMAIN colour : EvictVictim(n) \/ LookupFails(n) \/ StillDeadlocked(n)
  \/ NoCycleLeft

Spec == Init /\ [][Next]_vars

-----------------------------------------------------------------------------
(* Types; every request that is waited for is a node, so that a lookup of     *)
(* state[neighbour] never fails, whatever was added and removed before.       *)
TypeOK ==
  /\ DOMAIN edges \subseteq Nodes
  /\ edges \in [DOMAIN edges -> SUBSET DOMAIN edges]
  /\ DOMAIN requests \subseteq Nodes
  /\ requests \in [DOMAIN requests -> Request]
  /\ phase \in {"idle", "detect", "verify"}
  /\ LET searched == IF phase = "idle" THEN {} ELSE DOMAIN edges
     IN  /\ colour \in [searched -> {"white", "grey", "black"}]
         /\ parent \in [searched -> Nodes \cup {None}]
         /\ left \in [searched -> SUBSET Nodes]
         /\ stack \in Seq(searched)
  /\ cycle \in Seq(Nodes)
  /\ answer \in {None, "recovered", "deadlocked", "KeyError"}

(* A set of nodes each of which waits for one of the set: in a finite graph, *)
(* there is one if and only if there is a cycle.                             *)
Deadlock(g, S) == S # {} /\ \A n \in S : g[n] \cap S # {}

Deadlocked(g) == \E S \in SUBSET DOMAIN g : Deadlock(g, S)

(* What a call answers is true of the graph that it leaves: it says recovered *)
(* exactly when no requests wait for each other, whatever cycle the search    *)
(* met first, and it fails only if an unregistered node is in a deadlock.     *)
AnswerHonest ==
  /\ answer = "recovered" => ~Deadlocked(edges)
  /\ answer = "deadlocked" => Deadlocked(edges)
  /\ answer = "KeyError" =>
       /\ Deadlock(edges, Range(cycle))
       /\ ~ Range(cycle) \subseteq DOMAIN requests

IsCycle(g, c) ==
  /\ IsInjective(c)
  /\ \A i \in 1 .. Len(c) - 1 : c[i + 1] \in g[c[i]]
  /\ c[1] \in g[c[Len(c)]]

(* The cycle of a report is a simple cycle of waits of the graph that recover *)
(* was called on, in their order, and a request loses its place only if it    *)
(* was on that cycle: recover never evicts a bystander, nor two requests.     *)
EvictsFromCycle ==
  [][/\ cycle' \notin {<<>>, cycle} => IsCycle(edges, cycle')
     /\ DOMAIN edges' # DOMAIN edges /\ phase # "idle" =>
          \E v \in Range(cycle') : DOMAIN edges' = DOMAIN edges \ {v}]_vars

(* "O(V+E)": every step of a search uses up one of the waits and of twice the *)
(* nodes that there are at its beginning, and none is ever given back.        *)
WorkLeft ==
  LET waits == {w \in Nodes \X Nodes : w[1] \in DOMAIN left /\ w[2] \in left[w[1]]}
      in(c) == {n \in DOMAIN colour : colour[n] = c}
  IN  Cardinality(waits) + 2 * Cardinality(in("white")) + Cardinality(in("grey"))

LinearSearch ==
  [][phase # "idle" /\ phase' = phase => WorkLeft' < WorkLeft]_vars
=============================================================================
