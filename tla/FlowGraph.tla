----------------------------- MODULE FlowGraph ------------------------------
(***************************************************************************)
(* The pure part of os-flow: which edges an outcome opens (edge-matches.ts)*)
(* and the graph analyses of topo.ts.  A flow is a record                  *)
(*   nodes  the sequence of its node ids (naturals: topoSort sorts names), *)
(*   kind   the kind of each node id,                                      *)
(*   edges  a set of [from, to, on] records,                               *)
(*   entry  the node a run starts from.                                    *)
(***************************************************************************)
EXTENDS Naturals, Sequences, FiniteSets, FiniteSetsExt, SequencesExt

EdgeOn == {"success", "failure", "always", "true", "false"}

(* What a node's handler may come to: "true" and "false" are ok outcomes   *)
(* whose value is that boolean, "ok" any other ok outcome.                 *)
Outcome == {"ok", "true", "false", "skipped", "failed", "paused"}

edgeMatches(on, outcome) ==
  \/ on = "always"
  \/ on = "success" /\ outcome \in {"ok", "true", "false", "skipped"}
  \/ on = "failure" /\ outcome = "failed"
  \/ on \in {"true", "false"} /\ outcome = on

Ids(flow) == ToSet(flow.nodes)

EdgesFrom(flow, id) == {e \in flow.edges : e.from = id}

\* The targets that the outcomes decided so far open.
Opened(flow, outcomes) ==
  {e.to : e \in {d \in flow.edges :
                   d.from \in DOMAIN outcomes /\ edgeMatches(d.on, outcomes[d.from])}}

\* outcomes.set
WithOutcome(outcomes, id, outcome) ==
  [n \in DOMAIN outcomes \cup {id} |-> IF n = id THEN outcome ELSE outcomes[n]]

\* Mutant of SeedsEnable: a resumed run forgets what its seeds open.
SeedsEnableEntry(flow, seeds) == {flow.entry}

\* What a run starts with: the entry, or what the outcomes it is seeded with open.
SeedsEnable(flow, seeds) ==
  IF seeds = <<>> THEN {flow.entry} ELSE Opened(flow, seeds) \ DOMAIN seeds

\* depth-first search from a node; n rounds reach everything in n nodes
reachableFrom(flow, entry) ==
  LET reach[k \in Nat] ==
        IF k = 0 THEN {entry}
        ELSE LET near == reach[k - 1]
             IN near \cup {e.to : e \in {d \in flow.edges : d.from \in near}}
  IN reach[Len(flow.nodes)]

\* Mutants of topoOrder: the nodes as listed; of the ready nodes the last by name.
topoOrderAsListed(flow) == flow.nodes

topoOrderLastFirst(flow) ==
  LET ready(order) ==
        {n \in Ids(flow) \ ToSet(order) :
           \A e \in flow.edges : e.to = n => e.from \in ToSet(order)}
      order[k \in Nat] ==
        IF k = 0 THEN <<>>
        ELSE LET next == ready(order[k - 1])
             IN IF next = {} THEN order[k - 1] ELSE Append(order[k - 1], Max(next))
  IN order[Len(flow.nodes)]

\* Kahn's algorithm; of the nodes that are ready the first by name goes first
topoOrder(flow) ==
  LET ready(order) ==
        {n \in Ids(flow) \ ToSet(order) :
           \A e \in flow.edges : e.to = n => e.from \in ToSet(order)}
      order[k \in Nat] ==
        IF k = 0 THEN <<>>
        ELSE LET before == order[k - 1]
                 next == ready(before)
             IN IF next = {} THEN before ELSE Append(before, Min(next))
  IN order[Len(flow.nodes)]

\* the codes of auditGraph's issues; each group is reported alone
auditGraph(flow) ==
  LET shape ==
        {c \in {"duplicate_node_id", "entry_missing", "edge_from_missing", "edge_to_missing"} :
           \/ c = "duplicate_node_id" /\ Cardinality(Ids(flow)) # Len(flow.nodes)
           \/ c = "entry_missing" /\ flow.entry \notin Ids(flow)
           \/ c = "edge_from_missing" /\ \E e \in flow.edges : e.from \notin Ids(flow)
           \/ c = "edge_to_missing" /\ \E e \in flow.edges : e.to \notin Ids(flow)}
  IN IF shape # {} THEN shape
     ELSE IF Len(topoOrder(flow)) # Len(flow.nodes) THEN {"cycle"}
     ELSE {c \in {"unreachable_node"} : Ids(flow) \ reachableFrom(flow, flow.entry) # {}}

-----------------------------------------------------------------------------
(* What the analyses stand for, in terms that name no algorithm            *)

\* There is a path of at least one edge from a to b: every set of nodes that has the
\* targets of the edges leaving a, and of those leaving the set, has b.
Path(flow, a, b) ==
  \A S \in SUBSET Ids(flow) :
    (\A e \in flow.edges : e.from \in S \cup {a} => e.to \in S) => b \in S

WellShaped(flow) ==
  /\ Cardinality(Ids(flow)) = Len(flow.nodes)
  /\ flow.entry \in Ids(flow)
  /\ \A e \in flow.edges : e.from \in Ids(flow) /\ e.to \in Ids(flow)

\* auditGraph lets a flow run exactly when its node ids are distinct, its edges
\* lead to nodes, it has no cycle and every node is reachable from the entry.
AuditPassesExactly(flow) ==
  auditGraph(flow) = {} <=>
    /\ WellShaped(flow)
    /\ \A n \in Ids(flow) : ~Path(flow, n, n)
    /\ \A n \in Ids(flow) \ {flow.entry} : Path(flow, flow.entry, n)

\* The orders of all nodes that put the source of every edge before its target.
TopologicalOrders(flow) ==
  {t \in [DOMAIN flow.nodes -> Ids(flow)] :
     /\ ToSet(t) = Ids(flow)
     /\ \A e \in flow.edges : \A i, j \in DOMAIN t : t[i] = e.from /\ t[j] = e.to => i < j}

\* topoSort succeeds exactly on the graphs that have a topological order, and
\* then returns the least one by name, so that the order depends neither on the
\* order of the node list nor on that of the edges.
SortReturnsTheLeast(flow) ==
  LET sorted == topoOrder(flow)
      orders == TopologicalOrders(flow)
  IN WellShaped(flow) =>
       IF orders = {} THEN Len(sorted) < Len(flow.nodes)
       ELSE /\ sorted \in orders
            /\ \A t \in orders \ {sorted} :
                 \E i \in DOMAIN t : sorted[i] < t[i] /\ \A j \in 1 .. i - 1 : sorted[j] = t[j]
=============================================================================
