---------------------------- MODULE MCFlowRunner ----------------------------
(***************************************************************************)
(* Instances of FlowRunner for TLC, of two kinds.  MCFlows are the flows   *)
(* of three nodes that pass the audit, with at most one edge between two   *)
(* nodes and any label on it: every branch, chain and join; the entry has  *)
(* the middle name so that the sort by name matters.  MCGraphs are all     *)
(* graphs over three names, loops, lost edges and missing entries          *)
(* included, for the analyses of topo.ts.                                  *)
(***************************************************************************)
EXTENDS FlowRunner

CONSTANT Labels   \* the edge labels of MCFlows

Names == 1 .. 3
Nowhere == 4      \* an id that is in no node list

MCKind == (1 :> "condition") @@ (2 :> "agent") @@ (3 :> "tool")

\* the forward pairs of an order, each with one label or no edge
EdgeSets(order) ==
  LET pairs == {<<order[1], order[2]>>, <<order[1], order[3]>>, <<order[2], order[3]>>}
  IN {{[from |-> p[1], to |-> p[2], on |-> label[p]] : p \in {q \in pairs : label[q] # "none"}} :
        label \in [pairs -> Labels \cup {"none"}]}

MCFlows ==
  {f \in {[nodes |-> <<1, 2, 3>>, kind |-> MCKind, edges |-> es, entry |-> 2] :
            es \in EdgeSets(<<2, 1, 3>>) \cup EdgeSets(<<2, 3, 1>>)} :
     auditGraph(f) = {}}

Graph(list, entry, pairs) ==
  [nodes |-> list, kind |-> MCKind, entry |-> entry,
   edges |-> {[from |-> p[1], to |-> p[2], on |-> "always"] : p \in pairs}]

MCGraphs ==
  {Graph(<<3, 1, 2>>, 1, pairs) : pairs \in SUBSET (Names \X Names)}
    \cup {Graph(<<2, 1, 2>>, 1, {<<1, 2>>}), Graph(<<3, 1, 2>>, Nowhere, {<<1, 2>>, <<2, 3>>}),
          Graph(<<1>>, 1, {<<1, Nowhere>>}), Graph(<<1>>, 1, {<<Nowhere, 1>>})}

MCAll == MCFlows \cup MCGraphs

Plain == [mode |-> "real", hosted |-> NodeKinds, gated |-> FALSE, debugged |-> FALSE]

MCPlainCalls == {Plain}

MCCalls == {Plain,
            [Plain EXCEPT !.gated = TRUE],
            [Plain EXCEPT !.debugged = TRUE],
            [Plain EXCEPT !.mode = "deterministic", !.hosted = {"agent", "tool"}],
            [Plain EXCEPT !.mode = "dry_run", !.hosted = {"tool"}]}
=============================================================================
