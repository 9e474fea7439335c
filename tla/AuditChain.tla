----------------------------- MODULE AuditChain -----------------------------
(***************************************************************************)
(* What an audit log promises, whatever produces it: one log of batches    *)
(* per workspace, extended at its end only, every batch holding at least   *)
(* one event of that workspace, no event logged twice.  AuditEmitter is    *)
(* checked, and proved, to implement this specification.                   *)
(***************************************************************************)
EXTENDS Sequences

CONSTANTS
  Workspaces,   \* the workspaces whose events are audited
  Events,       \* the events that may be handed to the emitter
  WorkspaceOf   \* the workspace each event carries (event.workspaceId)

VARIABLE log    \* per workspace, the event sets of its batches, oldest first

EventsOf(w) == {e \in Events : WorkspaceOf[e] = w}

Logged(w) == UNION {log[w][i] : i \in DOMAIN log[w]}

Init == log = [w \in Workspaces |-> <<>>]

AppendBatch(w, evs) ==
  /\ evs # {}
  /\ evs \subseteq EventsOf(w) \ Logged(w)
  /\ log' = [log EXCEPT ![w] = Append(@, evs)]

Next == \E w \in Workspaces, evs \in SUBSET Events : AppendBatch(w, evs)

Spec == Init /\ [][Next]_log
=============================================================================
