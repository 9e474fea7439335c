--------------------------- MODULE MCAuditEmitter ---------------------------
(***************************************************************************)
(* Instances of AuditEmitter for TLC: two events of one workspace, whose   *)
(* flushes may overlap, one of another, and batch ids enough for every     *)
(* event to be flushed alone.                                              *)
(***************************************************************************)
EXTENDS AuditEmitter, TLC

CONSTANTS e1, e2, e3, w1, w2, b1, b2, b3

MCWorkspaces == {w1, w2}
MCEvents == {e1, e2, e3}
MCBatches == {b1, b2, b3}
MCWorkspaceOf == (e1 :> w1) @@ (e2 :> w1) @@ (e3 :> w2)
=============================================================================
