----------------------------- MODULE FencedLog -----------------------------
(***************************************************************************)
(* What the worker lease promises to everything that persists evidence: a  *)
(* store whose writers are granted strictly increasing generations, at     *)
(* most one of them at a time, and which accepts a write only from the     *)
(* generation that is current when the write commits.                      *)
(*                                                                         *)
(* WorkerLease, the model of the PostgreSQL lease, implements this         *)
(* specification.                                                          *)
(***************************************************************************)
EXTENDS Naturals

VARIABLES
  issued,         \* the highest generation granted so far
  current,        \* the generation that may write, 0 when there is none
  lastCommitted   \* the generation of the last accepted write

logVars == <<issued, current, lastCommitted>>

LogInit ==
  /\ issued = 0
  /\ current = 0
  /\ lastCommitted = 0

Grant ==
  /\ issued' \in Nat
  /\ issued' > issued
  /\ current' = issued'
  /\ UNCHANGED lastCommitted

Revoke ==
  /\ current' = 0
  /\ UNCHANGED <<issued, lastCommitted>>

Write ==
  /\ current # 0
  /\ lastCommitted' = current
  /\ UNCHANGED <<issued, current>>

LogNext == Grant \/ Revoke \/ Write

LogSpec == LogInit /\ [][LogNext]_logVars
=============================================================================
