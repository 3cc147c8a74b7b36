--------------------------- MODULE MCWorkerLease ---------------------------
(* TLC instance of WorkerLease and of KassalappExecutor, two parts of the   *)
(* worker that meet only in the fence token: in a behaviour either leases   *)
(* change hands or one job runs, and the other part stays as it begins.     *)
(* Processes and sessions are interchangeable.                              *)
EXTENDS WorkerLease, KassalappExecutor, TLC

VARIABLE part

Interchangeable == Permutations(Owner) \cup Permutations(Session)

LeaseOrJobInit ==
  /\ part \in {"lease", "job"}
  /\ Init /\ JobInit
  /\ part = "lease" => approved

LeaseOrJobNext ==
  /\ UNCHANGED part
  /\ \/ part = "lease" /\ Next /\ UNCHANGED jobVars
     \/ part = "job" /\ JobNext /\ UNCHANGED vars

LeaseOrJob == LeaseOrJobInit /\ [][LeaseOrJobNext]_<<part, vars, jobVars>>
=============================================================================
