----------------------------- MODULE MCWaiting -----------------------------
(* TLC instance of what must come to an end: the worker program's cycles   *)
(* and its shutdown, and a deployment that awaits its verdict.  A behaviour *)
(* is one of a single part, the other stays as it begins.                  *)
EXTENDS MCWorkerRuntime, MCDeployment

VARIABLE part

waitingVars == <<part, vars, deployVars>>

WaitingInit ==
  /\ part \in {"cycle", "deployment"}
  /\ Init /\ DeployInit
  /\ part # "deployment" => firstDeploy

InCycle(A) == part = "cycle" /\ A /\ UNCHANGED <<part, deployVars>>
InDeployment(A) == part = "deployment" /\ A /\ UNCHANGED <<part, vars>>

WaitingNext == InCycle(Next) \/ InDeployment(DeployNext)

(* Fairness and DeployFairness.  As a behaviour has one part, a condition  *)
(* on one and a condition on the other are one condition on the            *)
(* disjunction of their actions.                                           *)
WaitingFairness ==
  /\ WF_waitingVars(InDeployment(HolderStep) \/ InCycle(\E s \in Source : Expire(s)))
  /\ \A p \in Process : /\ WF_waitingVars(InCycle(Continue(p)))
                        /\ WF_waitingVars(InCycle(Restart(p)))
  /\ \A p \in Process, s \in Source :
       WF_waitingVars(InCycle(HeartbeatFails(p, s) /\ faults' = faults))
  /\ \A a \in DeployAttempts : /\ WF_waitingVars(InDeployment(DeadlinePasses(a)))
                               /\ SF_waitingVars(InDeployment(Retire(a)))
                               /\ SF_waitingVars(InDeployment(WatchdogResolves(a)))

Waiting == WaitingInit /\ [][WaitingNext]_waitingVars /\ WaitingFairness
=============================================================================
