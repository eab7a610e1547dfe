------------------------------ MODULE LeaseTiming ------------------------------
(***************************************************************************)
(* How long two electors may lead at once, and how long a released Lease   *)
(* stays untaken: ReconcilerLease with two history variables that measure  *)
(* either situation in ticks.                                              *)
(***************************************************************************)
EXTENDS ReconcilerLease

CONSTANT Long \* bound: the measures saturate here, above every limit that is claimed

ASSUME LongAssumption ==
  /\ Long \in Nat
  /\ OpTimeout + Lag + StaleAfter + ProbeLag < Long
  /\ (1 + MaxFaults) * (RenewInterval + Lag) + OpTimeout + Lag < Long

VARIABLES
  stray,   \* ticks each replica has led without being the Lease's holder
  vacant   \* ticks a running replica has left a cleared Lease untaken

timedVars == <<vars, stray, vacant>>

TimedInit ==
  /\ Init
  /\ stray = [r \in Replica |-> 0]
  /\ vacant = [r \in Replica |-> 0]

\* A measure counts ticks and is reset by the step that ends its situation.
Measured(count, situation) ==
  [r \in Replica |-> IF ~situation[r] THEN 0
                     ELSE IF Tick /\ count[r] < Long THEN count[r] + 1 ELSE count[r]]

Stray == [r \in Replica |-> leader[r] /\ lease.holder # r]

Vacant == [r \in Replica |-> /\ lease.present /\ lease.readable /\ lease.holder = NoHolder
                             /\ pc[r] \in {"idle", "get", "put"}]

Measure ==
  /\ stray' = Measured(stray, Stray')
  /\ vacant' = Measured(vacant, Vacant')

\* Next, action by action.
TimedNext ==
  \/ \E r \in Replica :
       \/ Start(r) /\ Measure
       \/ BeginEval(r) /\ Measure
       \/ Evaluate(r) /\ Measure
       \/ Conclude(r) /\ Measure
       \/ Leave(r) /\ Measure
       \/ ProbeRestart(r) /\ Measure
       \/ EvalFails(r) /\ Measure
       \/ CancelIdle(r) /\ Measure
       \/ CancelBusy(r) /\ Measure
       \/ Crash(r) /\ Measure
       \/ Wedge(r) /\ Measure
  \/ \E m \in wire :
       \/ Serve(m) /\ Measure
       \/ Lose(m) /\ Measure
  \/ DeleteLease /\ Measure
  \/ GarbleRenewTime /\ Measure
  \/ Tick /\ Measure

TimedSpec == TimedInit /\ [][TimedNext]_timedVars

FairTimedSpec == TimedSpec /\ Fairness

-----------------------------------------------------------------------------
(* Properties *)

\* Two replicas may lead at once, but a leader whose Lease another took (or an
\* operator deleted) notices within one renew interval and one call; only a
\* wedged one keeps leading until the kubelet has acted on /healthz.
OverlapBounded ==
  \A r \in Replica :
    stray[r] <= IF pc[r] = "wedged" THEN OpTimeout + Lag + StaleAfter + ProbeLag
                ELSE RenewInterval + Lag + OpTimeout + Lag

\* release() hands off promptly: a cleared Lease is retaken by any running
\* replica within one renew interval and one call, and every fault costs at
\* most one further interval, never the full leaseDuration.
HandoffBounded ==
  \A r \in Replica :
    vacant[r] <= (1 + faults) * (RenewInterval + Lag) + OpTimeout + Lag
=============================================================================
