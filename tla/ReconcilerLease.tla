--------------------------- MODULE ReconcilerLease ---------------------------
(***************************************************************************)
(* Lease-based leader election of `llz reconcile`                          *)
(* (tools/internal/extensions/lifecycle/reconciler/reconcile_leader.go).   *)
(*                                                                         *)
(* Replicas of the reconciler evaluate one coordination.k8s.io Lease.  An  *)
(* evaluation is a GET, a decision, and at most one write; the three are   *)
(* separate steps here, because the write is a merge PATCH that carries no *)
(* resourceVersion: whatever happened to the Lease after the GET, the      *)
(* write still lands.  A write whose caller gave up may also land late.    *)
(*                                                                         *)
(* Time is discrete and relative: the model keeps AGES (of the renewTime,  *)
(* of a running evaluation, of a request in flight), never a wall clock,   *)
(* so the state space is finite without a bound on the length of a run.    *)
(***************************************************************************)
EXTENDS Integers

CONSTANTS
  Replica,        \* pods that may run the elector, by identity (POD_NAME)
  Outgoing,       \* identity of a pod of an earlier rollout, no longer running
  NoHolder,       \* holderIdentity cleared by release()
  LeaseDuration,  \* leaseDuration, in ticks
  RenewInterval,  \* renewInterval, in ticks
  OpTimeout,      \* opTimeout, in ticks
  StaleAfter,     \* staleAfter, in ticks
  ProbeLag,       \* ticks the kubelet needs to act on a failing /healthz
  Lag,            \* ticks a goroutine may run late
  WireLife,       \* ticks a write may survive in flight
  Skew,           \* ticks each replica's clock is ahead of the slowest one
  AgeCap,         \* bound: ages of a renewTime saturate here
  MaxFaults       \* bound: faults of the environment in one behaviour

Holder == Replica \cup {Outgoing, NoHolder}

ASSUME IdentityAssumption ==
  /\ Outgoing \notin Replica
  /\ NoHolder \notin Replica
  /\ NoHolder # Outgoing

ASSUME TimingAssumption ==
  /\ {LeaseDuration, RenewInterval, OpTimeout, StaleAfter,
      ProbeLag, Lag, WireLife, AgeCap, MaxFaults} \subseteq Nat
  /\ Skew \in [Replica -> Nat]
  /\ OpTimeout + Lag <= WireLife
  \* a saturated age is expired on every clock
  /\ \A r \in Replica : LeaseDuration + Skew[r] < AgeCap

\* 30s, 10s and 5s leave room for a late write and for uneven clocks.
ASSUME RenewalAssumption ==
  /\ OpTimeout <= RenewInterval
  /\ \A r, q \in Replica :
       WireLife + RenewInterval + OpTimeout + 2 * Lag + Skew[q] - Skew[r]
         <= LeaseDuration

\* 30s without an evaluation leave room for a late tick and a late call.
ASSUME ProbeAssumption == RenewInterval + OpTimeout + 2 * Lag <= StaleAfter

VARIABLES
  lease,    \* the Lease object in the API server
  pc,       \* where each replica's elector goroutine is
  leader,   \* isLeader
  since,    \* ticks since the current or the latest evaluation began
  evalAge,  \* ticks since lastEval was stamped
  reply,    \* answer to a write its caller still waits for
  wire,     \* writes on their way to the API server
  faults    \* faults so far

vars == <<lease, pc, leader, since, evalAge, reply, wire, faults>>

-----------------------------------------------------------------------------
(* Shape of the state *)

\* "get" and "put" are the two calls of tryAcquire, "release" the call of
\* release(), "wedged" a call that never returns, "gone" a pod that left.
Place == {"down", "idle", "get", "put", "release", "wedged", "gone"}

Running == {"idle", "get", "put", "release", "wedged"}

Lease == [present : BOOLEAN, holder : Holder, age : 0..AgeCap, readable : BOOLEAN]

Request == [from : Replica, op : {"create", "claim", "release"},
            age : 0..WireLife, waited : BOOLEAN]

NoLease == [present |-> FALSE, holder |-> NoHolder, age |-> AgeCap, readable |-> TRUE]

HeldBy(h, a) == [present |-> TRUE, holder |-> h, age |-> a, readable |-> TRUE]

TypeOK ==
  /\ lease \in Lease
  /\ pc \in [Replica -> Place]
  /\ leader \in [Replica -> BOOLEAN]
  /\ since \in [Replica -> Nat]
  /\ evalAge \in [Replica -> Nat]
  /\ reply \in [Replica -> {"none", "ok", "rejected"}]
  /\ wire \in SUBSET Request
  /\ faults \in 0..MaxFaults
  \* a replica that runs no elector does not lead
  /\ \A r \in Replica : pc[r] \notin Running => ~leader[r]

Init ==
  /\ lease \in {NoLease} \cup {HeldBy(Outgoing, a) : a \in {0, AgeCap}}
  /\ pc = [r \in Replica |-> "down"]
  /\ leader = [r \in Replica |-> FALSE]
  /\ since = [r \in Replica |-> 0]
  /\ evalAge = [r \in Replica |-> 0]
  /\ reply = [r \in Replica |-> "none"]
  /\ wire = {}
  /\ faults = 0

-----------------------------------------------------------------------------
(* Reading the Lease *)

ClockOf(h) == IF h \in Replica THEN Skew[h] ELSE 0

\* now() - renewTime, as replica r computes it from its own clock.
SeenAge(r) == lease.age + Skew[r] - ClockOf(lease.holder)

\* A plausible bug: the case for a cleared holderIdentity is missing, so a
\* released Lease is taken for a live peer's.
TakeableUnlessReleased(r) ==
  /\ lease.readable
  /\ lease.holder # NoHolder
  /\ SeenAge(r) > LeaseDuration

\* A plausible bug: one missed renewal is taken for an expired Lease.
TakeableTooSoon(r) ==
  /\ lease.readable
  /\ lease.holder = NoHolder \/ SeenAge(r) > RenewInterval

Takeable(r) ==
  /\ lease.readable
  /\ lease.holder = NoHolder \/ SeenAge(r) > LeaseDuration

-----------------------------------------------------------------------------
(* Writing the Lease *)

Send(r, op) ==
  wire' = wire \cup {[from |-> r, op |-> op, age |-> 0, waited |-> TRUE]}

\* The caller of r's write is gone or gave up: the write is lost, or still on
\* its way with nobody waiting for the answer.
Forsake(r) ==
  LET mine == {m \in wire : m.from = r /\ m.waited} IN
  \/ wire' = wire \ mine
  \/ /\ mine # {}
     /\ wire' = (wire \ mine) \cup {[m EXCEPT !.waited = FALSE] : m \in mine}

Answer(m, a) ==
  reply' = IF m.waited THEN [reply EXCEPT ![m.from] = a] ELSE reply

\* What the API server does with one write.
Serve(m) ==
  /\ m \in wire
  /\ wire' = wire \ {m}
  /\ \/ /\ m.op = "create" /\ ~lease.present
        /\ lease' = HeldBy(m.from, m.age)
        /\ Answer(m, "ok")
     \/ /\ m.op = "claim" /\ lease.present
        /\ lease' = HeldBy(m.from, m.age)
        /\ Answer(m, "ok")
     \/ /\ m.op = "release" /\ lease.present
        /\ lease' = [lease EXCEPT !.holder = NoHolder]
        /\ Answer(m, "ok")
     \/ /\ IF m.op = "create" THEN lease.present ELSE ~lease.present
        /\ Answer(m, "rejected")
        /\ UNCHANGED lease
  /\ UNCHANGED <<pc, leader, since, evalAge, faults>>

Lose(m) ==
  /\ m \in wire
  /\ ~m.waited
  /\ wire' = wire \ {m}
  /\ UNCHANGED <<lease, pc, leader, since, evalAge, reply, faults>>

-----------------------------------------------------------------------------
(* One evaluation: tryAcquire *)

\* A plausible bug: an evaluation that fails leaves isLeader as it was.
EndEvalKeepingLead(r, won) ==
  /\ pc' = [pc EXCEPT ![r] = "idle"]
  /\ leader' = [leader EXCEPT ![r] = won \/ @]
  /\ evalAge' = [evalAge EXCEPT ![r] = 0]

\* setLeader(won), then the deferred markEval.
EndEval(r, won) ==
  /\ pc' = [pc EXCEPT ![r] = "idle"]
  /\ leader' = [leader EXCEPT ![r] = won]
  /\ evalAge' = [evalAge EXCEPT ![r] = 0]

BeginEval(r) ==
  /\ pc[r] = "idle"
  /\ since[r] >= RenewInterval
  /\ pc' = [pc EXCEPT ![r] = "get"]
  /\ since' = [since EXCEPT ![r] = 0]
  /\ UNCHANGED <<lease, leader, evalAge, reply, wire, faults>>

Write(r, op) ==
  /\ pc' = [pc EXCEPT ![r] = "put"]
  /\ Send(r, op)
  /\ UNCHANGED <<leader, evalAge>>

\* A plausible bug: standing back for a live peer forgets setLeader(false).
StandBackStillLeading(r) ==
  /\ EndEval(r, leader[r])
  /\ UNCHANGED wire

StandBack(r) ==
  /\ EndEval(r, FALSE)
  /\ UNCHANGED wire

\* The GET answers and the replica acts on what it saw.
Evaluate(r) ==
  /\ pc[r] = "get"
  /\ \/ ~lease.present /\ Write(r, "create")
     \/ lease.present /\ (lease.holder = r \/ Takeable(r)) /\ Write(r, "claim")
     \/ lease.present /\ lease.holder # r /\ ~Takeable(r) /\ StandBack(r)
  /\ UNCHANGED <<lease, since, reply, faults>>

\* A plausible bug: an accepted write is taken for a refused one, and the reverse.
ConcludeInverted(r) ==
  /\ pc[r] = "put"
  /\ reply[r] # "none"
  /\ EndEval(r, reply[r] # "ok")
  /\ reply' = [reply EXCEPT ![r] = "none"]
  /\ UNCHANGED <<lease, since, wire, faults>>

\* The write answered: leader exactly when it was accepted.
Conclude(r) ==
  /\ pc[r] = "put"
  /\ reply[r] # "none"
  /\ EndEval(r, reply[r] = "ok")
  /\ reply' = [reply EXCEPT ![r] = "none"]
  /\ UNCHANGED <<lease, since, wire, faults>>

Fault ==
  /\ faults < MaxFaults
  /\ faults' = faults + 1

\* The GET, or the write, fails or runs into opTimeout.
EvalFails(r) ==
  /\ pc[r] \in {"get", "put"}
  /\ Fault
  /\ EndEval(r, FALSE)
  /\ Forsake(r)
  /\ reply' = [reply EXCEPT ![r] = "none"]
  /\ UNCHANGED <<lease, since>>

-----------------------------------------------------------------------------
(* Life of a pod *)

\* Process start: newLeaderElector, then run() evaluates at once.
Start(r) ==
  /\ pc[r] = "down"
  /\ pc' = [pc EXCEPT ![r] = "get"]
  /\ since' = [since EXCEPT ![r] = 0]
  /\ evalAge' = [evalAge EXCEPT ![r] = 0]
  /\ UNCHANGED <<lease, leader, reply, wire, faults>>

\* A plausible bug: a process that stops still answers IsLeader() with true.
StopKeepingLead(r, place) ==
  /\ pc' = [pc EXCEPT ![r] = place]
  /\ since' = [since EXCEPT ![r] = 0]
  /\ evalAge' = [evalAge EXCEPT ![r] = 0]
  /\ reply' = [reply EXCEPT ![r] = "none"]
  /\ UNCHANGED leader

Stop(r, place) ==
  /\ pc' = [pc EXCEPT ![r] = place]
  /\ leader' = [leader EXCEPT ![r] = FALSE]
  /\ since' = [since EXCEPT ![r] = 0]
  /\ evalAge' = [evalAge EXCEPT ![r] = 0]
  /\ reply' = [reply EXCEPT ![r] = "none"]

\* A rollout or a scale-down always leaves some pod that is not terminating.
Survivor(r) == \E q \in Replica \ {r} : pc[q] \notin {"release", "gone"}

\* SIGTERM reaches the select of run() between two evaluations.  A leader
\* sends its release; anyone else leaves.  With a tick pending as well, the
\* select may take the tick: the evaluation fails at once on the cancelled
\* context, and release() then finds a non-leader.
CancelIdle(r) ==
  /\ pc[r] = "idle"
  /\ Survivor(r)
  /\ \/ /\ leader[r]
        /\ pc' = [pc EXCEPT ![r] = "release"]
        /\ since' = [since EXCEPT ![r] = 0]
        /\ Send(r, "release")
        /\ UNCHANGED <<leader, evalAge, reply>>
     \/ /\ leader[r] => since[r] >= RenewInterval
        /\ Stop(r, "gone")
        /\ UNCHANGED wire
  /\ UNCHANGED <<lease, faults>>

\* SIGTERM during an evaluation: its call is cancelled, isLeader drops, and
\* release() returns without clearing the Lease.
CancelBusy(r) ==
  /\ pc[r] \in {"get", "put"}
  /\ Survivor(r)
  /\ Stop(r, "gone")
  /\ Forsake(r)
  /\ UNCHANGED <<lease, faults>>

\* release() returns, or the process exits first: runReconcile waits for the
\* lanes, not for the elector.
Leave(r) ==
  /\ pc[r] = "release"
  /\ Stop(r, "gone")
  /\ Forsake(r)
  /\ UNCHANGED <<lease, faults>>

Crash(r) ==
  /\ pc[r] \in Running
  /\ Fault
  /\ Stop(r, IF pc[r] = "release" THEN "gone" ELSE "down")
  /\ Forsake(r)
  /\ UNCHANGED lease

\* A call hangs in a way opTimeout does not cover; isLeader keeps its value.
Wedge(r) ==
  /\ pc[r] \in {"get", "put"}
  /\ Fault
  /\ pc' = [pc EXCEPT ![r] = "wedged"]
  /\ reply' = [reply EXCEPT ![r] = "none"]
  /\ Forsake(r)
  /\ UNCHANGED <<lease, leader, since, evalAge>>

Healthy(r) == evalAge[r] <= StaleAfter

\* /healthz answers 503 and the kubelet restarts the container, which keeps
\* the pod's name and so the elector's identity.
ProbeRestart(r) ==
  /\ pc[r] \in Running \ {"release"}
  /\ ~Healthy(r)
  /\ Stop(r, "down")
  /\ Forsake(r)
  /\ UNCHANGED <<lease, faults>>

-----------------------------------------------------------------------------
(* Other actors on the Lease object *)

DeleteLease ==
  /\ lease.present
  /\ Fault
  /\ lease' = NoLease
  /\ UNCHANGED <<pc, leader, since, evalAge, reply, wire>>

GarbleRenewTime ==
  /\ lease.present /\ lease.readable
  /\ Fault
  /\ lease' = [lease EXCEPT !.readable = FALSE]
  /\ UNCHANGED <<pc, leader, since, evalAge, reply, wire>>

-----------------------------------------------------------------------------
(* Time *)

\* The scheduler, the API server and the kubelet are at most so late.
OnTime(r) ==
  /\ pc[r] = "idle" => since[r] < RenewInterval + Lag
  /\ pc[r] \in {"get", "put", "release"} => since[r] < OpTimeout + Lag
  /\ pc[r] \in Running => evalAge[r] < StaleAfter + ProbeLag

Tick ==
  /\ \A r \in Replica : OnTime(r)
  /\ \A m \in wire : m.age < WireLife
  /\ lease' = [lease EXCEPT !.age = IF @ < AgeCap THEN @ + 1 ELSE @]
  /\ wire' = {[m EXCEPT !.age = @ + 1] : m \in wire}
  /\ since' = [r \in Replica |->
                 IF pc[r] \in {"idle", "get", "put", "release"} THEN since[r] + 1 ELSE since[r]]
  /\ evalAge' = [r \in Replica |-> IF pc[r] \in Running THEN evalAge[r] + 1 ELSE evalAge[r]]
  /\ UNCHANGED <<pc, leader, reply, faults>>

-----------------------------------------------------------------------------

\* The elector's own steps, which its goroutine, the API server and the
\* kubelet take without anything going wrong.
Step(r) ==
  \/ Start(r)
  \/ BeginEval(r)
  \/ Evaluate(r)
  \/ Conclude(r)
  \/ Leave(r)
  \/ ProbeRestart(r)

Disturb(r) ==
  \/ EvalFails(r)
  \/ CancelIdle(r)
  \/ CancelBusy(r)
  \/ Crash(r)
  \/ Wedge(r)

Next ==
  \/ \E r \in Replica : Step(r) \/ Disturb(r)
  \/ \E m \in wire : Serve(m) \/ Lose(m)
  \/ DeleteLease
  \/ GarbleRenewTime
  \/ Tick

Spec == Init /\ [][Next]_vars

\* The process runs, the API server answers what it is still asked, the
\* kubelet restarts what exited or failed its probe, and time passes.
\* Nothing obliges an operator, a rollout or a fault to happen.
Fairness ==
  /\ \A r \in Replica : WF_vars(Step(r))
  /\ WF_vars(\E m \in wire : Serve(m) \/ Lose(m))
  /\ WF_vars(Tick)

FairSpec == Spec /\ Fairness

-----------------------------------------------------------------------------
(* Properties *)

\* While a leader's elector goroutine runs, no other replica, whatever its
\* clock, sees that leader's Lease as expired: staleness of a renewTime
\* (tryAcquire's takeover case) is evidence that its owner has stepped down.
LiveLeaderNotExpired ==
  \A r, q \in Replica :
    r # q /\ leader[r] /\ lease.holder = r /\ pc[r] # "wedged"
      => SeenAge(q) <= LeaseDuration

\* r alone leads or is about to, its Lease names it, and no write but its own renewal
\* can still change that.
Undisputed(r) ==
  /\ leader[r] /\ pc[r] \in {"idle", "get", "put"} /\ reply[r] # "rejected"
  /\ lease.present /\ lease.holder = r
  /\ \A q \in Replica \ {r} : ~leader[q] /\ reply[q] # "ok"
  /\ \A m \in wire : m.from = r /\ m.op # "release" /\ (m.op = "create" => ~m.waited)

\* Leadership does not flap: an undisputed leader stays one through renewals, peers'
\* evaluations, restarts of the others, late writes and the liveness probe, which
\* "only a genuinely stuck goroutine trips" (reconcile_leader.go:49-50).
\* Only a fault, or SIGTERM to that very pod, ends it.
LeadershipKept ==
  [][\A r \in Replica :
       Undisputed(r) /\ faults' = faults /\ pc'[r] \notin {"release", "gone"}
         => Undisputed(r)']_vars

\* Exactly one replica leads and the Lease names it.
Settled ==
  \E r \in Replica :
    /\ leader[r] /\ lease.holder = r
    /\ \A q \in Replica \ {r} : ~leader[q]

\* A renewTime that no one can read, in a Lease that was released or whose holder is
\* gone for good: every elector yields for as long as that is so, "the worst case"
\* being "a delayed takeover" (reconcile_leader.go:198-201).
Abandoned ==
  /\ lease.present /\ ~lease.readable
  /\ \A r \in Replica : lease.holder = r => pc[r] = "gone"

\* Once faults and rollouts stop, the electors converge, without any
\* compare-and-swap, to one leader and stay there; no wedged, crashed or
\* half-released state keeps the driving lanes leaderless or doubled.  The one
\* way not to get there is a Lease that was made unreadable and lost its holder.
EventuallySettled == <>[](Settled \/ Abandoned)
=============================================================================
