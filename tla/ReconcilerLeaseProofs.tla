------------------------ MODULE ReconcilerLeaseProofs ------------------------
(***************************************************************************)
(* Type correctness of the elector, that a live leader's Lease is never    *)
(* seen as expired, and how long an overlap of two leaders or a vacancy    *)
(* may last, and that leadership does not flap, for any number of replicas *)
(* and any timing that satisfies the assumptions of ReconcilerLease.       *)
(*                                                                         *)
(* LiveLeaderNotExpired is not inductive: it says nothing of how old a     *)
(* renewTime may be while the next renewal is under way, nor of a late     *)
(* write that puts an older renewTime back.  FreshInv bounds the age by    *)
(* the elector's own timer, and SinceInv bounds the timer.                 *)
(***************************************************************************)
EXTENDS LeaseTiming, TLAPS

\* An answer is only ever waiting for a replica that is in a write, and a
\* replica waits for at most one write.
CallInv ==
  /\ \A r \in Replica : reply[r] # "none" => pc[r] \in {"put", "release"}
  /\ \A m \in wire : m.waited => pc[m.from] \in {"put", "release"} /\ reply[m.from] = "none"
  /\ \A m, n \in wire : m.waited /\ n.waited /\ m.from = n.from => m = n

\* No goroutine is later than OnTime lets it be.
SinceInv ==
  \A r \in Replica :
    /\ pc[r] = "idle" => since[r] <= RenewInterval + Lag
    /\ pc[r] \in {"get", "put", "release"} => since[r] <= OpTimeout + Lag

\* How old the renewTime of a leader's own Lease can be, by its timer.
FreshInv ==
  \A r \in Replica :
    lease.holder = r =>
      /\ leader[r] /\ pc[r] = "idle" => lease.age <= WireLife + since[r]
      /\ pc[r] = "put" /\ reply[r] = "ok" => lease.age <= WireLife + since[r]
      /\ leader[r] /\ pc[r] \in {"get", "put", "release"}
           => lease.age <= WireLife + RenewInterval + Lag + since[r]

IInv == TypeOK /\ CallInv /\ SinceInv /\ FreshInv

\* The constants are natural numbers.
LEMMA ConstantsAreNat ==
  /\ LeaseDuration \in Nat /\ RenewInterval \in Nat /\ OpTimeout \in Nat
  /\ StaleAfter \in Nat /\ ProbeLag \in Nat /\ Lag \in Nat /\ WireLife \in Nat
  /\ AgeCap \in Nat /\ MaxFaults \in Nat
  /\ Skew \in [Replica -> Nat]
  BY TimingAssumption

\* A write in flight is younger than the age at which a renewTime saturates.
LEMMA WireBelowCap == Replica # {} => WireLife <= AgeCap
  BY TimingAssumption, RenewalAssumption, ConstantsAreNat

\* The elector starts in the invariant.
LEMMA InitIInv == Init => IInv
  <1> SUFFICES ASSUME Init PROVE IInv
    OBVIOUS
  <1>1. lease \in Lease
    <2>1. NoLease \in Lease
      BY ConstantsAreNat DEF NoLease, Lease, Holder
    <2>2. \A a \in {0, AgeCap} : HeldBy(Outgoing, a) \in Lease
      BY ConstantsAreNat DEF HeldBy, Lease, Holder
    <2>3. QED
      BY <2>1, <2>2 DEF Init
  <1>2. TypeOK
    BY <1>1, ConstantsAreNat DEF Init, TypeOK, Place, Running, Request
  <1>3. CallInv /\ SinceInv /\ FreshInv
    BY DEF Init, CallInv, SinceInv, FreshInv
  <1>4. QED
    BY <1>2, <1>3 DEF IInv

\* Dropping a replica's write, or leaving it on its way, keeps wire well
\* formed and leaves that replica waiting for nothing.
LEMMA ForsakeWire ==
  ASSUME NEW r \in Replica, wire \in SUBSET Request, Forsake(r)
  PROVE  /\ wire' \in SUBSET Request
         /\ \A m \in wire' : m.waited => m \in wire /\ m.from # r
  <1> DEFINE mine == {m \in wire : m.from = r /\ m.waited}
  <1>1. CASE wire' = wire \ mine
    BY <1>1
  <1>2. CASE wire' = (wire \ mine) \cup {[m EXCEPT !.waited = FALSE] : m \in mine}
    <2>1. \A m \in mine : /\ [m EXCEPT !.waited = FALSE] \in Request
                          /\ ~[m EXCEPT !.waited = FALSE].waited
      BY DEF Request
    <2>2. QED
      BY <1>2, <2>1
  <1>3. QED
    BY <1>1, <1>2 DEF Forsake

\* Ending the program of a replica, in place "down" or "gone", keeps IInv.
LEMMA StopKeepsIInv ==
  ASSUME IInv, NEW r \in Replica, NEW place \in {"down", "gone"},
         Stop(r, place), wire' \in SUBSET Request,
         \A m \in wire' : m.waited => m \in wire /\ m.from # r,
         lease' = lease, faults' \in 0..MaxFaults
  PROVE  IInv'
  <1>1. TypeOK'
    BY DEF IInv, TypeOK, Stop, Place, Running
  <1>2. CallInv'
    BY DEF IInv, TypeOK, CallInv, Stop, Request
  <1>3. SinceInv'
    BY DEF IInv, TypeOK, SinceInv, Stop
  <1>4. FreshInv'
    BY DEF IInv, TypeOK, FreshInv, Stop
  <1>5. QED
    BY <1>1, <1>2, <1>3, <1>4 DEF IInv

\* Ending an evaluation as a non-leader keeps IInv.
LEMMA StandDownKeepsIInv ==
  ASSUME IInv, NEW r \in Replica, pc[r] \in {"get", "put"},
         EndEval(r, FALSE), wire' \in SUBSET Request,
         \A m \in wire' : m.waited => m \in wire /\ m.from # r,
         reply' = [reply EXCEPT ![r] = "none"],
         UNCHANGED <<lease, since>>, faults' \in 0..MaxFaults
  PROVE  IInv'
  <1>1. TypeOK'
    BY DEF IInv, TypeOK, EndEval, Place, Running
  <1>2. CallInv'
    BY DEF IInv, TypeOK, CallInv, EndEval, Request
  <1>3. SinceInv'
    BY ConstantsAreNat, RenewalAssumption DEF IInv, TypeOK, SinceInv, EndEval
  <1>4. FreshInv'
    BY DEF IInv, TypeOK, FreshInv, EndEval
  <1>5. QED
    BY <1>1, <1>2, <1>3, <1>4 DEF IInv

\* A fault stays within the budget.
LEMMA FaultInRange == ASSUME faults \in 0..MaxFaults, Fault PROVE faults' \in 0..MaxFaults
  BY ConstantsAreNat DEF Fault

\* The steps that only start something: Start and BeginEval.
LEMMA BeginKeepsIInv ==
  ASSUME IInv, NEW r \in Replica, Start(r) \/ BeginEval(r)
  PROVE  IInv'
  <1>1. TypeOK'
    <2>1. /\ pc' = [pc EXCEPT ![r] = "get"] /\ since' = [since EXCEPT ![r] = 0]
          /\ pc[r] \in {"down", "idle"}
          /\ UNCHANGED <<lease, leader, reply, wire, faults>>
          /\ evalAge' \in [Replica -> Nat]
      BY DEF IInv, TypeOK, Start, BeginEval
    <2>2. QED
      BY <2>1 DEF IInv, TypeOK, Place, Running
  <1>2. CallInv'
    BY DEF IInv, TypeOK, CallInv, Start, BeginEval, Request
  <1>3. SinceInv'
    BY ConstantsAreNat DEF IInv, TypeOK, SinceInv, Start, BeginEval
  <1>4. FreshInv'
    BY ConstantsAreNat DEF IInv, TypeOK, FreshInv, SinceInv, Start, BeginEval, Running, Lease
  <1>5. QED
    BY <1>1, <1>2, <1>3, <1>4 DEF IInv

\* Sending a write keeps the wire well formed when nothing is awaited yet.
LEMMA SendKeepsCalls ==
  ASSUME IInv, NEW r \in Replica, pc[r] \notin {"put", "release"},
         NEW op \in {"create", "claim", "release"}, Send(r, op),
         NEW place \in {"put", "release"}, pc' = [pc EXCEPT ![r] = place],
         reply' = reply
  PROVE  CallInv' /\ wire' \in SUBSET Request
  <1> DEFINE new == [from |-> r, op |-> op, age |-> 0, waited |-> TRUE]
  <1>1. new \in Request
    BY ConstantsAreNat DEF Request
  <1>2. \A m \in wire : m.waited => m.from # r
    BY DEF IInv, CallInv
  <1>3. reply[r] = "none"
    BY DEF IInv, TypeOK, CallInv
  <1>4. wire' = wire \cup {new} /\ wire' \in SUBSET Request
    BY <1>1 DEF IInv, TypeOK, Send
  <1>5. \A q \in Replica : reply[q] # "none" => pc'[q] \in {"put", "release"}
    BY <1>3 DEF IInv, TypeOK, CallInv
  <1>6. \A m \in wire' :
          m.waited => pc'[m.from] \in {"put", "release"} /\ reply[m.from] = "none"
    <2>1. pc'[new.from] \in {"put", "release"} /\ reply[new.from] = "none"
      BY <1>3 DEF IInv, TypeOK
    <2>2. \A m \in wire :
            m.waited => pc'[m.from] \in {"put", "release"} /\ reply[m.from] = "none"
      BY <1>2 DEF IInv, TypeOK, CallInv, Request
    <2>3. QED
      BY <1>4, <2>1, <2>2
  <1>7. \A m, n \in wire' : m.waited /\ n.waited /\ m.from = n.from => m = n
    <2> SUFFICES ASSUME NEW m \in wire', NEW n \in wire',
                        m.waited, n.waited, m.from = n.from
                 PROVE  m = n
      OBVIOUS
    <2>1. new.from = r
      OBVIOUS
    <2>2. (m \in wire /\ n \in wire) \/ m = new \/ n = new
      BY <1>4
    <2>3. CASE m \in wire /\ n \in wire
      BY <2>3 DEF IInv, CallInv
    <2>4. CASE m = new
      BY <1>2, <1>4, <2>1, <2>4
    <2>5. CASE n = new
      BY <1>2, <1>4, <2>1, <2>5
    <2>6. QED
      BY <2>2, <2>3, <2>4, <2>5
  <1>8. QED
    BY <1>4, <1>5, <1>6, <1>7 DEF CallInv

\* The GET answers and the replica decides.
LEMMA EvaluateKeepsIInv ==
  ASSUME IInv, NEW r \in Replica, Evaluate(r)
  PROVE  IInv'
  <1>1. CASE StandBack(r)
    <2>1. pc[r] = "get" /\ UNCHANGED <<lease, since, reply, faults, wire>>
      BY <1>1 DEF Evaluate, StandBack
    <2>2. reply' = [reply EXCEPT ![r] = "none"]
      BY <2>1 DEF IInv, TypeOK, CallInv
    <2>3. \A m \in wire' : m.waited => m \in wire /\ m.from # r
      BY <2>1 DEF IInv, CallInv
    <2>4. QED
      BY <1>1, <2>1, <2>2, <2>3, StandDownKeepsIInv DEF IInv, TypeOK, StandBack
  <1>2. ASSUME NEW op \in {"create", "claim"}, Write(r, op)
        PROVE  IInv'
    <2>1. CallInv' /\ wire' \in SUBSET Request
      BY <1>2, SendKeepsCalls DEF Evaluate, Write
    <2>2. TypeOK'
      BY <1>2, <2>1 DEF IInv, TypeOK, Evaluate, Write, Place, Running
    <2>3. SinceInv'
      BY <1>2 DEF IInv, TypeOK, SinceInv, Evaluate, Write
    <2>4. FreshInv'
      BY <1>2 DEF IInv, TypeOK, CallInv, FreshInv, Evaluate, Write
    <2>5. QED
      BY <2>1, <2>2, <2>3, <2>4 DEF IInv
  <1>3. QED
    BY <1>1, <1>2 DEF Evaluate

\* A write is accepted or refused, and the evaluation ends.
LEMMA ConcludeKeepsIInv ==
  ASSUME IInv, NEW r \in Replica, Conclude(r)
  PROVE  IInv'
  <1> USE DEF Conclude, EndEval
  <1>1. TypeOK'
    BY DEF IInv, TypeOK, Place, Running
  <1>2. CallInv'
    BY DEF IInv, TypeOK, CallInv, Request
  <1>3. SinceInv'
    BY ConstantsAreNat, RenewalAssumption DEF IInv, TypeOK, SinceInv
  <1>4. FreshInv'
    BY DEF IInv, TypeOK, FreshInv
  <1>5. QED
    BY <1>1, <1>2, <1>3, <1>4 DEF IInv

\* The steps that stop a replica's elector.
LEMMA StoppingKeepsIInv ==
  ASSUME IInv, NEW r \in Replica,
         CancelBusy(r) \/ Leave(r) \/ Crash(r) \/ ProbeRestart(r)
  PROVE  IInv'
  <1>1. Forsake(r) /\ lease' = lease
    BY DEF CancelBusy, Leave, Crash, ProbeRestart
  <1>2. PICK place \in {"down", "gone"} : Stop(r, place)
    BY DEF CancelBusy, Leave, Crash, ProbeRestart
  <1>3. faults' \in 0..MaxFaults
    BY FaultInRange DEF CancelBusy, Leave, Crash, ProbeRestart, IInv, TypeOK
  <1>4. /\ wire' \in SUBSET Request
        /\ \A m \in wire' : m.waited => m \in wire /\ m.from # r
    BY <1>1, ForsakeWire DEF IInv, TypeOK
  <1>5. QED
    BY <1>1, <1>2, <1>3, <1>4, StopKeepsIInv

\* SIGTERM between two evaluations: the replica leaves, or sends its release.
LEMMA CancelIdleKeepsIInv ==
  ASSUME IInv, NEW r \in Replica, CancelIdle(r)
  PROVE  IInv'
  <1>1. CASE Stop(r, "gone") /\ UNCHANGED wire
    <2>1. \A m \in wire' : m.waited => m \in wire /\ m.from # r
      BY <1>1 DEF CancelIdle, IInv, CallInv
    <2>2. QED
      BY <1>1, <2>1, StopKeepsIInv DEF CancelIdle, IInv, TypeOK
  <1>2. CASE /\ pc' = [pc EXCEPT ![r] = "release"]
             /\ since' = [since EXCEPT ![r] = 0]
             /\ Send(r, "release")
             /\ UNCHANGED <<leader, evalAge, reply>>
    <2>1. pc[r] = "idle" /\ UNCHANGED <<lease, faults>>
      BY DEF CancelIdle
    <2>2. CallInv' /\ wire' \in SUBSET Request
      BY <1>2, <2>1, SendKeepsCalls
    <2>3. TypeOK'
      BY <1>2, <2>1, <2>2 DEF IInv, TypeOK, Place, Running
    <2>4. SinceInv'
      BY <1>2, <2>1, ConstantsAreNat DEF IInv, TypeOK, SinceInv
    <2>5. FreshInv'
      BY <1>2, <2>1, ConstantsAreNat DEF IInv, TypeOK, FreshInv, SinceInv, Lease
    <2>6. QED
      BY <2>2, <2>3, <2>4, <2>5 DEF IInv
  <1>3. QED
    BY <1>1, <1>2 DEF CancelIdle

\* A failed evaluation stands down.
LEMMA EvalFailsKeepsIInv ==
  ASSUME IInv, NEW r \in Replica, EvalFails(r)
  PROVE  IInv'
  <1>1. faults' \in 0..MaxFaults
    BY FaultInRange DEF EvalFails, IInv, TypeOK
  <1>2. /\ wire' \in SUBSET Request
        /\ \A m \in wire' : m.waited => m \in wire /\ m.from # r
    BY ForsakeWire DEF EvalFails, IInv, TypeOK
  <1>3. QED
    BY <1>1, <1>2, StandDownKeepsIInv DEF EvalFails

\* A wedged elector waits for nothing and keeps whatever it believed.
LEMMA WedgeKeepsIInv ==
  ASSUME IInv, NEW r \in Replica, Wedge(r)
  PROVE  IInv'
  <1>1. faults' \in 0..MaxFaults
    BY FaultInRange DEF Wedge, IInv, TypeOK
  <1>2. /\ wire' \in SUBSET Request
        /\ \A m \in wire' : m.waited => m \in wire /\ m.from # r
    BY ForsakeWire DEF Wedge, IInv, TypeOK
  <1>3. TypeOK'
    BY <1>1, <1>2 DEF Wedge, IInv, TypeOK, Place, Running
  <1>4. CallInv'
    BY <1>2 DEF Wedge, IInv, TypeOK, CallInv, Request
  <1>5. SinceInv' /\ FreshInv'
    BY DEF Wedge, IInv, TypeOK, SinceInv, FreshInv
  <1>6. QED
    BY <1>3, <1>4, <1>5 DEF IInv

\* The API server applies or refuses one write.
LEMMA ServeKeepsIInv ==
  ASSUME IInv, NEW m \in wire, Serve(m)
  PROVE  IInv'
  <1>1. m \in Request /\ m.from \in Replica /\ m.age \in 0..WireLife
    BY DEF IInv, TypeOK, Request
  <1>2. wire' = wire \ {m} /\ UNCHANGED <<pc, leader, since, evalAge, faults>>
    BY DEF Serve
  <1>3. PICK a \in {"ok", "rejected"} : Answer(m, a)
    BY DEF Serve
  <1>4. reply' \in [Replica -> {"none", "ok", "rejected"}]
    BY <1>1, <1>3 DEF Answer, IInv, TypeOK
  <1>5. lease' \in Lease
    <2>1. HeldBy(m.from, m.age) \in Lease
      BY <1>1, WireBelowCap, ConstantsAreNat DEF HeldBy, Lease, Holder
    <2>2. [lease EXCEPT !.holder = NoHolder] \in Lease
      BY DEF IInv, TypeOK, Lease, Holder
    <2>3. QED
      BY <2>1, <2>2 DEF Serve, IInv, TypeOK
  <1>6. TypeOK'
    BY <1>2, <1>4, <1>5 DEF IInv, TypeOK
  <1>7. CallInv'
    <2>1. m.waited => pc[m.from] \in {"put", "release"}
      BY DEF IInv, CallInv
    <2>2. \A n \in wire' : n.waited /\ m.waited => n.from # m.from
      BY <1>2 DEF IInv, CallInv
    <2>3. \A n \in wire' : n.waited => reply'[n.from] = "none"
      BY <1>1, <1>2, <1>3, <2>2 DEF Answer, IInv, TypeOK, CallInv, Request
    <2>4. \A q \in Replica : reply'[q] # "none" => pc[q] \in {"put", "release"}
      BY <1>1, <1>3, <2>1 DEF Answer, IInv, TypeOK, CallInv
    <2>5. QED
      BY <1>2, <2>3, <2>4 DEF IInv, CallInv
  <1>8. SinceInv'
    BY <1>2 DEF IInv, SinceInv
  <1>9. FreshInv'
    <2>1. CASE lease' = HeldBy(m.from, m.age)
      BY <1>1, <1>2, <2>1, ConstantsAreNat DEF HeldBy, FreshInv, IInv, TypeOK
    <2>2. CASE lease' = [lease EXCEPT !.holder = NoHolder]
      BY <2>2, IdentityAssumption DEF FreshInv, IInv, TypeOK, Lease
    <2>3. CASE lease' = lease /\ Answer(m, "rejected")
      BY <1>1, <1>2, <2>3 DEF Answer, FreshInv, IInv, TypeOK
    <2>4. QED
      BY <2>1, <2>2, <2>3 DEF Serve
  <1>10. QED
    BY <1>6, <1>7, <1>8, <1>9 DEF IInv

\* A write nobody waits for is lost, or another actor edits the Lease.
LEMMA OutsideKeepsIInv ==
  ASSUME IInv, (\E m \in wire : Lose(m)) \/ DeleteLease \/ GarbleRenewTime
  PROVE  IInv'
  <1>1. CASE \E m \in wire : Lose(m)
    BY <1>1 DEF Lose, IInv, TypeOK, CallInv, SinceInv, FreshInv
  <1>2. CASE DeleteLease
    <2>1. NoLease \in Lease /\ NoLease.holder \notin Replica
      BY ConstantsAreNat, IdentityAssumption DEF NoLease, Lease, Holder
    <2>2. faults' \in 0..MaxFaults
      BY <1>2, FaultInRange DEF DeleteLease, IInv, TypeOK
    <2>3. QED
      BY <1>2, <2>1, <2>2 DEF DeleteLease, IInv, TypeOK, CallInv, SinceInv, FreshInv
  <1>3. CASE GarbleRenewTime
    <2>1. /\ lease' \in Lease
          /\ lease'.holder = lease.holder /\ lease'.age = lease.age
      BY <1>3 DEF GarbleRenewTime, IInv, TypeOK, Lease
    <2>2. faults' \in 0..MaxFaults
      BY <1>3, FaultInRange DEF GarbleRenewTime, IInv, TypeOK
    <2>3. QED
      BY <1>3, <2>1, <2>2 DEF GarbleRenewTime, IInv, TypeOK, CallInv, SinceInv, FreshInv
  <1>4. QED
    BY <1>1, <1>2, <1>3

\* Everything grows one tick older.
LEMMA TickKeepsIInv ==
  ASSUME IInv, Tick
  PROVE  IInv'
  <1>1. UNCHANGED <<pc, leader, reply, faults>>
    BY DEF Tick
  <1>2. lease' \in Lease /\ lease'.holder = lease.holder /\ lease'.age <= lease.age + 1
    BY ConstantsAreNat DEF Tick, IInv, TypeOK, Lease
  <1>3. \A m \in wire : [m EXCEPT !.age = @ + 1] \in Request
    BY ConstantsAreNat DEF Tick, IInv, TypeOK, Request
  <1>4. since' \in [Replica -> Nat] /\ evalAge' \in [Replica -> Nat]
    BY DEF Tick, IInv, TypeOK
  <1>5. TypeOK'
    BY <1>1, <1>2, <1>3, <1>4 DEF Tick, IInv, TypeOK
  <1>6. CallInv'
    <2>1. \A n \in wire' : \E m \in wire :
            /\ n = [m EXCEPT !.age = @ + 1]
            /\ n.from = m.from /\ n.waited = m.waited
      BY DEF Tick, IInv, TypeOK, Request
    <2>2. QED
      BY <1>1, <2>1 DEF IInv, CallInv
  <1>7. SinceInv'
    BY <1>1, ConstantsAreNat DEF Tick, OnTime, IInv, TypeOK, SinceInv
  <1>8. FreshInv'
    BY <1>1, <1>2, <1>4, ConstantsAreNat DEF Tick, IInv, TypeOK, FreshInv, Lease
  <1>9. QED
    BY <1>5, <1>6, <1>7, <1>8 DEF IInv

\* Every step of the elector and of its environment keeps the invariant.
LEMMA NextKeepsIInv == IInv /\ [Next]_vars => IInv'
  <1> SUFFICES ASSUME IInv, [Next]_vars PROVE IInv'
    OBVIOUS
  <1>1. CASE \E r \in Replica : Step(r)
    BY <1>1, BeginKeepsIInv, EvaluateKeepsIInv, ConcludeKeepsIInv, StoppingKeepsIInv DEF Step
  <1>2. CASE \E r \in Replica : Disturb(r)
    BY <1>2, EvalFailsKeepsIInv, CancelIdleKeepsIInv, StoppingKeepsIInv, WedgeKeepsIInv
       DEF Disturb
  <1>3. CASE \E m \in wire : Serve(m)
    BY <1>3, ServeKeepsIInv
  <1>4. CASE (\E m \in wire : Lose(m)) \/ DeleteLease \/ GarbleRenewTime
    BY <1>4, OutsideKeepsIInv
  <1>5. CASE Tick
    BY <1>5, TickKeepsIInv
  <1>6. CASE UNCHANGED vars
    BY <1>6 DEF vars, IInv, TypeOK, CallInv, SinceInv, FreshInv
  <1>7. QED
    BY <1>1, <1>2, <1>3, <1>4, <1>5, <1>6 DEF Next

\* The strengthened invariant holds in every reachable state.
THEOREM Invariance == Spec => []IInv
  BY InitIInv, NextKeepsIInv, PTL DEF Spec

\* Every variable of the elector keeps its type, and a replica that runs no
\* elector does not report leadership.
THEOREM TypeCorrect == Spec => []TypeOK
  <1>1. IInv => TypeOK
    BY DEF IInv
  <1>2. QED
    BY <1>1, Invariance, PTL

\* The invariant bounds the age that any peer computes for a live leader's renewTime.
LEMMA IInvLiveLeader == IInv => LiveLeaderNotExpired
  <1> SUFFICES ASSUME IInv, NEW r \in Replica, NEW q \in Replica,
                      leader[r], lease.holder = r, pc[r] # "wedged"
               PROVE  SeenAge(q) <= LeaseDuration
    BY DEF LiveLeaderNotExpired
  <1>1. pc[r] \in {"idle", "get", "put", "release"}
    BY DEF IInv, TypeOK, Running
  <1>2. lease.age \in Nat /\ since[r] \in Nat
    BY ConstantsAreNat DEF IInv, TypeOK, Lease
  <1>3. lease.age <= WireLife + RenewInterval + Lag + OpTimeout + Lag
    BY <1>1, <1>2, ConstantsAreNat DEF IInv, SinceInv, FreshInv
  <1>4. SeenAge(q) = lease.age + Skew[q] - Skew[r]
    BY DEF SeenAge, ClockOf
  <1>5. /\ WireLife + RenewInterval + OpTimeout + 2 * Lag + Skew[q] - Skew[r]
             <= LeaseDuration
        /\ Skew[q] \in Nat /\ Skew[r] \in Nat
    BY RenewalAssumption, ConstantsAreNat
  <1>6. QED
    BY <1>2, <1>3, <1>4, <1>5, ConstantsAreNat

\* tryAcquire's takeover case never fires against a leader whose elector
\* goroutine runs, however the replicas' clocks differ.
THEOREM LiveLeaderSafe == Spec => []LiveLeaderNotExpired
  BY IInvLiveLeader, Invariance, PTL

-----------------------------------------------------------------------------
(* Leadership does not flap *)

\* How long ago a replica that is not wedged completed an evaluation, by its timer.
EvalInv ==
  \A r \in Replica :
    /\ pc[r] = "idle" => evalAge[r] <= since[r]
    /\ pc[r] \in {"get", "put", "release"} => evalAge[r] <= RenewInterval + Lag + since[r]

\* "Only a genuinely stuck goroutine trips" the probe (reconcile_leader.go:49-50),
\* never an elector that runs, however late.
OnlyWedgedFlagged == \A r \in Replica : pc[r] \in {"idle", "get", "put"} => Healthy(r)

\* Every step of the elector and of its environment keeps EvalInv.
LEMMA NextKeepsEvalInv == IInv /\ EvalInv /\ [Next]_vars => EvalInv'
  <1> SUFFICES ASSUME IInv, EvalInv, [Next]_vars PROVE EvalInv'
    OBVIOUS
  <1>1. since \in [Replica -> Nat] /\ evalAge \in [Replica -> Nat] /\ pc \in [Replica -> Place]
    BY DEF IInv, TypeOK
  <1>2. ASSUME NEW r \in Replica, NEW place \in Place, pc' = [pc EXCEPT ![r] = place],
               evalAge' = [evalAge EXCEPT ![r] = 0], since' \in [Replica -> Nat],
               \A q \in Replica \ {r} : since'[q] = since[q]
        PROVE  EvalInv'
    BY <1>1, <1>2, ConstantsAreNat DEF EvalInv
  <1>3. ASSUME NEW r \in Replica, NEW place \in Place, Stop(r, place)
        PROVE  EvalInv'
    BY <1>1, <1>3, ConstantsAreNat DEF Stop, EvalInv
  <1>4. ASSUME NEW r \in Replica, NEW place \in {"get", "release"}, pc[r] = "idle",
               pc' = [pc EXCEPT ![r] = place], since' = [since EXCEPT ![r] = 0],
               UNCHANGED evalAge
        PROVE  EvalInv'
    <2>1. evalAge[r] <= since[r] /\ since[r] <= RenewInterval + Lag
      BY <1>4 DEF EvalInv, IInv, SinceInv
    <2>2. evalAge'[r] <= RenewInterval + Lag + since'[r] /\ pc'[r] = place
      BY <1>1, <1>4, <2>1, ConstantsAreNat
    <2>3. \A q \in Replica \ {r} : pc'[q] = pc[q] /\ since'[q] = since[q] /\ evalAge'[q] = evalAge[q]
      BY <1>1, <1>4
    <2>4. QED
      BY <2>2, <2>3 DEF EvalInv
  <1>5. ASSUME NEW r \in Replica, pc[r] = "get", pc' = [pc EXCEPT ![r] = "put"],
               UNCHANGED <<since, evalAge>>
        PROVE  EvalInv'
    BY <1>1, <1>5 DEF EvalInv
  <1>6. ASSUME NEW r \in Replica, Step(r)
        PROVE  EvalInv'
    <2>1. CASE Start(r) \/ Conclude(r)
      BY <1>1, <1>2, <2>1 DEF Start, Conclude, EndEval, Place
    <2>2. CASE BeginEval(r)
      BY <1>4, <2>2 DEF BeginEval
    <2>3. CASE Evaluate(r)
      BY <1>1, <1>2, <1>5, <2>3 DEF Evaluate, Write, StandBack, EndEval, Place
    <2>4. CASE Leave(r) \/ ProbeRestart(r)
      BY <1>3, <2>4 DEF Leave, ProbeRestart, Place
    <2>5. QED
      BY <1>6, <2>1, <2>2, <2>3, <2>4 DEF Step
  <1>7. ASSUME NEW r \in Replica, Disturb(r)
        PROVE  EvalInv'
    <2>1. CASE EvalFails(r)
      BY <1>1, <1>2, <2>1 DEF EvalFails, EndEval, Place
    <2>2. CASE CancelIdle(r)
      BY <1>3, <1>4, <2>2 DEF CancelIdle, Place
    <2>3. CASE CancelBusy(r) \/ Crash(r)
      BY <1>3, <2>3 DEF CancelBusy, Crash, Place
    <2>4. CASE Wedge(r)
      BY <1>1, <2>4 DEF Wedge, EvalInv
    <2>5. QED
      BY <1>7, <2>1, <2>2, <2>3, <2>4 DEF Disturb
  <1>8. CASE \/ \E m \in wire : Serve(m) \/ Lose(m)
             \/ DeleteLease \/ GarbleRenewTime \/ UNCHANGED vars
    BY <1>8 DEF Serve, Lose, DeleteLease, GarbleRenewTime, vars, EvalInv
  <1>9. CASE Tick
    <2>1. \A r \in Replica :
            /\ pc'[r] = pc[r]
            /\ pc[r] \in {"idle", "get", "put", "release"} =>
                 since'[r] = since[r] + 1 /\ evalAge'[r] = evalAge[r] + 1
      BY <1>9 DEF Tick, Running
    <2>2. QED
      BY <1>1, <2>1, ConstantsAreNat DEF EvalInv
  <1>10. QED
    BY <1>6, <1>7, <1>8, <1>9 DEF Next

\* Nor is EvalInv disturbed by anything else: it holds in every reachable state.
LEMMA EvalInvariance == Spec => [](IInv /\ EvalInv)
  <1>1. Init => IInv /\ EvalInv
    BY InitIInv DEF Init, EvalInv
  <1>2. IInv /\ EvalInv /\ [Next]_vars => (IInv /\ EvalInv)'
    BY NextKeepsIInv, NextKeepsEvalInv
  <1>3. QED
    BY <1>1, <1>2, PTL DEF Spec

\* An elector that runs completes its evaluations in time for the probe.
LEMMA RunningIsHealthy == IInv /\ EvalInv => OnlyWedgedFlagged
  <1> SUFFICES ASSUME IInv, EvalInv, NEW r \in Replica, pc[r] \in {"idle", "get", "put"}
               PROVE  evalAge[r] <= StaleAfter
    BY DEF OnlyWedgedFlagged, Healthy
  <1>1. since[r] \in Nat /\ evalAge[r] \in Nat
    BY DEF IInv, TypeOK
  <1>2. CASE pc[r] = "idle"
    <2>1. evalAge[r] <= since[r] /\ since[r] <= RenewInterval + Lag
      BY <1>2 DEF EvalInv, IInv, SinceInv
    <2>2. QED
      BY <1>1, <2>1, ProbeAssumption, ConstantsAreNat
  <1>3. CASE pc[r] \in {"get", "put"}
    <2>1. evalAge[r] <= RenewInterval + Lag + since[r] /\ since[r] <= OpTimeout + Lag
      BY <1>3 DEF EvalInv, IInv, SinceInv
    <2>2. QED
      BY <1>1, <2>1, ProbeAssumption, ConstantsAreNat
  <1>4. QED
    BY <1>2, <1>3

\* The liveness probe restarts only what is wedged or already terminating.
THEOREM ProbeSpares == Spec => []OnlyWedgedFlagged
  BY EvalInvariance, RunningIsHealthy, PTL

\* No replica but an undisputed leader has anything it could send, or learn, that
\* would end its leadership.
LEMMA OthersYield ==
  ASSUME IInv, NEW r \in Replica, Undisputed(r), faults' = faults,
         NEW q \in Replica \ {r}, Step(q) \/ Disturb(q)
  PROVE  Undisputed(r)'
  <1>1. /\ ~leader[q] /\ reply[q] # "ok" /\ lease.present /\ lease.holder = r /\ lease.holder # NoHolder
        /\ \A m \in wire : m.from # q
    BY IdentityAssumption DEF Undisputed
  <1>2. SeenAge(q) <= LeaseDuration
    BY IInvLiveLeader DEF Undisputed, LiveLeaderNotExpired
  <1>3. ~Takeable(q)
    <2>1. SeenAge(q) \in Int
      <3>1. lease.age \in Int
        BY ConstantsAreNat DEF IInv, TypeOK, Lease
      <3>2. QED
        BY <1>1, <3>1, ConstantsAreNat DEF SeenAge, ClockOf
    <2>2. QED
      BY <1>1, <1>2, <2>1, ConstantsAreNat DEF Takeable
  <1>4. faults \in Nat /\ ~Fault
    BY ConstantsAreNat DEF IInv, TypeOK, Fault
  <1>5. Forsake(q) => wire' = wire
    BY <1>1 DEF Forsake
  <1>6. /\ lease' = lease /\ wire' = wire /\ ~leader'[q] /\ reply'[q] # "ok"
        /\ \A p \in Replica \ {q} : pc'[p] = pc[p] /\ leader'[p] = leader[p] /\ reply'[p] = reply[p]
    <2> USE DEF IInv, TypeOK
    <2>1. CASE Start(q) \/ BeginEval(q)
      BY <1>1, <2>1 DEF Start, BeginEval
    <2>2. CASE Evaluate(q)
      BY <1>1, <1>3, <2>2 DEF Evaluate, StandBack, EndEval
    <2>3. CASE Conclude(q)
      BY <1>1, <2>3 DEF Conclude, EndEval
    <2>4. CASE CancelIdle(q)
      BY <1>1, <2>4 DEF CancelIdle, Stop
    <2>5. CASE CancelBusy(q) \/ Leave(q) \/ ProbeRestart(q)
      BY <1>1, <1>5, <2>5 DEF CancelBusy, Leave, ProbeRestart, Stop
    <2>6. CASE EvalFails(q) \/ Crash(q) \/ Wedge(q)
      BY <1>4, <2>6 DEF EvalFails, Crash, Wedge
    <2>7. QED
      BY <2>1, <2>2, <2>3, <2>4, <2>5, <2>6 DEF Step, Disturb
  <1>7. QED
    BY <1>6 DEF Undisputed

\* An undisputed leader's own steps renew its Lease.
LEMMA LeaderRenews ==
  ASSUME IInv, EvalInv, NEW r \in Replica, Undisputed(r), faults' = faults,
         pc'[r] \notin {"release", "gone"}, Step(r) \/ Disturb(r)
  PROVE  Undisputed(r)'
  <1> USE DEF IInv, TypeOK
  <1>1. faults \in Nat /\ ~Fault
    BY ConstantsAreNat DEF Fault
  <1>2. pc[r] \in {"idle", "get", "put"} /\ leader[r] /\ lease.present /\ lease.holder = r
    BY DEF Undisputed
  <1>3. Healthy(r)
    BY <1>2, RunningIsHealthy DEF OnlyWedgedFlagged
  <1>4. CASE BeginEval(r)
    BY <1>4 DEF BeginEval, Undisputed
  <1>5. CASE Evaluate(r)
    <2>1. Write(r, "claim") /\ UNCHANGED <<lease, reply>>
      BY <1>2, <1>5 DEF Evaluate
    <2>2. /\ pc' = [pc EXCEPT ![r] = "put"] /\ leader' = leader
          /\ wire' = wire \cup {[from |-> r, op |-> "claim", age |-> 0, waited |-> TRUE]}
      BY <2>1 DEF Write, Send
    <2>3. QED
      BY <2>1, <2>2 DEF Undisputed
  <1>6. CASE Conclude(r)
    <2>1. reply[r] = "ok"
      BY <1>6 DEF Conclude, Undisputed
    <2>2. QED
      BY <1>6, <2>1 DEF Conclude, EndEval, Undisputed
  <1>7. CASE Start(r) \/ Leave(r) \/ ProbeRestart(r)
    BY <1>2, <1>3, <1>7 DEF Start, Leave, ProbeRestart
  <1>8. CASE EvalFails(r) \/ Crash(r) \/ Wedge(r)
    BY <1>1, <1>8 DEF EvalFails, Crash, Wedge
  <1>9. CASE CancelIdle(r) \/ CancelBusy(r)
    BY <1>9 DEF CancelIdle, CancelBusy, Stop
  <1>10. QED
    BY <1>4, <1>5, <1>6, <1>7, <1>8, <1>9 DEF Step, Disturb

\* What is still on its way does not end an undisputed leadership, nor does time.
LEMMA LateWritesHarmless ==
  ASSUME IInv, NEW r \in Replica, Undisputed(r), faults' = faults,
         \/ \E m \in wire : Serve(m) \/ Lose(m)
         \/ DeleteLease \/ GarbleRenewTime \/ Tick
  PROVE  Undisputed(r)'
  <1> USE DEF IInv, TypeOK
  <1>1. faults \in Nat /\ ~Fault
    BY ConstantsAreNat DEF Fault
  <1>2. CASE \E m \in wire : Serve(m)
    <2>1. PICK m \in wire : Serve(m)
      BY <1>2
    <2>2. m.from = r /\ m.op \in {"create", "claim"} /\ (m.op = "create" => ~m.waited) /\ lease.present
      BY DEF Undisputed, Request
    <2>3. /\ lease' = lease \/ lease' = HeldBy(r, m.age)
          /\ reply' = reply \/ reply' = [reply EXCEPT ![r] = "ok"]
      BY <2>1, <2>2 DEF Serve, Answer
    <2>4. lease'.present /\ lease'.holder = r
      BY <2>3 DEF HeldBy, Undisputed
    <2>5. wire' = wire \ {m} /\ UNCHANGED <<pc, leader>>
      BY <2>1 DEF Serve
    <2>6. reply'[r] # "rejected" /\ \A q \in Replica \ {r} : reply'[q] # "ok"
      BY <2>3 DEF Undisputed
    <2>7. QED
      BY <2>4, <2>5, <2>6 DEF Undisputed
  <1>3. CASE \E m \in wire : Lose(m)
    BY <1>3 DEF Lose, Undisputed
  <1>4. CASE DeleteLease \/ GarbleRenewTime
    BY <1>1, <1>4 DEF DeleteLease, GarbleRenewTime
  <1>5. CASE Tick
    <2>1. lease'.present = lease.present /\ lease'.holder = lease.holder
      BY <1>5 DEF Tick, Lease
    <2>2. \A n \in wire' : \E m \in wire :
            n.from = m.from /\ n.op = m.op /\ n.waited = m.waited
      BY <1>5 DEF Tick, Request
    <2>3. QED
      BY <1>5, <2>1, <2>2 DEF Tick, Undisputed
  <1>6. QED
    BY <1>2, <1>3, <1>4, <1>5

\* Nothing but a fault or its own SIGTERM ends an undisputed leadership.
THEOREM LeadershipSafe == Spec => LeadershipKept
  <1>1. IInv /\ EvalInv /\ [Next]_vars =>
          \A r \in Replica :
            Undisputed(r) /\ faults' = faults /\ pc'[r] \notin {"release", "gone"}
              => Undisputed(r)'
    <2> SUFFICES ASSUME IInv, EvalInv, [Next]_vars, NEW r \in Replica, Undisputed(r),
                        faults' = faults, pc'[r] \notin {"release", "gone"}
                 PROVE  Undisputed(r)'
      OBVIOUS
    <2>1. CASE \E q \in Replica : Step(q) \/ Disturb(q)
      BY <2>1, OthersYield, LeaderRenews
    <2>2. CASE \/ \E m \in wire : Serve(m) \/ Lose(m)
               \/ DeleteLease \/ GarbleRenewTime \/ Tick
      BY <2>2, LateWritesHarmless
    <2>3. CASE UNCHANGED vars
      BY <2>3 DEF vars, Undisputed
    <2>4. QED
      BY <2>1, <2>2, <2>3 DEF Next
  <1>2. QED
    BY <1>1, EvalInvariance, PTL DEF Spec, LeadershipKept

-----------------------------------------------------------------------------
(* The measures *)

\* A write that is waited for is of the call its replica is in.
OpInv ==
  \A m \in wire : m.waited => (m.op = "release" <=> pc[m.from] = "release")

\* No running replica has gone longer without an evaluation than the probe allows.
ProbeInv == \A r \in Replica : pc[r] \in Running => evalAge[r] <= StaleAfter + ProbeLag

\* How long a leader that is not the holder has led, by its timers.
StrayAt(r) ==
  /\ stray[r] # 0 => leader[r] /\ lease.holder # r
  /\ leader[r] => stray[r] <= evalAge[r] + OpTimeout + Lag
  /\ leader[r] /\ pc[r] = "idle" => stray[r] <= since[r]
  /\ pc[r] = "put" /\ reply[r] = "ok" => stray[r] <= since[r]
  /\ pc[r] \in {"get", "put", "release"} => stray[r] <= RenewInterval + Lag + since[r]

\* What the first so many faults may cost.
Cost(n) == n * (RenewInterval + Lag)

\* How long a cleared Lease has been left untaken by a replica, by its timer.  An
\* evaluation that began with it so cleared ends it, or fails.
VacantAt(r) ==
  /\ vacant[r] # 0 =>
       /\ lease.present /\ lease.readable /\ lease.holder = NoHolder
       /\ pc[r] \in {"idle", "get", "put"}
  /\ pc[r] = "idle" => vacant[r] <= Cost(faults) + since[r]
  /\ pc[r] \in {"get", "put"} => vacant[r] <= Cost(faults) + RenewInterval + Lag + since[r]
  /\ pc[r] = "put" /\ reply[r] # "none" => vacant[r] <= since[r]
  /\ \A m \in wire : m.waited /\ m.from = r /\ m.op = "create" => vacant[r] <= since[r]

\* Together with IInv they are inductive.
TimedInv ==
  /\ stray \in [Replica -> Nat] /\ vacant \in [Replica -> Nat]
  /\ OpInv /\ ProbeInv
  /\ \A r \in Replica : StrayAt(r) /\ VacantAt(r)

\* A fault more costs one interval more.
LEMMA CostGrows ==
  ASSUME NEW n \in Nat
  PROVE  /\ Cost(n) \in Nat /\ Cost(n + 1) = Cost(n) + RenewInterval + Lag
         /\ (1 + n) * (RenewInterval + Lag) = Cost(n) + RenewInterval + Lag
  BY ConstantsAreNat DEF Cost

\* A measure grows with a tick only, and is zero outside its situation.
LEMMA Measures ==
  ASSUME stray \in [Replica -> Nat], vacant \in [Replica -> Nat], Measure
  PROVE  /\ stray' \in [Replica -> Nat] /\ vacant' \in [Replica -> Nat]
         /\ \A r \in Replica :
              /\ stray'[r] # 0 => leader'[r] /\ lease'.holder # r
              /\ vacant'[r] # 0 =>
                   /\ lease'.present /\ lease'.readable /\ lease'.holder = NoHolder
                   /\ pc'[r] \in {"idle", "get", "put"}
              /\ stray'[r] <= stray[r] + 1 /\ vacant'[r] <= vacant[r] + 1
              /\ ~Tick => stray'[r] <= stray[r] /\ vacant'[r] <= vacant[r]
  <1> DEFINE S == Stray'
             V == Vacant'
  <1>1. S = [r \in Replica |-> leader'[r] /\ lease'.holder # r]
    BY DEF Stray
  <1>2. V = [r \in Replica |-> /\ lease'.present /\ lease'.readable /\ lease'.holder = NoHolder
                               /\ pc'[r] \in {"idle", "get", "put"}]
    BY DEF Vacant
  <1>3. stray' = Measured(stray, S) /\ vacant' = Measured(vacant, V)
    BY DEF Measure
  <1> HIDE DEF S, V
  <1>4. \A r \in Replica :
          /\ stray'[r] = IF ~S[r] THEN 0 ELSE IF Tick /\ stray[r] < Long THEN stray[r] + 1 ELSE stray[r]
          /\ vacant'[r] = IF ~V[r] THEN 0 ELSE IF Tick /\ vacant[r] < Long THEN vacant[r] + 1 ELSE vacant[r]
    BY <1>3 DEF Measured
  <1>5. stray' \in [Replica -> Nat] /\ vacant' \in [Replica -> Nat]
    <2>1. /\ stray' = [r \in Replica |-> stray'[r]] /\ vacant' = [r \in Replica |-> vacant'[r]]
      BY <1>3 DEF Measured
    <2>2. \A r \in Replica : stray'[r] \in Nat /\ vacant'[r] \in Nat
      BY <1>4
    <2>3. QED
      BY <2>1, <2>2
  <1>6. ASSUME NEW r \in Replica
        PROVE  /\ stray'[r] # 0 => leader'[r] /\ lease'.holder # r
               /\ stray'[r] <= stray[r] + 1
               /\ ~Tick => stray'[r] <= stray[r]
    <2>1. S[r] <=> leader'[r] /\ lease'.holder # r
      BY <1>1
    <2>2. stray[r] \in Nat
      OBVIOUS
    <2>3. stray'[r] \in {0, stray[r], stray[r] + 1} /\ (~Tick => stray'[r] # stray[r] + 1 \/ stray'[r] = 0)
      BY <1>4, <2>2
    <2>4. ~S[r] => stray'[r] = 0
      BY <1>4
    <2>5. QED
      BY <2>1, <2>2, <2>3, <2>4
  <1>7. ASSUME NEW r \in Replica
        PROVE  /\ vacant'[r] # 0 =>
                   /\ lease'.present /\ lease'.readable /\ lease'.holder = NoHolder
                   /\ pc'[r] \in {"idle", "get", "put"}
               /\ vacant'[r] <= vacant[r] + 1
               /\ ~Tick => vacant'[r] <= vacant[r]
    <2>1. V[r] <=> /\ lease'.present /\ lease'.readable /\ lease'.holder = NoHolder
                   /\ pc'[r] \in {"idle", "get", "put"}
      BY <1>2
    <2>2. vacant[r] \in Nat
      OBVIOUS
    <2>3. vacant'[r] \in {0, vacant[r], vacant[r] + 1} /\ (~Tick => vacant'[r] # vacant[r] + 1 \/ vacant'[r] = 0)
      BY <1>4, <2>2
    <2>4. ~V[r] => vacant'[r] = 0
      BY <1>4
    <2>5. QED
      BY <2>1, <2>2, <2>3, <2>4
  <1>8. QED
    BY <1>5, <1>6, <1>7


\* A step that ages no evaluation ages no measure.
LEMMA NoGrowth ==
  ASSUME IInv, TimedInv, Measure, NEW r \in Replica, evalAge'[r] \in {0, evalAge[r]}
  PROVE  stray'[r] <= stray[r] /\ vacant'[r] <= vacant[r]
  <1>1. CASE ~Tick
    BY <1>1, Measures DEF TimedInv
  <1>2. CASE Tick
    <2>1. pc'[r] = pc[r] /\ leader'[r] = leader[r]
      BY <1>2 DEF Tick
    <2>2. pc[r] \notin Running
      BY <1>2 DEF Tick, IInv, TypeOK
    <2>3. ~leader[r]
      BY <2>2 DEF IInv, TypeOK
    <2>4. stray'[r] = 0 /\ vacant'[r] = 0
      BY <2>1, <2>2, <2>3, Measures DEF TimedInv, Running
    <2>5. QED
      BY <2>4 DEF TimedInv
  <1>3. QED
    BY <1>1, <1>2

\* A replica that does not lead does not stray.
LEMMA StrayOver ==
  ASSUME IInv', TimedInv, Measure, NEW r \in Replica, ~leader'[r]
  PROVE  StrayAt(r)'
  <1>1. stray'[r] = 0
    BY Measures DEF TimedInv
  <1>2. since'[r] \in Nat
    BY DEF IInv, TypeOK
  <1>3. QED
    BY <1>1, <1>2, ConstantsAreNat DEF StrayAt

\* A Lease that is held, unreadable or absent is not left untaken, nor does a
\* replica that ends or hangs leave it untaken.
LEMMA VacancyOver ==
  ASSUME IInv', TimedInv, Measure, NEW r \in Replica,
         \/ ~lease'.present \/ ~lease'.readable \/ lease'.holder # NoHolder
         \/ pc'[r] \notin {"idle", "get", "put"}
         \/ vacant'[r] = 0
  PROVE  VacantAt(r)'
  <1>1. vacant'[r] = 0
    BY Measures DEF TimedInv
  <1>2. since'[r] \in Nat /\ Cost(faults') \in Nat
    BY CostGrows DEF IInv, TypeOK
  <1>3. QED
    BY <1>1, <1>2, ConstantsAreNat DEF VacantAt

\* What a step does not touch stays within its measures.
LEMMA OthersKeep ==
  ASSUME IInv, TimedInv, Measure, NEW q \in Replica,
         pc'[q] = pc[q], leader'[q] = leader[q], since'[q] = since[q],
         evalAge'[q] = evalAge[q], reply'[q] = reply[q],
         faults' \in {faults, faults + 1},
         \A m \in wire' : m.waited /\ m.from = q => m \in wire
  PROVE  StrayAt(q)' /\ VacantAt(q)'
  <1>1. /\ stray'[q] <= stray[q] /\ vacant'[q] <= vacant[q]
        /\ stray[q] \in Nat /\ vacant[q] \in Nat /\ stray'[q] \in Nat /\ vacant'[q] \in Nat
        /\ since[q] \in Nat /\ evalAge[q] \in Nat
    BY NoGrowth, Measures DEF TimedInv, IInv, TypeOK
  <1>2. Cost(faults) \in Nat /\ Cost(faults') \in Nat /\ Cost(faults) <= Cost(faults')
    <2>1. faults \in Nat
      BY ConstantsAreNat DEF IInv, TypeOK
    <2>2. Cost(faults) \in Nat /\ Cost(faults + 1) = Cost(faults) + RenewInterval + Lag
      BY <2>1, CostGrows
    <2>3. CASE faults' = faults
      BY <2>2, <2>3
    <2>4. CASE faults' = faults + 1
      BY <2>2, <2>4, ConstantsAreNat
    <2>5. QED
      BY <2>3, <2>4
  <1>3. StrayAt(q)'
    <2>1. stray'[q] # 0 => leader'[q] /\ lease'.holder # q
      BY Measures DEF TimedInv
    <2>2. QED
      BY <1>1, <2>1, ConstantsAreNat DEF TimedInv, StrayAt
  <1>4. VacantAt(q)'
    <2>1. vacant'[q] # 0 =>
            /\ lease'.present /\ lease'.readable /\ lease'.holder = NoHolder
            /\ pc'[q] \in {"idle", "get", "put"}
      BY Measures DEF TimedInv
    <2>2. VacantAt(q)
      BY DEF TimedInv
    <2>3. \A m \in wire' : m.waited /\ m.from = q /\ m.op = "create" => vacant'[q] <= since'[q]
      BY <1>1, <2>2 DEF VacantAt
    <2>4. QED
      BY <1>1, <1>2, <2>1, <2>2, <2>3, ConstantsAreNat DEF VacantAt
  <1>5. QED
    BY <1>3, <1>4

\* A step of one replica's elector keeps the measures if that replica stays
\* within them.
LEMMA LocalKeepsTimedInv ==
  ASSUME IInv, IInv', TimedInv, Measure, NEW r \in Replica,
         \A q \in Replica \ {r} :
           /\ pc'[q] = pc[q] /\ leader'[q] = leader[q] /\ since'[q] = since[q]
           /\ evalAge'[q] = evalAge[q] /\ reply'[q] = reply[q],
         faults' \in {faults, faults + 1},
         \A m \in wire' : m.waited /\ m.from # r => m \in wire,
         \A m \in wire' : m.waited /\ m.from = r => (m.op = "release" <=> pc'[r] = "release"),
         pc'[r] \in Running => evalAge'[r] <= StaleAfter + ProbeLag,
         StrayAt(r)', VacantAt(r)'
  PROVE  TimedInv'
  <1>1. OpInv'
    BY DEF IInv, TypeOK, Request, TimedInv, OpInv
  <1>2. ProbeInv'
    BY DEF TimedInv, ProbeInv
  <1>3. \A q \in Replica \ {r} : StrayAt(q)' /\ VacantAt(q)'
    BY OthersKeep
  <1>4. stray' \in [Replica -> Nat] /\ vacant' \in [Replica -> Nat]
    BY Measures DEF TimedInv
  <1>5. QED
    BY <1>1, <1>2, <1>3, <1>4 DEF TimedInv

\* The numbers that StrayAt and VacantAt speak of.
LEMMA Numbers ==
  ASSUME IInv, TimedInv, NEW r \in Replica
  PROVE  /\ stray[r] \in Nat /\ vacant[r] \in Nat /\ since[r] \in Nat /\ evalAge[r] \in Nat
         /\ faults \in Nat /\ Cost(faults) \in Nat
  <1>1. faults \in Nat
    BY ConstantsAreNat DEF IInv, TypeOK
  <1>2. Cost(faults) \in Nat
    BY <1>1, CostGrows
  <1>3. QED
    BY <1>1, <1>2 DEF IInv, TypeOK, TimedInv

\* And after a step.
LEMMA NextNumbers ==
  ASSUME IInv', TimedInv, Measure, NEW r \in Replica
  PROVE  /\ stray'[r] \in Nat /\ vacant'[r] \in Nat /\ since'[r] \in Nat /\ evalAge'[r] \in Nat
         /\ stray'[r] # 0 => leader'[r] /\ lease'.holder # r
         /\ vacant'[r] # 0 =>
              /\ lease'.present /\ lease'.readable /\ lease'.holder = NoHolder
              /\ pc'[r] \in {"idle", "get", "put"}
  BY Measures DEF IInv, TypeOK, TimedInv

\* A replica whose elector ends is in neither situation.
LEMMA StopKeepsTimedInv ==
  ASSUME IInv, IInv', TimedInv, Measure, NEW r \in Replica, NEW place \in {"down", "gone"},
         Stop(r, place), faults' \in {faults, faults + 1},
         \A m \in wire' : m.waited => m \in wire /\ m.from # r
  PROVE  TimedInv'
  <1>1. pc'[r] = place /\ ~leader'[r] /\ evalAge'[r] = 0
    BY DEF Stop, IInv, TypeOK
  <1>2. StrayAt(r)' /\ VacantAt(r)'
    BY <1>1, StrayOver, VacancyOver
  <1>3. \A q \in Replica \ {r} :
          /\ pc'[q] = pc[q] /\ leader'[q] = leader[q] /\ since'[q] = since[q]
          /\ evalAge'[q] = evalAge[q] /\ reply'[q] = reply[q]
    BY DEF Stop, IInv, TypeOK
  <1>4. pc'[r] \in Running => evalAge'[r] <= StaleAfter + ProbeLag
    BY <1>1 DEF Running
  <1>5. QED
    BY <1>1, <1>2, <1>3, <1>4, LocalKeepsTimedInv

\* A replica that ends its evaluation as a non-leader only owes the vacancy.
LEMMA StandDownKeepsTimedInv ==
  ASSUME IInv, IInv', TimedInv, Measure, NEW r \in Replica,
         EndEval(r, FALSE), faults' \in {faults, faults + 1},
         \A q \in Replica \ {r} : reply'[q] = reply[q],
         since' = since,
         \A m \in wire' : m.waited => m \in wire /\ m.from # r,
         VacantAt(r)'
  PROVE  TimedInv'
  <1>1. pc'[r] = "idle" /\ ~leader'[r] /\ evalAge'[r] = 0
    BY DEF EndEval, IInv, TypeOK
  <1>2. StrayAt(r)'
    BY <1>1, StrayOver
  <1>3. \A q \in Replica \ {r} :
          /\ pc'[q] = pc[q] /\ leader'[q] = leader[q] /\ since'[q] = since[q]
          /\ evalAge'[q] = evalAge[q] /\ reply'[q] = reply[q]
    BY DEF EndEval, IInv, TypeOK
  <1>4. pc'[r] \in Running => evalAge'[r] <= StaleAfter + ProbeLag
    BY <1>1, ConstantsAreNat
  <1>5. QED
    BY <1>1, <1>2, <1>3, <1>4, LocalKeepsTimedInv

\* The steps that stop a replica's elector end its measures.
LEMMA StoppingKeepsTimedInv ==
  ASSUME IInv, IInv', TimedInv, Measure, NEW r \in Replica,
         CancelBusy(r) \/ Leave(r) \/ Crash(r) \/ ProbeRestart(r)
  PROVE  TimedInv'
  <1>1. Forsake(r)
    BY DEF CancelBusy, Leave, Crash, ProbeRestart
  <1>2. PICK place \in {"down", "gone"} : Stop(r, place)
    BY DEF CancelBusy, Leave, Crash, ProbeRestart
  <1>3. faults' \in {faults, faults + 1}
    BY DEF CancelBusy, Leave, Crash, ProbeRestart, Fault
  <1>4. \A m \in wire' : m.waited => m \in wire /\ m.from # r
    BY <1>1, ForsakeWire DEF IInv, TypeOK
  <1>5. QED
    BY <1>2, <1>3, <1>4, StopKeepsTimedInv

\* A replica that starts leads nothing and has left nothing untaken yet.
LEMMA StartKeepsTimedInv ==
  ASSUME IInv, IInv', TimedInv, Measure, NEW r \in Replica, Start(r)
  PROVE  TimedInv'
  <1>1. /\ pc[r] = "down" /\ pc'[r] = "get" /\ evalAge'[r] = 0
        /\ ~leader[r] /\ leader' = leader
        /\ wire' = wire /\ faults' = faults
    BY DEF Start, IInv, TypeOK, Running
  <1>2. StrayAt(r)'
    BY <1>1, StrayOver
  <1>3. vacant'[r] = 0
    <2>1. vacant[r] = 0
      BY <1>1 DEF TimedInv, VacantAt
    <2>2. QED
      BY <1>1, <2>1, NoGrowth, NextNumbers
  <1>4. VacantAt(r)'
    BY <1>3, VacancyOver
  <1>5. \A m \in wire' : m.waited => m \in wire /\ m.from # r
    BY <1>1 DEF IInv, CallInv
  <1>6. \A q \in Replica \ {r} :
          /\ pc'[q] = pc[q] /\ leader'[q] = leader[q] /\ since'[q] = since[q]
          /\ evalAge'[q] = evalAge[q] /\ reply'[q] = reply[q]
    BY DEF Start, IInv, TypeOK
  <1>7. QED
    BY <1>1, <1>2, <1>4, <1>5, <1>6, LocalKeepsTimedInv, ConstantsAreNat

\* A new evaluation begins within one renew interval of the latest.
LEMMA BeginEvalKeepsTimedInv ==
  ASSUME IInv, IInv', TimedInv, Measure, NEW r \in Replica, BeginEval(r)
  PROVE  TimedInv'
  <1>1. /\ pc[r] = "idle" /\ pc'[r] = "get" /\ since'[r] = 0
        /\ UNCHANGED <<lease, leader, evalAge, reply, wire, faults>>
    BY DEF BeginEval, IInv, TypeOK
  <1>2. since[r] <= RenewInterval + Lag
    BY <1>1 DEF IInv, SinceInv
  <1>3. stray'[r] <= stray[r] /\ vacant'[r] <= vacant[r]
    BY <1>1, NoGrowth
  <1>4. StrayAt(r)'
    <2>1. stray[r] # 0 => stray[r] <= since[r]
      BY <1>1 DEF TimedInv, StrayAt
    <2>2. stray'[r] <= RenewInterval + Lag
      BY <1>2, <1>3, <2>1, Numbers, NextNumbers, ConstantsAreNat
    <2>3. leader'[r] => stray'[r] <= evalAge'[r] + OpTimeout + Lag
      BY <1>1, <1>3, Numbers, NextNumbers, ConstantsAreNat DEF TimedInv, StrayAt
    <2>4. QED
      BY <1>1, <2>2, <2>3, NextNumbers, ConstantsAreNat DEF StrayAt
  <1>5. \A m \in wire' : m.waited => m \in wire /\ m.from # r
    BY <1>1 DEF IInv, CallInv
  <1>6. VacantAt(r)'
    <2>1. vacant[r] <= Cost(faults) + since[r]
      BY <1>1 DEF TimedInv, VacantAt
    <2>2. vacant'[r] <= Cost(faults) + RenewInterval + Lag + since'[r]
      BY <1>1, <1>2, <1>3, <2>1, Numbers, NextNumbers, ConstantsAreNat
    <2>3. QED
      BY <1>1, <1>5, <2>2, NextNumbers DEF VacantAt
  <1>7. \A q \in Replica \ {r} :
          /\ pc'[q] = pc[q] /\ leader'[q] = leader[q] /\ since'[q] = since[q]
          /\ evalAge'[q] = evalAge[q] /\ reply'[q] = reply[q]
    BY DEF BeginEval, IInv, TypeOK
  <1>8. evalAge'[r] <= StaleAfter + ProbeLag
    BY <1>1 DEF TimedInv, ProbeInv, Running
  <1>9. QED
    BY <1>1, <1>4, <1>5, <1>6, <1>7, <1>8, LocalKeepsTimedInv

\* A write goes out within the evaluation that decided on it.
LEMMA WriteKeepsTimedInv ==
  ASSUME IInv, IInv', TimedInv, Measure, NEW r \in Replica, NEW op \in {"create", "claim"},
         pc[r] = "get", Write(r, op), UNCHANGED <<lease, since, reply, faults>>,
         op = "create" => ~lease.present
  PROVE  TimedInv'
  <1>1. /\ pc'[r] = "put" /\ UNCHANGED <<leader, evalAge, since, reply, faults>>
        /\ wire' = wire \cup {[from |-> r, op |-> op, age |-> 0, waited |-> TRUE]}
    BY DEF Write, Send, IInv, TypeOK
  <1>2. reply[r] = "none" /\ \A m \in wire : m.waited => m.from # r
    BY DEF IInv, TypeOK, CallInv
  <1>3. stray'[r] <= stray[r] /\ vacant'[r] <= vacant[r]
    BY <1>1, NoGrowth
  <1>4. StrayAt(r)'
    <2>1. stray'[r] <= RenewInterval + Lag + since'[r]
      BY <1>1, <1>3, Numbers, NextNumbers, ConstantsAreNat DEF TimedInv, StrayAt
    <2>2. leader'[r] => stray'[r] <= evalAge'[r] + OpTimeout + Lag
      BY <1>1, <1>3, Numbers, NextNumbers, ConstantsAreNat DEF TimedInv, StrayAt
    <2>3. QED
      BY <1>1, <1>2, <2>1, <2>2, NextNumbers DEF StrayAt
  <1>5. VacantAt(r)'
    <2>1. CASE op = "create"
      BY <2>1, VacancyOver
    <2>2. CASE op = "claim"
      <3>1. vacant'[r] <= Cost(faults) + RenewInterval + Lag + since'[r]
        BY <1>1, <1>3, Numbers, NextNumbers, ConstantsAreNat DEF TimedInv, VacantAt
      <3>2. \A m \in wire' : m.waited /\ m.from = r => m.op # "create"
        BY <1>1, <1>2, <2>2
      <3>3. QED
        BY <1>1, <1>2, <3>1, <3>2, NextNumbers DEF VacantAt
    <2>3. QED
      BY <2>1, <2>2
  <1>6. \A q \in Replica \ {r} :
          /\ pc'[q] = pc[q] /\ leader'[q] = leader[q] /\ since'[q] = since[q]
          /\ evalAge'[q] = evalAge[q] /\ reply'[q] = reply[q]
    BY DEF Write, IInv, TypeOK
  <1>7. evalAge'[r] <= StaleAfter + ProbeLag
    BY <1>1 DEF TimedInv, ProbeInv, Running
  <1>8. \A m \in wire' : m.waited /\ m.from = r => m.op # "release"
    BY <1>1, <1>2
  <1>9. \A m \in wire' : m.waited /\ m.from # r => m \in wire
    BY <1>1
  <1>10. QED
    BY <1>1, <1>4, <1>5, <1>6, <1>7, <1>8, <1>9, LocalKeepsTimedInv

\* An evaluation that saw the Lease cleared claims it.
LEMMA EvaluateKeepsTimedInv ==
  ASSUME IInv, IInv', TimedInv, Measure, NEW r \in Replica, Evaluate(r)
  PROVE  TimedInv'
  <1>1. pc[r] = "get" /\ UNCHANGED <<lease, since, reply, faults>>
    BY DEF Evaluate
  <1>2. CASE ~lease.present /\ Write(r, "create")
    BY <1>1, <1>2, WriteKeepsTimedInv
  <1>3. CASE Write(r, "claim")
    BY <1>1, <1>3, WriteKeepsTimedInv
  <1>4. CASE lease.present /\ lease.holder # r /\ ~Takeable(r) /\ StandBack(r)
    <2>1. ~lease'.readable \/ lease'.holder # NoHolder
      BY <1>1, <1>4 DEF Takeable
    <2>2. VacantAt(r)'
      BY <2>1, VacancyOver
    <2>3. \A m \in wire' : m.waited => m \in wire /\ m.from # r
      BY <1>1, <1>4 DEF StandBack, IInv, CallInv
    <2>4. EndEval(r, FALSE)
      BY <1>4 DEF StandBack
    <2>5. QED
      BY <1>1, <2>2, <2>3, <2>4, StandDownKeepsTimedInv
  <1>5. QED
    BY <1>2, <1>3, <1>4 DEF Evaluate

\* An answered write ends the evaluation, and with it a stray lead within one call.
LEMMA ConcludeKeepsTimedInv ==
  ASSUME IInv, IInv', TimedInv, Measure, NEW r \in Replica, Conclude(r)
  PROVE  TimedInv'
  <1>1. /\ pc[r] = "put" /\ reply[r] # "none"
        /\ pc'[r] = "idle" /\ leader'[r] = (reply[r] = "ok") /\ evalAge'[r] = 0
        /\ UNCHANGED <<lease, since, wire, faults>>
    BY DEF Conclude, EndEval, IInv, TypeOK
  <1>2. since[r] <= OpTimeout + Lag
    BY <1>1 DEF IInv, SinceInv
  <1>3. stray'[r] <= stray[r] /\ vacant'[r] <= vacant[r]
    BY <1>1, NoGrowth
  <1>4. StrayAt(r)'
    <2>1. leader'[r] => stray[r] <= since[r]
      BY <1>1 DEF TimedInv, StrayAt
    <2>2. leader'[r] => stray'[r] <= since'[r] /\ stray'[r] <= evalAge'[r] + OpTimeout + Lag
      BY <1>1, <1>2, <1>3, <2>1, Numbers, NextNumbers, ConstantsAreNat
    <2>3. stray'[r] <= RenewInterval + Lag + since'[r]
      BY <2>2, NextNumbers, ConstantsAreNat
    <2>4. QED
      BY <1>1, <2>2, <2>3, NextNumbers DEF StrayAt
  <1>5. \A m \in wire' : m.waited => m \in wire /\ m.from # r
    BY <1>1 DEF IInv, CallInv
  <1>6. VacantAt(r)'
    <2>1. vacant[r] <= since[r]
      BY <1>1 DEF TimedInv, VacantAt
    <2>2. vacant'[r] <= Cost(faults) + since'[r]
      BY <1>1, <1>3, <2>1, Numbers, NextNumbers
    <2>3. QED
      BY <1>1, <1>5, <2>2, NextNumbers DEF VacantAt
  <1>7. \A q \in Replica \ {r} :
          /\ pc'[q] = pc[q] /\ leader'[q] = leader[q] /\ since'[q] = since[q]
          /\ evalAge'[q] = evalAge[q] /\ reply'[q] = reply[q]
    BY DEF Conclude, EndEval, IInv, TypeOK
  <1>8. QED
    BY <1>1, <1>4, <1>5, <1>6, <1>7, LocalKeepsTimedInv, ConstantsAreNat

\* A failed evaluation pays for the interval until the next one with its fault.
LEMMA EvalFailsKeepsTimedInv ==
  ASSUME IInv, IInv', TimedInv, Measure, NEW r \in Replica, EvalFails(r)
  PROVE  TimedInv'
  <1>1. /\ pc[r] \in {"get", "put"} /\ pc'[r] = "idle" /\ evalAge'[r] = 0
        /\ since' = since /\ faults' = faults + 1
        /\ \A q \in Replica \ {r} : reply'[q] = reply[q]
    BY DEF EvalFails, EndEval, Fault, IInv, TypeOK
  <1>2. \A m \in wire' : m.waited => m \in wire /\ m.from # r
    BY ForsakeWire DEF EvalFails, IInv, TypeOK
  <1>3. vacant'[r] <= vacant[r]
    BY <1>1, NoGrowth
  <1>4. VacantAt(r)'
    <2>1. vacant[r] <= Cost(faults) + RenewInterval + Lag + since[r]
      BY <1>1 DEF TimedInv, VacantAt
    <2>2. Cost(faults') = Cost(faults) + RenewInterval + Lag
      BY <1>1, Numbers, CostGrows
    <2>3. vacant'[r] <= Cost(faults') + since'[r]
      BY <1>1, <1>3, <2>1, <2>2, Numbers, NextNumbers, ConstantsAreNat
    <2>4. QED
      BY <1>1, <1>2, <2>3, NextNumbers DEF VacantAt
  <1>5. EndEval(r, FALSE)
    BY DEF EvalFails
  <1>6. QED
    BY <1>1, <1>2, <1>4, <1>5, StandDownKeepsTimedInv

\* SIGTERM between two evaluations: a leader's release begins within one interval.
LEMMA CancelIdleKeepsTimedInv ==
  ASSUME IInv, IInv', TimedInv, Measure, NEW r \in Replica, CancelIdle(r)
  PROVE  TimedInv'
  <1>1. pc[r] = "idle" /\ UNCHANGED <<lease, faults>>
    BY DEF CancelIdle
  <1>2. \A m \in wire : m.waited => m.from # r
    BY <1>1 DEF IInv, CallInv
  <1>3. CASE Stop(r, "gone") /\ UNCHANGED wire
    BY <1>1, <1>2, <1>3, StopKeepsTimedInv
  <1>4. CASE /\ pc' = [pc EXCEPT ![r] = "release"]
             /\ since' = [since EXCEPT ![r] = 0]
             /\ Send(r, "release")
             /\ UNCHANGED <<leader, evalAge, reply>>
    <2>1. /\ pc'[r] = "release" /\ since'[r] = 0
          /\ wire' = wire \cup {[from |-> r, op |-> "release", age |-> 0, waited |-> TRUE]}
      BY <1>4 DEF Send, IInv, TypeOK
    <2>2. stray'[r] <= stray[r]
      BY <1>4, NoGrowth
    <2>3. StrayAt(r)'
      <3>1. stray[r] # 0 => stray[r] <= since[r]
        BY <1>1 DEF TimedInv, StrayAt
      <3>2. since[r] <= RenewInterval + Lag
        BY <1>1 DEF IInv, SinceInv
      <3>3. stray'[r] <= RenewInterval + Lag + since'[r]
        BY <2>1, <2>2, <3>1, <3>2, Numbers, NextNumbers, ConstantsAreNat
      <3>4. leader'[r] => stray'[r] <= evalAge'[r] + OpTimeout + Lag
        BY <1>4, <2>2, Numbers, NextNumbers, ConstantsAreNat DEF TimedInv, StrayAt
      <3>5. QED
        BY <2>1, <3>3, <3>4, NextNumbers DEF StrayAt
    <2>4. VacantAt(r)'
      BY <2>1, VacancyOver
    <2>5. \A q \in Replica \ {r} :
            /\ pc'[q] = pc[q] /\ leader'[q] = leader[q] /\ since'[q] = since[q]
            /\ evalAge'[q] = evalAge[q] /\ reply'[q] = reply[q]
      BY <1>4 DEF IInv, TypeOK
    <2>6. evalAge'[r] <= StaleAfter + ProbeLag
      BY <1>1, <1>4 DEF TimedInv, ProbeInv, Running
    <2>7. \A m \in wire' : m.waited /\ m.from = r => m.op = "release"
      BY <1>2, <2>1
    <2>8. \A m \in wire' : m.waited /\ m.from # r => m \in wire
      BY <2>1
    <2>9. QED
      BY <1>1, <2>1, <2>3, <2>4, <2>5, <2>6, <2>7, <2>8, LocalKeepsTimedInv
  <1>5. QED
    BY <1>3, <1>4 DEF CancelIdle

\* A wedged leader may stray for as long as the probe lets its elector stand.
LEMMA WedgeKeepsTimedInv ==
  ASSUME IInv, IInv', TimedInv, Measure, NEW r \in Replica, Wedge(r)
  PROVE  TimedInv'
  <1>1. /\ pc[r] \in {"get", "put"} /\ pc'[r] = "wedged" /\ faults' = faults + 1
        /\ UNCHANGED <<lease, leader, since, evalAge>>
    BY DEF Wedge, Fault, IInv, TypeOK
  <1>2. \A m \in wire' : m.waited => m \in wire /\ m.from # r
    BY ForsakeWire DEF Wedge, IInv, TypeOK
  <1>3. StrayAt(r)'
    <2>1. stray'[r] <= stray[r]
      BY <1>1, NoGrowth
    <2>2. leader'[r] => stray'[r] <= evalAge'[r] + OpTimeout + Lag
      BY <1>1, <2>1, Numbers, NextNumbers, ConstantsAreNat DEF TimedInv, StrayAt
    <2>3. QED
      BY <1>1, <2>2, NextNumbers DEF StrayAt
  <1>4. VacantAt(r)'
    BY <1>1, VacancyOver
  <1>5. \A q \in Replica \ {r} :
          /\ pc'[q] = pc[q] /\ leader'[q] = leader[q] /\ since'[q] = since[q]
          /\ evalAge'[q] = evalAge[q] /\ reply'[q] = reply[q]
    BY DEF Wedge, IInv, TypeOK
  <1>6. evalAge'[r] <= StaleAfter + ProbeLag
    BY <1>1 DEF TimedInv, ProbeInv, Running
  <1>7. QED
    BY <1>1, <1>2, <1>3, <1>4, <1>5, <1>6, LocalKeepsTimedInv

\* A step outside the replicas that answers no call leaves the measures alone.
LEMMA OutsideKeepsTimedInv ==
  ASSUME IInv, IInv', TimedInv, Measure,
         (\E m \in wire : Lose(m)) \/ DeleteLease \/ GarbleRenewTime
  PROVE  TimedInv'
  <1>1. /\ UNCHANGED <<pc, leader, since, evalAge, reply>>
        /\ faults' \in {faults, faults + 1} /\ wire' \subseteq wire
    BY DEF Lose, DeleteLease, GarbleRenewTime, Fault
  <1>2. \A q \in Replica : StrayAt(q)' /\ VacantAt(q)'
    BY <1>1, OthersKeep
  <1>3. OpInv' /\ ProbeInv'
    BY <1>1 DEF TimedInv, OpInv, ProbeInv
  <1>4. stray' \in [Replica -> Nat] /\ vacant' \in [Replica -> Nat]
    BY Measures DEF TimedInv
  <1>5. QED
    BY <1>2, <1>3, <1>4 DEF TimedInv

\* A served write ends the situation it was sent into, or tells its sender that
\* the situation ended.
LEMMA ServeKeepsTimedInv ==
  ASSUME IInv, IInv', TimedInv, Measure, NEW m \in wire, Serve(m)
  PROVE  TimedInv'
  <1> DEFINE r == m.from
  <1>1. r \in Replica /\ r # NoHolder
    BY IdentityAssumption DEF IInv, TypeOK, Request
  <1>2. wire' = wire \ {m} /\ UNCHANGED <<pc, leader, since, evalAge, faults>>
    BY DEF Serve
  <1>3. PICK a \in {"ok", "rejected"} : Answer(m, a)
    BY DEF Serve
  <1>4. \A q \in Replica : q # r \/ ~m.waited => StrayAt(q)' /\ VacantAt(q)'
    <2>1. \A q \in Replica : q # r \/ ~m.waited => reply'[q] = reply[q]
      BY <1>3 DEF Answer
    <2>2. QED
      BY <1>2, <2>1, OthersKeep
  <1>5. ASSUME m.waited PROVE StrayAt(r)' /\ VacantAt(r)'
    <2>1. \A n \in wire' : n.waited => n.from # r
      BY <1>2, <1>5 DEF IInv, CallInv
    <2>2. m.op = "release" <=> pc[r] = "release"
      BY <1>5 DEF TimedInv, OpInv
    <2>3. stray'[r] <= stray[r] /\ vacant'[r] <= vacant[r]
      BY <1>1, <1>2, NoGrowth
    <2>4. StrayAt(r)'
      <3>1. pc'[r] = "put" /\ reply'[r] = "ok" => stray'[r] = 0
        <4>1. ASSUME pc'[r] = "put", reply'[r] = "ok" PROVE lease'.holder = r
          <5>1. m.op # "release"
            BY <1>2, <2>2, <4>1
          <5>2. ~Answer(m, "rejected")
            BY <1>1, <1>5, <4>1 DEF Answer, IInv, TypeOK
          <5>3. lease' = HeldBy(m.from, m.age)
            BY <5>1, <5>2 DEF Serve
          <5>4. QED
            BY <5>3 DEF HeldBy
        <4>2. QED
          BY <1>1, <4>1, NextNumbers
      <3>2. leader'[r] => stray'[r] <= evalAge'[r] + OpTimeout + Lag
        BY <1>1, <1>2, <2>3, Numbers, NextNumbers, ConstantsAreNat DEF TimedInv, StrayAt
      <3>3. leader'[r] /\ pc'[r] = "idle" => stray'[r] <= since'[r]
        BY <1>1, <1>2, <2>3, Numbers, NextNumbers, ConstantsAreNat DEF TimedInv, StrayAt
      <3>4. pc'[r] \in {"get", "put", "release"} => stray'[r] <= RenewInterval + Lag + since'[r]
        BY <1>1, <1>2, <2>3, Numbers, NextNumbers, ConstantsAreNat DEF TimedInv, StrayAt
      <3>5. QED
        BY <1>1, <3>1, <3>2, <3>3, <3>4, NextNumbers DEF StrayAt
    <2>5. VacantAt(r)'
      <3>1. CASE lease' = HeldBy(m.from, m.age)
        <4>1. lease'.holder # NoHolder
          BY <1>1, <3>1 DEF HeldBy
        <4>2. QED
          BY <1>1, <4>1, VacancyOver
      <3>2. CASE m.op = "release"
        <4>1. pc'[r] = "release"
          BY <1>2, <2>2, <3>2
        <4>2. QED
          BY <1>1, <4>1, VacancyOver
      <3>3. CASE m.op # "create" /\ ~lease.present /\ lease' = lease
        BY <1>1, <3>3, VacancyOver
      <3>4. CASE m.op = "create" /\ lease' = lease
        <4>1. vacant[r] <= since[r]
          BY <1>1, <1>5, <3>4 DEF TimedInv, VacantAt
        <4>2. vacant'[r] <= since'[r]
          BY <1>1, <1>2, <2>3, <4>1, Numbers, NextNumbers
        <4>3. /\ vacant'[r] <= Cost(faults') + since'[r]
              /\ vacant'[r] <= Cost(faults') + RenewInterval + Lag + since'[r]
          BY <1>1, <1>2, <4>2, Numbers, NextNumbers, ConstantsAreNat
        <4>4. QED
          BY <1>1, <2>1, <4>2, <4>3, NextNumbers DEF VacantAt
      <3>5. QED
        BY <3>1, <3>2, <3>3, <3>4 DEF Serve
    <2>6. QED
      BY <2>4, <2>5
  <1>6. OpInv' /\ ProbeInv'
    BY <1>2 DEF TimedInv, OpInv, ProbeInv
  <1>7. stray' \in [Replica -> Nat] /\ vacant' \in [Replica -> Nat]
    BY Measures DEF TimedInv
  <1> HIDE DEF r
  <1>8. \A q \in Replica : StrayAt(q)' /\ VacantAt(q)'
    BY <1>4, <1>5
  <1>9. QED
    BY <1>6, <1>7, <1>8 DEF TimedInv

\* A tick adds one to every measure and to the timer that bounds it.
LEMMA TickKeepsTimedInv ==
  ASSUME IInv, IInv', TimedInv, Measure, Tick
  PROVE  TimedInv'
  <1>1. /\ UNCHANGED <<pc, leader, reply, faults>>
        /\ \A r \in Replica :
             /\ pc[r] \in {"idle", "get", "put", "release"} => since'[r] = since[r] + 1
             /\ pc[r] \in Running => evalAge'[r] = evalAge[r] + 1
             /\ leader[r] => pc[r] \in Running
    BY DEF Tick, IInv, TypeOK
  <1>2. \A n \in wire' : \E m \in wire :
          n.from = m.from /\ n.waited = m.waited /\ n.op = m.op
    BY DEF Tick, IInv, TypeOK, Request
  <1>3. OpInv'
    BY <1>1, <1>2 DEF TimedInv, OpInv
  <1>4. ProbeInv'
    BY <1>1, ConstantsAreNat DEF Tick, OnTime, IInv, TypeOK, ProbeInv
  <1>5. ASSUME NEW r \in Replica PROVE StrayAt(r)' /\ VacantAt(r)'
    <2>1. stray'[r] <= stray[r] + 1 /\ vacant'[r] <= vacant[r] + 1
      BY Measures DEF TimedInv
    <2>2. StrayAt(r)'
      <3>1. leader'[r] => stray'[r] <= evalAge'[r] + OpTimeout + Lag
        BY <1>1, <2>1, Numbers, NextNumbers, ConstantsAreNat DEF TimedInv, StrayAt
      <3>2. leader'[r] /\ pc'[r] = "idle" => stray'[r] <= since'[r]
        BY <1>1, <2>1, Numbers, NextNumbers DEF TimedInv, StrayAt
      <3>3. pc'[r] = "put" /\ reply'[r] = "ok" => stray'[r] <= since'[r]
        BY <1>1, <2>1, Numbers, NextNumbers DEF TimedInv, StrayAt
      <3>4. pc'[r] \in {"get", "put", "release"} => stray'[r] <= RenewInterval + Lag + since'[r]
        BY <1>1, <2>1, Numbers, NextNumbers, ConstantsAreNat DEF TimedInv, StrayAt
      <3>5. QED
        BY <3>1, <3>2, <3>3, <3>4, NextNumbers DEF StrayAt
    <2>3. VacantAt(r)'
      <3>1. VacantAt(r)
        BY DEF TimedInv
      <3>2. pc'[r] = "idle" => vacant'[r] <= Cost(faults') + since'[r]
        BY <1>1, <2>1, <3>1, Numbers, NextNumbers DEF VacantAt
      <3>3. pc'[r] \in {"get", "put"} => vacant'[r] <= Cost(faults') + RenewInterval + Lag + since'[r]
        BY <1>1, <2>1, <3>1, Numbers, NextNumbers, ConstantsAreNat DEF VacantAt
      <3>4. pc'[r] = "put" /\ reply'[r] # "none" => vacant'[r] <= since'[r]
        BY <1>1, <2>1, <3>1, Numbers, NextNumbers DEF VacantAt
      <3>5. ASSUME NEW n \in wire', n.waited, n.from = r, n.op = "create"
            PROVE  vacant'[r] <= since'[r]
        <4>1. PICK m \in wire : m.from = r /\ m.waited /\ m.op = "create"
          BY <1>2, <3>5
        <4>2. pc[r] \in {"put", "release"}
          BY <4>1 DEF IInv, CallInv
        <4>3. vacant[r] <= since[r]
          BY <3>1, <4>1 DEF VacantAt
        <4>4. QED
          BY <1>1, <2>1, <4>2, <4>3, Numbers, NextNumbers
      <3>6. QED
        BY <3>2, <3>3, <3>4, <3>5, NextNumbers DEF VacantAt
    <2>4. QED
      BY <2>2, <2>3
  <1>6. stray' \in [Replica -> Nat] /\ vacant' \in [Replica -> Nat]
    BY Measures DEF TimedInv
  <1>7. QED
    BY <1>3, <1>4, <1>5, <1>6 DEF TimedInv

\* Every measured step is a step of the elector or of its environment.
LEMMA TimedStep == TimedNext => Next /\ Measure
  BY DEF TimedNext, Next, Step, Disturb

\* The measures start at zero.
LEMMA InitTimedInv == TimedInit => TimedInv
  <1> SUFFICES ASSUME TimedInit PROVE TimedInv
    OBVIOUS
  <1>1. TypeOK
    BY InitIInv DEF TimedInit, IInv
  <1>2. Cost(faults) \in Nat
    BY CostGrows DEF TimedInit, Init
  <1>3. \A r \in Replica : StrayAt(r) /\ VacantAt(r)
    BY <1>1, <1>2, ConstantsAreNat DEF TimedInit, Init, TypeOK, StrayAt, VacantAt
  <1>4. OpInv /\ ProbeInv
    BY DEF TimedInit, Init, OpInv, ProbeInv, Running
  <1>5. QED
    BY <1>3, <1>4 DEF TimedInit, TimedInv

\* Every measured step keeps the measures within the timers.
LEMMA NextKeepsTimedInv == IInv /\ IInv' /\ TimedInv /\ [TimedNext]_timedVars => TimedInv'
  <1> SUFFICES ASSUME IInv, IInv', TimedInv, [TimedNext]_timedVars PROVE TimedInv'
    OBVIOUS
  <1>1. CASE TimedNext
    <2>1. Measure
      BY <1>1, TimedStep
    <2>2. CASE \E r \in Replica : Step(r)
      BY <2>1, <2>2, StartKeepsTimedInv, BeginEvalKeepsTimedInv, EvaluateKeepsTimedInv,
         ConcludeKeepsTimedInv, StoppingKeepsTimedInv DEF Step
    <2>3. CASE \E r \in Replica : Disturb(r)
      BY <2>1, <2>3, EvalFailsKeepsTimedInv, CancelIdleKeepsTimedInv, StoppingKeepsTimedInv,
         WedgeKeepsTimedInv DEF Disturb
    <2>4. CASE \E m \in wire : Serve(m)
      BY <2>1, <2>4, ServeKeepsTimedInv
    <2>5. CASE (\E m \in wire : Lose(m)) \/ DeleteLease \/ GarbleRenewTime
      BY <2>1, <2>5, OutsideKeepsTimedInv
    <2>6. CASE Tick
      BY <2>1, <2>6, TickKeepsTimedInv
    <2>7. QED
      BY <1>1, <2>2, <2>3, <2>4, <2>5, <2>6, TimedStep DEF Next
  <1>2. CASE UNCHANGED timedVars
    BY <1>2 DEF timedVars, vars, TimedInv, OpInv, ProbeInv, StrayAt, VacantAt
  <1>3. QED
    BY <1>1, <1>2

\* The measures watch the elector and do not change what it may do, so what is
\* proved of Spec holds of the measured elector too.
LEMMA TimedIsElector == TimedSpec => Spec
  <1>1. TimedInit => Init
    BY DEF TimedInit
  <1>2. [TimedNext]_timedVars => [Next]_vars
    BY TimedStep DEF timedVars
  <1>3. QED
    BY <1>1, <1>2, PTL DEF TimedSpec, Spec

\* Both invariants hold in every reachable state of the measured elector.
THEOREM TimedInvariance == TimedSpec => [](IInv /\ TimedInv)
  <1>1. TimedInit => IInv /\ TimedInv
    BY InitIInv, InitTimedInv DEF TimedInit
  <1>2. IInv /\ TimedInv /\ [TimedNext]_timedVars => (IInv /\ TimedInv)'
    <2>1. [TimedNext]_timedVars => [Next]_vars
      BY TimedStep DEF timedVars
    <2>2. QED
      BY <2>1, NextKeepsIInv, NextKeepsTimedInv
  <1>3. QED
    BY <1>1, <1>2, PTL DEF TimedSpec

\* A leader that lost its Lease stops leading within one renew interval and one
\* call, a wedged one by the time the kubelet has acted on /healthz.
THEOREM OverlapSafe == TimedSpec => []OverlapBounded
  <1>1. IInv /\ TimedInv => OverlapBounded
    <2> SUFFICES ASSUME IInv, TimedInv, NEW r \in Replica
                 PROVE  stray[r] <= IF pc[r] = "wedged" THEN OpTimeout + Lag + StaleAfter + ProbeLag
                                    ELSE RenewInterval + Lag + OpTimeout + Lag
      BY DEF OverlapBounded
    <2>1. StrayAt(r)
      BY DEF TimedInv
    <2>2. CASE stray[r] = 0
      BY <2>2, ConstantsAreNat
    <2>3. CASE stray[r] # 0
      <3>1. leader[r] /\ pc[r] \in Running
        BY <2>1, <2>3 DEF StrayAt, IInv, TypeOK
      <3>2. CASE pc[r] = "wedged"
        <4>1. stray[r] <= evalAge[r] + OpTimeout + Lag /\ evalAge[r] <= StaleAfter + ProbeLag
          BY <2>1, <3>1 DEF StrayAt, TimedInv, ProbeInv
        <4>2. QED
          BY <3>2, <4>1, Numbers, ConstantsAreNat
      <3>3. CASE pc[r] = "idle"
        <4>1. stray[r] <= since[r] /\ since[r] <= RenewInterval + Lag
          BY <2>1, <3>1, <3>3 DEF StrayAt, IInv, SinceInv
        <4>2. QED
          BY <3>3, <4>1, Numbers, ConstantsAreNat
      <3>4. CASE pc[r] \in {"get", "put", "release"}
        <4>1. stray[r] <= RenewInterval + Lag + since[r] /\ since[r] <= OpTimeout + Lag
          BY <2>1, <3>4 DEF StrayAt, IInv, SinceInv
        <4>2. QED
          BY <3>4, <4>1, Numbers, ConstantsAreNat
      <3>5. QED
        BY <3>1, <3>2, <3>3, <3>4 DEF Running
    <2>4. QED
      BY <2>2, <2>3
  <1>2. QED
    BY <1>1, TimedInvariance, PTL

\* A released Lease is retaken within one renew interval and one call, and one
\* interval more per fault.
THEOREM HandoffSafe == TimedSpec => []HandoffBounded
  <1>1. IInv /\ TimedInv => HandoffBounded
    <2> SUFFICES ASSUME IInv, TimedInv, NEW r \in Replica
                 PROVE  vacant[r] <= (1 + faults) * (RenewInterval + Lag) + OpTimeout + Lag
      BY DEF HandoffBounded
    <2>1. /\ (1 + faults) * (RenewInterval + Lag) = Cost(faults) + RenewInterval + Lag
          /\ Cost(faults) \in Nat
      BY Numbers, CostGrows
    <2>2. VacantAt(r)
      BY DEF TimedInv
    <2>3. vacant[r] <= Cost(faults) + RenewInterval + Lag + OpTimeout + Lag
      <3>1. CASE vacant[r] = 0
        BY <2>1, <3>1, ConstantsAreNat
      <3>2. CASE pc[r] = "idle"
        <4>1. vacant[r] <= Cost(faults) + since[r] /\ since[r] <= RenewInterval + Lag
          BY <2>2, <3>2 DEF VacantAt, IInv, SinceInv
        <4>2. QED
          BY <2>1, <4>1, Numbers, ConstantsAreNat
      <3>3. CASE pc[r] \in {"get", "put"}
        <4>1. /\ vacant[r] <= Cost(faults) + RenewInterval + Lag + since[r]
              /\ since[r] <= OpTimeout + Lag
          BY <2>2, <3>3 DEF VacantAt, IInv, SinceInv
        <4>2. QED
          BY <2>1, <4>1, Numbers, ConstantsAreNat
      <3>4. QED
        BY <2>2, <3>1, <3>2, <3>3 DEF VacantAt
    <2>4. QED
      BY <2>1, <2>3
  <1>2. QED
    BY <1>1, TimedInvariance, PTL
=============================================================================
