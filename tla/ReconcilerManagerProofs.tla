----------------------- MODULE ReconcilerManagerProofs -----------------------
(***************************************************************************)
(* Type correctness of the lanes, and that no wakeup is lost, for any set  *)
(* of lanes, any mix of gates, streams, waiters and tickers, whatever the  *)
(* bounds on waiters and on failed passes.                                 *)
(*                                                                         *)
(* NoLostWakeup speaks of sleeping loops only, and is not inductive: a     *)
(* loop that has read the cluster and is still acting goes to sleep next,  *)
(* and by then a wakeup for what changed meanwhile must be pending.        *)
(* RousedInv extends the claim to such loops; WatchedInv and ArrivalInv    *)
(* say that a spawned lane has the goroutines the claim counts on.         *)
(***************************************************************************)
EXTENDS ReconcilerManager, TLAPS

\* The lane's next place to sleep is one where it would sleep on work.
Drowsy(l) ==
  /\ loop[l] = "act" \/ (loop[l] = "wait" /\ ~failed[l])
  /\ ~cancelled /\ Able(l) /\ stale[l] /\ Attended(l)

RousedInv == \A l \in Lane : Drowsy(l) => WakeupPending(l)

\* A spawned lane with a stream has a watcher until the process is cancelled.
WatchedInv ==
  \A l \in Lane :
    /\ l \in Streamed /\ loop[l] # "unborn" => watcher[l] # "none"
    /\ watcher[l] = "done" => cancelled

\* While the credential is absent and not given up, somebody looks for it.
ArrivalInv ==
  \A l \in Lane :
    /\ arrival[l] = "known" => credential[l]
    /\ l \in Waits /\ loop[l] # "unborn" /\ ~credential[l] /\ arrival[l] = "open"
         => looking[l] > 0 \/ polling[l] > 0

IInv == TypeOK /\ WatchedInv /\ ArrivalInv /\ RousedInv

\* The lanes start in the invariant.
LEMMA InitIInv == Init => IInv
  <1> SUFFICES ASSUME Init PROVE IInv
    OBVIOUS
  <1>1. credential \in [Lane -> BOOLEAN] /\ \A l \in Lane \ Credentialed : credential[l]
    BY DEF Init
  <1>2. arrival \in [Lane -> Arrival]
    BY DEF Init, Arrival
  <1>3. TypeOK
    <2>1. /\ loop \in [Lane -> LoopPlace] /\ watcher \in [Lane -> WatchPlace]
          /\ errors \in 0..MaxErrors
      BY BoundAssumption DEF Init, LoopPlace, WatchPlace
    <2>2. /\ looking \in [Lane -> Nat] /\ polling \in [Lane -> Nat]
          /\ \A l \in Lane :
               /\ ~frames[l] /\ ~kick[l] /\ ~trigger[l]
               /\ watcher[l] = "none" /\ looking[l] = 0 /\ polling[l] = 0
      BY DEF Init
    <2>3. /\ kick \in [Lane -> BOOLEAN] /\ trigger \in [Lane -> BOOLEAN]
          /\ stale \in [Lane -> BOOLEAN] /\ failed \in [Lane -> BOOLEAN]
          /\ frames \in [Lane -> BOOLEAN]
          /\ isLeader \in BOOLEAN /\ acquiring \in BOOLEAN /\ cancelled \in BOOLEAN
          /\ ~acquiring
      BY DEF Init
    <2>4. QED
      BY <1>1, <1>2, <2>1, <2>2, <2>3 DEF TypeOK
  <1>4. WatchedInv /\ ArrivalInv /\ RousedInv
    BY <1>1 DEF Init, WatchedInv, ArrivalInv, RousedInv, Drowsy
  <1>5. QED
    BY <1>3, <1>4 DEF IInv

\* The elector's steps, and SIGTERM, keep IInv.
LEMMA LeadershipKeepsIInv ==
  ASSUME IInv, Acquire \/ Kick \/ LoseLead \/ Cancel
  PROVE  IInv'
  <1>1. CASE Acquire
    <2>1. TypeOK'
      BY <1>1 DEF IInv, Acquire, stream, waiting, TypeOK
    <2>2. WatchedInv'
      BY <1>1 DEF IInv, Acquire, stream, waiting, TypeOK, WatchedInv
    <2>3. ArrivalInv'
      BY <1>1 DEF IInv, Acquire, stream, waiting, TypeOK, ArrivalInv
    <2>4. RousedInv'
      BY <1>1
      DEF IInv, Acquire, stream, waiting, TypeOK, RousedInv, Drowsy, Able,
          Attended, WakeupPending
    <2>5. QED
      BY <2>1, <2>2, <2>3, <2>4 DEF IInv
  <1>2. CASE Kick
    <2>1. TypeOK'
      BY <1>2 DEF IInv, Kick, Subscribed, passes, stream, waiting, TypeOK
    <2>2. WatchedInv'
      BY <1>2
      DEF IInv, Kick, Subscribed, passes, stream, waiting, TypeOK, WatchedInv
    <2>3. ArrivalInv'
      BY <1>2
      DEF IInv, Kick, Subscribed, passes, stream, waiting, TypeOK, ArrivalInv
    <2>4. RousedInv'
      BY <1>2
      DEF IInv, Kick, Subscribed, passes, stream, waiting, TypeOK, RousedInv,
          Drowsy, Able, Attended, WakeupPending
    <2>5. QED
      BY <2>1, <2>2, <2>3, <2>4 DEF IInv
  <1>3. CASE LoseLead
    <2>1. TypeOK'
      BY <1>3 DEF IInv, LoseLead, passes, stream, waiting, TypeOK
    <2>2. WatchedInv'
      BY <1>3 DEF IInv, LoseLead, passes, stream, waiting, TypeOK, WatchedInv
    <2>3. ArrivalInv'
      BY <1>3 DEF IInv, LoseLead, passes, stream, waiting, TypeOK, ArrivalInv
    <2>4. RousedInv'
      BY <1>3
      DEF IInv, LoseLead, passes, stream, waiting, TypeOK, RousedInv, Drowsy,
          Able, Attended, WakeupPending
    <2>5. QED
      BY <2>1, <2>2, <2>3, <2>4 DEF IInv
  <1>4. CASE Cancel
    <2>1. TypeOK'
      BY <1>4 DEF IInv, Cancel, elector, passes, stream, waiting, TypeOK
    <2>2. WatchedInv'
      BY <1>4
      DEF IInv, Cancel, elector, passes, stream, waiting, TypeOK, WatchedInv
    <2>3. ArrivalInv'
      BY <1>4
      DEF IInv, Cancel, elector, passes, stream, waiting, TypeOK, ArrivalInv
    <2>4. RousedInv'
      BY <1>4
      DEF IInv, Cancel, elector, passes, stream, waiting, TypeOK, RousedInv,
          Drowsy, Able, Attended, WakeupPending
    <2>5. QED
      BY <2>1, <2>2, <2>3, <2>4 DEF IInv
  <1>5. QED
    BY <1>1, <1>2, <1>3, <1>4

\* The steps of a lane's loop keep IInv.
LEMMA PassKeepsIInv ==
  ASSUME IInv, NEW k \in Lane,
         Spawn(k) \/ Gate(k) \/ Read(k) \/ Finish(k) \/ PassFails(k) \/
         Wake(k) \/ Exit(k) \/ Drain(k)
  PROVE  IInv'
  <1>1. CASE Spawn(k)
    <2>1. TypeOK'
      BY <1>1
      DEF IInv, Spawn, CallWatch, elector, passes, TypeOK, LoopPlace,
          WatchPlace, Arrival
    <2>2. WatchedInv'
      BY <1>1
      DEF IInv, Spawn, CallWatch, elector, passes, TypeOK, WatchedInv, Watched
    <2>3. ArrivalInv'
      BY <1>1, LaneAssumption
      DEF IInv, Spawn, CallWatch, elector, passes, TypeOK, ArrivalInv,
          Watched, Arrival
    <2>4. RousedInv'
      BY <1>1
      DEF IInv, Spawn, CallWatch, elector, passes, TypeOK, RousedInv, Drowsy,
          Able, Attended, WakeupPending
    <2>5. QED
      BY <2>1, <2>2, <2>3, <2>4 DEF IInv
  <1>2. CASE Gate(k)
    <2>1. TypeOK'
      BY <1>2
      DEF IInv, Gate, elector, stream, waiting, TypeOK, LoopPlace, WatchPlace,
          Arrival
    <2>2. WatchedInv'
      BY <1>2 DEF IInv, Gate, elector, stream, waiting, TypeOK, WatchedInv
    <2>3. ArrivalInv'
      BY <1>2 DEF IInv, Gate, elector, stream, waiting, TypeOK, ArrivalInv
    <2>4. RousedInv'
      BY <1>2
      DEF IInv, Gate, elector, stream, waiting, TypeOK, RousedInv, Drowsy,
          Able, Attended, WakeupPending
    <2>5. QED
      BY <2>1, <2>2, <2>3, <2>4 DEF IInv
  <1>3. CASE Read(k)
    <2>1. TypeOK'
      BY <1>3
      DEF IInv, Read, elector, stream, TypeOK, LoopPlace, WatchPlace, Arrival
    <2>2. WatchedInv'
      BY <1>3 DEF IInv, Read, elector, stream, TypeOK, WatchedInv
    <2>3. ArrivalInv'
      BY <1>3 DEF IInv, Read, elector, stream, TypeOK, ArrivalInv
    <2>4. RousedInv'
      BY <1>3
      DEF IInv, Read, elector, stream, TypeOK, RousedInv, Drowsy, Able,
          Attended, WakeupPending
    <2>5. QED
      BY <2>1, <2>2, <2>3, <2>4 DEF IInv
  <1>4. CASE Finish(k)
    <2>1. TypeOK'
      BY <1>4
      DEF IInv, Finish, elector, waiting, TypeOK, LoopPlace, WatchPlace,
          Arrival
    <2>2. WatchedInv'
      BY <1>4 DEF IInv, Finish, elector, waiting, TypeOK, WatchedInv
    <2>3. ArrivalInv'
      BY <1>4 DEF IInv, Finish, elector, waiting, TypeOK, ArrivalInv
    <2>4. RousedInv'
      BY <1>4
      DEF IInv, Finish, elector, waiting, TypeOK, RousedInv, Drowsy, Able,
          Attended, WakeupPending
    <2>5. QED
      BY <2>1, <2>2, <2>3, <2>4 DEF IInv
  <1>5. CASE PassFails(k)
    <2>1. TypeOK'
      BY <1>5, LaneAssumption, BoundAssumption
      DEF IInv, PassFails, elector, stream, waiting, TypeOK, LoopPlace,
          WatchPlace, Arrival, Watched
    <2>2. WatchedInv'
      BY <1>5
      DEF IInv, PassFails, elector, stream, waiting, TypeOK, WatchedInv
    <2>3. ArrivalInv'
      BY <1>5
      DEF IInv, PassFails, elector, stream, waiting, TypeOK, ArrivalInv
    <2>4. RousedInv'
      BY <1>5
      DEF IInv, PassFails, elector, stream, waiting, TypeOK, RousedInv,
          Drowsy, Able, Attended, WakeupPending
    <2>5. QED
      BY <2>1, <2>2, <2>3, <2>4 DEF IInv
  <1>6. CASE Wake(k)
    <2>1. TypeOK'
      BY <1>6
      DEF IInv, Wake, elector, passes, stream, waiting, TypeOK, LoopPlace,
          WatchPlace, Arrival
    <2>2. WatchedInv'
      BY <1>6
      DEF IInv, Wake, elector, passes, stream, waiting, TypeOK, WatchedInv
    <2>3. ArrivalInv'
      BY <1>6
      DEF IInv, Wake, elector, passes, stream, waiting, TypeOK, ArrivalInv
    <2>4. RousedInv'
      BY <1>6
      DEF IInv, Wake, elector, passes, stream, waiting, TypeOK, RousedInv,
          Drowsy, Able, Attended, WakeupPending
    <2>5. QED
      BY <2>1, <2>2, <2>3, <2>4 DEF IInv
  <1>7. CASE Exit(k)
    <2>1. TypeOK'
      BY <1>7
      DEF IInv, Exit, elector, passes, stream, waiting, TypeOK, LoopPlace,
          WatchPlace, Arrival
    <2>2. WatchedInv'
      BY <1>7
      DEF IInv, Exit, elector, passes, stream, waiting, TypeOK, WatchedInv
    <2>3. ArrivalInv'
      BY <1>7
      DEF IInv, Exit, elector, passes, stream, waiting, TypeOK, ArrivalInv
    <2>4. RousedInv'
      BY <1>7
      DEF IInv, Exit, elector, passes, stream, waiting, TypeOK, RousedInv,
          Drowsy, Able, Attended, WakeupPending
    <2>5. QED
      BY <2>1, <2>2, <2>3, <2>4 DEF IInv
  <1>8. CASE Drain(k)
    <2>1. TypeOK'
      BY <1>8
      DEF IInv, Drain, elector, passes, stream, waiting, TypeOK, LoopPlace,
          WatchPlace, Arrival
    <2>2. WatchedInv'
      BY <1>8
      DEF IInv, Drain, elector, passes, stream, waiting, TypeOK, WatchedInv
    <2>3. ArrivalInv'
      BY <1>8
      DEF IInv, Drain, elector, passes, stream, waiting, TypeOK, ArrivalInv
    <2>4. RousedInv'
      BY <1>8
      DEF IInv, Drain, elector, passes, stream, waiting, TypeOK, RousedInv,
          Drowsy, Able, Attended, WakeupPending
    <2>5. QED
      BY <2>1, <2>2, <2>3, <2>4 DEF IInv
  <1>9. QED
    BY <1>1, <1>2, <1>3, <1>4, <1>5, <1>6, <1>7, <1>8

\* The steps of a lane's watcher keep IInv.
LEMMA StreamKeepsIInv ==
  ASSUME IInv, NEW k \in Lane,
         Open(k) \/ Deliver(k) \/ (\E err \in BOOLEAN : Drop(k, err)) \/
         Reconnect(k) \/ StopWatch(k)
  PROVE  IInv'
  <1>1. CASE Open(k)
    <2>1. TypeOK'
      BY <1>1
      DEF IInv, Open, elector, passes, waiting, TypeOK, LoopPlace, WatchPlace,
          Arrival
    <2>2. WatchedInv'
      BY <1>1 DEF IInv, Open, elector, passes, waiting, TypeOK, WatchedInv
    <2>3. ArrivalInv'
      BY <1>1 DEF IInv, Open, elector, passes, waiting, TypeOK, ArrivalInv
    <2>4. RousedInv'
      BY <1>1
      DEF IInv, Open, elector, passes, waiting, TypeOK, RousedInv, Drowsy,
          Able, Attended, WakeupPending
    <2>5. QED
      BY <2>1, <2>2, <2>3, <2>4 DEF IInv
  <1>2. CASE Deliver(k)
    <2>1. TypeOK'
      BY <1>2 DEF IInv, Deliver, Fire, elector, passes, waiting, TypeOK
    <2>2. WatchedInv'
      BY <1>2
      DEF IInv, Deliver, Fire, elector, passes, waiting, TypeOK, WatchedInv
    <2>3. ArrivalInv'
      BY <1>2
      DEF IInv, Deliver, Fire, elector, passes, waiting, TypeOK, ArrivalInv
    <2>4. RousedInv'
      BY <1>2
      DEF IInv, Deliver, Fire, elector, passes, waiting, TypeOK, RousedInv,
          Drowsy, Able, Attended, WakeupPending
    <2>5. QED
      BY <2>1, <2>2, <2>3, <2>4 DEF IInv
  <1>3. CASE \E err \in BOOLEAN : Drop(k, err)
    <2>1. TypeOK'
      BY <1>3
      DEF IInv, Drop, CatchUp, Fire, elector, passes, waiting, TypeOK,
          LoopPlace, WatchPlace, Arrival
    <2>2. WatchedInv'
      BY <1>3
      DEF IInv, Drop, CatchUp, Fire, elector, passes, waiting, TypeOK,
          WatchedInv
    <2>3. ArrivalInv'
      BY <1>3
      DEF IInv, Drop, CatchUp, Fire, elector, passes, waiting, TypeOK,
          ArrivalInv
    <2>4. RousedInv'
      BY <1>3
      DEF IInv, Drop, CatchUp, Fire, elector, passes, waiting, TypeOK,
          RousedInv, Drowsy, Able, Attended, WakeupPending
    <2>5. QED
      BY <2>1, <2>2, <2>3, <2>4 DEF IInv
  <1>4. CASE Reconnect(k)
    <2>1. TypeOK'
      BY <1>4
      DEF IInv, Reconnect, CallWatch, elector, passes, TypeOK, LoopPlace,
          WatchPlace, Arrival
    <2>2. WatchedInv'
      BY <1>4
      DEF IInv, Reconnect, CallWatch, elector, passes, TypeOK, WatchedInv
    <2>3. ArrivalInv'
      BY <1>4
      DEF IInv, Reconnect, CallWatch, elector, passes, TypeOK, ArrivalInv
    <2>4. RousedInv'
      BY <1>4
      DEF IInv, Reconnect, CallWatch, elector, passes, TypeOK, RousedInv,
          Drowsy, Able, Attended, WakeupPending
    <2>5. QED
      BY <2>1, <2>2, <2>3, <2>4 DEF IInv
  <1>5. CASE StopWatch(k)
    <2>1. TypeOK'
      BY <1>5
      DEF IInv, StopWatch, elector, passes, waiting, TypeOK, LoopPlace,
          WatchPlace, Arrival
    <2>2. WatchedInv'
      BY <1>5
      DEF IInv, StopWatch, elector, passes, waiting, TypeOK, WatchedInv
    <2>3. ArrivalInv'
      BY <1>5
      DEF IInv, StopWatch, elector, passes, waiting, TypeOK, ArrivalInv
    <2>4. RousedInv'
      BY <1>5
      DEF IInv, StopWatch, elector, passes, waiting, TypeOK, RousedInv,
          Drowsy, Able, Attended, WakeupPending
    <2>5. QED
      BY <2>1, <2>2, <2>3, <2>4 DEF IInv
  <1>6. QED
    BY <1>1, <1>2, <1>3, <1>4, <1>5

\* The waiters for a credential, and the world, keep IInv.
LEMMA WaiterKeepsIInv ==
  ASSUME IInv, NEW k \in Lane,
         Look(k) \/ Poll(k) \/ GiveUp(k) \/ Change(k) \/ Seed(k)
  PROVE  IInv'
  <1>1. CASE Look(k)
    <2>1. TypeOK'
      BY <1>1
      DEF IInv, Look, Miss, elector, passes, stream, TypeOK, LoopPlace,
          WatchPlace, Arrival
    <2>2. WatchedInv'
      BY <1>1
      DEF IInv, Look, Miss, elector, passes, stream, TypeOK, WatchedInv
    <2>3. ArrivalInv'
      BY <1>1
      DEF IInv, Look, Miss, elector, passes, stream, TypeOK, ArrivalInv
    <2>4. RousedInv'
      BY <1>1
      DEF IInv, Look, Miss, elector, passes, stream, TypeOK, RousedInv,
          Drowsy, Able, Attended, WakeupPending
    <2>5. QED
      BY <2>1, <2>2, <2>3, <2>4 DEF IInv
  <1>2. CASE Poll(k)
    <2>1. TypeOK'
      BY <1>2 DEF IInv, Poll, Fire, elector, passes, stream, TypeOK
    <2>2. WatchedInv'
      BY <1>2
      DEF IInv, Poll, Fire, elector, passes, stream, TypeOK, WatchedInv
    <2>3. ArrivalInv'
      BY <1>2
      DEF IInv, Poll, Fire, elector, passes, stream, TypeOK, ArrivalInv
    <2>4. RousedInv'
      BY <1>2
      DEF IInv, Poll, Fire, elector, passes, stream, TypeOK, RousedInv,
          Drowsy, Able, Attended, WakeupPending
    <2>5. QED
      BY <2>1, <2>2, <2>3, <2>4 DEF IInv
  <1>3. CASE GiveUp(k)
    <2>1. TypeOK'
      BY <1>3
      DEF IInv, GiveUp, Miss, elector, passes, stream, TypeOK, LoopPlace,
          WatchPlace, Arrival
    <2>2. WatchedInv'
      BY <1>3
      DEF IInv, GiveUp, Miss, elector, passes, stream, TypeOK, WatchedInv
    <2>3. ArrivalInv'
      BY <1>3
      DEF IInv, GiveUp, Miss, elector, passes, stream, TypeOK, ArrivalInv
    <2>4. RousedInv'
      BY <1>3
      DEF IInv, GiveUp, Miss, elector, passes, stream, TypeOK, RousedInv,
          Drowsy, Able, Attended, WakeupPending
    <2>5. QED
      BY <2>1, <2>2, <2>3, <2>4 DEF IInv
  <1>4. CASE Change(k)
    <2>1. TypeOK'
      BY <1>4 DEF IInv, Change, elector, waiting, TypeOK
    <2>2. WatchedInv'
      BY <1>4 DEF IInv, Change, elector, waiting, TypeOK, WatchedInv
    <2>3. ArrivalInv'
      BY <1>4 DEF IInv, Change, elector, waiting, TypeOK, ArrivalInv
    <2>4. RousedInv'
      BY <1>4, LaneAssumption
      DEF IInv, Change, elector, waiting, TypeOK, WatchedInv, ArrivalInv,
          RousedInv, Drowsy, Able, Attended, WakeupPending, WatchPlace,
          Arrival, Watched
    <2>5. QED
      BY <2>1, <2>2, <2>3, <2>4 DEF IInv
  <1>5. CASE Seed(k)
    <2>1. TypeOK'
      BY <1>5 DEF IInv, Seed, elector, passes, stream, TypeOK
    <2>2. WatchedInv'
      BY <1>5 DEF IInv, Seed, elector, passes, stream, TypeOK, WatchedInv
    <2>3. ArrivalInv'
      BY <1>5 DEF IInv, Seed, elector, passes, stream, TypeOK, ArrivalInv
    <2>4. RousedInv'
      BY <1>5
      DEF IInv, Seed, elector, passes, stream, TypeOK, WatchedInv, ArrivalInv,
          RousedInv, Drowsy, Able, Attended, WakeupPending
    <2>5. QED
      BY <2>1, <2>2, <2>3, <2>4 DEF IInv
  <1>6. QED
    BY <1>1, <1>2, <1>3, <1>4, <1>5

\* Every step keeps IInv.
LEMMA NextKeepsIInv == IInv /\ [Next]_vars => IInv'
  <1> SUFFICES ASSUME IInv, [Next]_vars PROVE IInv'
    OBVIOUS
  <1>1. CASE Acquire \/ Kick \/ LoseLead \/ Cancel
    BY <1>1, LeadershipKeepsIInv
  <1>2. ASSUME NEW k \in Lane, LaneStep(k) PROVE IInv'
    <2>1. CASE LoopStep(k) \/ PassFails(k)
      BY <2>1, PassKeepsIInv DEF LoopStep
    <2>2. CASE WatchStep(k)
      BY <2>2, StreamKeepsIInv DEF WatchStep
    <2>3. CASE WaitStep(k) \/ Change(k) \/ Seed(k)
      BY <2>3, WaiterKeepsIInv DEF WaitStep
    <2>4. QED
      BY <1>2, <2>1, <2>2, <2>3 DEF LaneStep
  <1>3. CASE Stopped \/ UNCHANGED vars
    BY <1>3
    DEF Stopped, vars, elector, passes, stream, waiting, IInv, TypeOK, WatchedInv,
        ArrivalInv, RousedInv, Drowsy, Able, Attended, WakeupPending
  <1>4. QED
    BY <1>1, <1>2, <1>3 DEF Next

\* IInv holds throughout.
THEOREM Invariance == Spec => []IInv
  BY InitIInv, NextKeepsIInv, PTL DEF Spec

\* Every variable keeps its type; frames, kicks and announcements exist only
\* where a stream, a subscription or a leadership does.
THEOREM TypeCorrect == Spec => []TypeOK
  <1>1. IInv => TypeOK
    BY DEF IInv
  <1>2. QED
    BY <1>1, Invariance, PTL

\* No lane sleeps on work it could do without a wakeup on its way.
THEOREM WakeupsSafe == Spec => []NoLostWakeup
  <1>1. IInv => NoLostWakeup
    BY DEF IInv, RousedInv, Drowsy, NoLostWakeup, Overslept
  <1>2. QED
    BY <1>1, Invariance, PTL
=============================================================================
