-------------------------- MODULE ReconcilerManager --------------------------
(***************************************************************************)
(* The lanes of one `llz reconcile` process                                *)
(* (tools/internal/extensions/lifecycle/reconciler/reconcile_manager.go,   *)
(* reconcile.go, reconcile_linode_token_wait.go,                           *)
(* reconcile_apl_overlay_wait.go).                                         *)
(*                                                                         *)
(* Every lane is level based: a pass re-reads the cluster and acts on the  *)
(* difference.  What starts a pass is edge based: a watch frame, a stream  *)
(* that closed, an acquired leadership, a credential that arrived.  All of *)
(* these go through channels of size one whose sends never block, and the  *)
(* module is about the edges: none may be lost between the goroutines.     *)
(*                                                                         *)
(* `stale` stands for the level: something in the cluster the lane has not *)
(* read in a driving pass.                                                 *)
(***************************************************************************)
EXTENDS Naturals

CONSTANTS
  Lane,          \* reconcilers handed to runManager
  Gated,         \* lanes wrapped in the leader gate
  Streamed,      \* lanes with a Kubernetes watch
  Credentialed,  \* lanes whose pass does nothing until a credential exists
  Waits,         \* lanes whose watch also waits for that credential
  Ticking,       \* lanes with interval > 0
  MaxWaiters,    \* bound: waiters of one lane at a time
  MaxErrors      \* bound: failed passes in one behaviour

Watched == Streamed \cup Waits

ASSUME LaneAssumption ==
  /\ Gated \subseteq Lane
  /\ Streamed \subseteq Lane
  /\ Credentialed \subseteq Lane
  /\ Waits \subseteq Credentialed
  /\ Ticking \subseteq Lane

ASSUME BoundAssumption == MaxWaiters \in Nat /\ MaxErrors \in Nat

VARIABLES
  isLeader,   \* what the gate reads
  acquiring,  \* setLeader(true) done, onAcquire (Kick) not yet
  cancelled,  \* ctx.Err() # nil
  loop,       \* where each lane's loop goroutine is
  kick,       \* a kick is pending in the lane's subscription
  trigger,    \* a wakeup is pending in the lane's trigger channel
  stale,      \* the lane has not read the present state of the cluster
  failed,     \* the lane's latest pass failed (llz_reconcile_up = 0)
  watcher,    \* where the lane's watcher goroutine is
  frames,     \* frames on the open stream not handed to onEvent yet
  credential, \* the credential the lane needs exists
  looking,    \* waiters that have not looked for the credential yet
  polling,    \* waiters that saw it absent and poll
  arrival,    \* what has come of the credential's arrival, for the lane
  errors      \* failed passes so far

elector == <<isLeader, acquiring>>
passes == <<stale, failed, errors>>
stream == <<watcher, frames>>
waiting == <<credential, looking, polling, arrival>>
vars == <<elector, cancelled, loop, kick, trigger, passes, stream, waiting>>

-----------------------------------------------------------------------------
(* Shape of the state *)

\* "gate" is the start of reconcileOnce, "read" a pass behind the gate, "act" a
\* pass that found work; "drain" is wg.Wait() for the watcher.
LoopPlace == {"unborn", "gate", "read", "act", "wait", "drain", "exited"}

\* "dial" is r.watch before the API server accepted the stream.
WatchPlace == {"none", "dial", "open", "backoff", "done"}

\* "open" until a pass has read the credential ("known") or a waiter has left
\* without a kick ("missed").
Arrival == {"open", "missed", "known"}

TypeOK ==
  /\ isLeader \in BOOLEAN /\ acquiring \in BOOLEAN /\ cancelled \in BOOLEAN
  /\ loop \in [Lane -> LoopPlace]
  /\ kick \in [Lane -> BOOLEAN]
  /\ trigger \in [Lane -> BOOLEAN]
  /\ stale \in [Lane -> BOOLEAN]
  /\ failed \in [Lane -> BOOLEAN]
  /\ watcher \in [Lane -> WatchPlace]
  /\ frames \in [Lane -> BOOLEAN]
  /\ credential \in [Lane -> BOOLEAN]
  /\ looking \in [Lane -> Nat]
  /\ polling \in [Lane -> Nat]
  /\ arrival \in [Lane -> Arrival]
  /\ errors \in 0..MaxErrors
  \* only leadership is announced; only an open stream has frames; only a lane
  \* that subscribed is kicked
  /\ acquiring => isLeader
  /\ \A l \in Lane :
       /\ frames[l] => watcher[l] = "open"
       /\ loop[l] = "unborn" =>
            /\ ~kick[l] /\ ~trigger[l] /\ watcher[l] = "none"
            /\ looking[l] = 0 /\ polling[l] = 0

Init ==
  /\ isLeader = FALSE /\ acquiring = FALSE /\ cancelled = FALSE
  /\ loop = [l \in Lane |-> "unborn"]
  /\ kick = [l \in Lane |-> FALSE]
  /\ trigger = [l \in Lane |-> FALSE]
  /\ stale = [l \in Lane |-> TRUE]
  /\ failed = [l \in Lane |-> FALSE]
  /\ watcher = [l \in Lane |-> "none"]
  /\ frames = [l \in Lane |-> FALSE]
  /\ credential \in {c \in [Lane -> BOOLEAN] : \A l \in Lane \ Credentialed : c[l]}
  /\ looking = [l \in Lane |-> 0]
  /\ polling = [l \in Lane |-> 0]
  /\ arrival = [l \in Lane |-> IF l \in Credentialed THEN "open" ELSE "known"]
  /\ errors = 0

-----------------------------------------------------------------------------
(* Leadership and the kicker *)

\* setLeader(true).  While a peer drove, this process saw none of its work:
\* every gated lane has to read the cluster again.
Acquire ==
  /\ ~cancelled /\ ~isLeader
  /\ isLeader' = TRUE
  /\ acquiring' = TRUE
  /\ stale' = [l \in Lane |-> stale[l] \/ l \in Gated]
  /\ UNCHANGED <<cancelled, loop, kick, trigger, failed, errors, stream, waiting>>

Subscribed(l) == loop[l] # "unborn"

\* A plausible bug: an unbuffered subscription, so a loop in a pass misses it.
KickIdleLoops ==
  /\ acquiring
  /\ acquiring' = FALSE
  /\ kick' = [l \in Lane |-> kick[l] \/ loop[l] = "wait"]
  /\ UNCHANGED <<isLeader, cancelled, loop, trigger, passes, stream, waiting>>

\* A plausible bug: a kick reaches lanes that have not subscribed.
KickEveryLane ==
  /\ acquiring
  /\ acquiring' = FALSE
  /\ kick' = [l \in Lane |-> TRUE]
  /\ UNCHANGED <<isLeader, cancelled, loop, trigger, passes, stream, waiting>>

\* onAcquire: one non-blocking send to each subscription.
Kick ==
  /\ acquiring
  /\ acquiring' = FALSE
  /\ kick' = [l \in Lane |-> kick[l] \/ Subscribed(l)]
  /\ UNCHANGED <<isLeader, cancelled, loop, trigger, passes, stream, waiting>>

\* setLeader(false).
LoseLead ==
  /\ isLeader /\ ~acquiring
  /\ isLeader' = FALSE
  /\ UNCHANGED <<acquiring, cancelled, loop, kick, trigger, passes, stream, waiting>>

-----------------------------------------------------------------------------
(* A lane's loop *)

\* r.watch is called; a lane that waits for a credential starts a waiter.
CallWatch(l) ==
  /\ watcher' = [watcher EXCEPT ![l] = "dial"]
  /\ looking' = [looking EXCEPT ![l] = IF l \in Waits THEN @ + 1 ELSE @]

\* runManager subscribes the lane and starts its goroutines; the loop begins
\* with the initial pass.
Spawn(l) ==
  /\ loop[l] = "unborn"
  /\ loop' = [loop EXCEPT ![l] = "gate"]
  /\ IF l \in Watched THEN CallWatch(l) ELSE UNCHANGED <<watcher, looking>>
  /\ UNCHANGED <<elector, cancelled, kick, trigger, passes, frames,
                 credential, polling, arrival>>

\* The gate: a no-op pass on a non-leader, which counts as a success.
Gate(l) ==
  /\ loop[l] = "gate"
  /\ LET drives == l \in Gated => isLeader IN
       /\ loop' = [loop EXCEPT ![l] = IF drives THEN "read" ELSE "wait"]
       /\ failed' = [failed EXCEPT ![l] = drives /\ @]
  /\ UNCHANGED <<elector, cancelled, kick, trigger, stale, errors, stream, waiting>>

\* The pass reads the credential and the cluster; with nothing to do, or
\* without the credential, it ends there.
Read(l) ==
  /\ loop[l] = "read" /\ ~cancelled
  /\ LET works == stale[l] /\ credential[l] IN
       /\ loop' = [loop EXCEPT ![l] = IF works THEN "act" ELSE "wait"]
       /\ stale' = [stale EXCEPT ![l] = @ /\ ~works]
       /\ failed' = [failed EXCEPT ![l] = works /\ @]
  /\ arrival' = [arrival EXCEPT ![l] = IF credential[l] THEN "known" ELSE @]
  /\ UNCHANGED <<elector, cancelled, kick, trigger, errors, stream, credential,
                 looking, polling>>

\* The pass has done its work, which its own stream reports back to it.
Finish(l) ==
  /\ loop[l] = "act"
  /\ loop' = [loop EXCEPT ![l] = "wait"]
  /\ failed' = [failed EXCEPT ![l] = FALSE]
  /\ frames' = [frames EXCEPT ![l] = @ \/ (l \in Streamed /\ watcher[l] = "open")]
  /\ UNCHANGED <<elector, cancelled, kick, trigger, stale, errors, watcher,
                 waiting>>

\* The pass returns an error; what it read remains to be done.
PassFails(l) ==
  /\ loop[l] \in {"read", "act"}
  /\ \/ cancelled /\ UNCHANGED errors
     \/ ~cancelled /\ errors < MaxErrors /\ errors' = errors + 1
  /\ loop' = [loop EXCEPT ![l] = "wait"]
  /\ failed' = [failed EXCEPT ![l] = TRUE]
  /\ stale' = [stale EXCEPT ![l] = @ \/ loop[l] = "act"]
  /\ UNCHANGED <<elector, cancelled, kick, trigger, stream, waiting>>

\* A plausible bug: the loop's select has no case for the resync ticker.
WakeOnEvents(l) ==
  /\ loop[l] = "wait"
  /\ loop' = [loop EXCEPT ![l] = "gate"]
  /\ \/ trigger[l] /\ trigger' = [trigger EXCEPT ![l] = FALSE] /\ UNCHANGED kick
     \/ kick[l] /\ kick' = [kick EXCEPT ![l] = FALSE] /\ UNCHANGED trigger
  /\ UNCHANGED <<elector, cancelled, passes, stream, waiting>>

\* One ready case of the loop's select: the trigger, the ticker or the kick.
\* The case of ctx.Done() is Exit; a select may pass it over.
Wake(l) ==
  /\ loop[l] = "wait"
  /\ loop' = [loop EXCEPT ![l] = "gate"]
  /\ \/ trigger[l] /\ trigger' = [trigger EXCEPT ![l] = FALSE] /\ UNCHANGED kick
     \/ kick[l] /\ kick' = [kick EXCEPT ![l] = FALSE] /\ UNCHANGED trigger
     \/ l \in Ticking /\ UNCHANGED <<kick, trigger>>
  /\ UNCHANGED <<elector, cancelled, passes, stream, waiting>>

Exit(l) ==
  /\ loop[l] = "wait" /\ cancelled
  /\ loop' = [loop EXCEPT ![l] = IF l \in Watched THEN "drain" ELSE "exited"]
  /\ UNCHANGED <<elector, cancelled, kick, trigger, passes, stream, waiting>>

Drain(l) ==
  /\ loop[l] = "drain" /\ watcher[l] = "done"
  /\ loop' = [loop EXCEPT ![l] = "exited"]
  /\ UNCHANGED <<elector, cancelled, kick, trigger, passes, stream, waiting>>

-----------------------------------------------------------------------------
(* A lane's watcher goroutine *)

\* fire(): a non-blocking send to a channel of size one.
Fire(l) == trigger' = [trigger EXCEPT ![l] = TRUE]

\* A plausible bug: the catch-up pass is left to streams that closed cleanly.
CatchUpAfterClose(l, err) ==
  trigger' = [trigger EXCEPT ![l] = @ \/ ~err]

\* The catch-up pass after r.watch returned, with an error or without.
CatchUp(l, err) == Fire(l)

\* The stream is established and, without a resourceVersion, begins by
\* replaying the collection as ADDED frames.
Open(l) ==
  /\ l \in Streamed /\ watcher[l] = "dial"
  /\ watcher' = [watcher EXCEPT ![l] = "open"]
  /\ frames' = [frames EXCEPT ![l] = TRUE]
  /\ UNCHANGED <<elector, cancelled, loop, kick, trigger, passes, waiting>>

Deliver(l) ==
  /\ frames[l]
  /\ frames' = [frames EXCEPT ![l] = FALSE]
  /\ Fire(l)
  /\ UNCHANGED <<elector, cancelled, loop, kick, passes, watcher, waiting>>

\* r.watch returns: refused, or an open stream that failed or closed cleanly.
Drop(l, err) ==
  /\ l \in Streamed /\ ~cancelled
  /\ watcher[l] = "open" \/ (watcher[l] = "dial" /\ err)
  /\ watcher' = [watcher EXCEPT ![l] = "backoff"]
  /\ frames' = [frames EXCEPT ![l] = FALSE]
  /\ CatchUp(l, err)
  /\ UNCHANGED <<elector, cancelled, loop, kick, passes, waiting>>

Reconnect(l) ==
  /\ watcher[l] = "backoff" /\ ~cancelled
  /\ looking[l] + polling[l] < MaxWaiters
  /\ CallWatch(l)
  /\ UNCHANGED <<elector, cancelled, loop, kick, trigger, passes, frames,
                 credential, polling, arrival>>

\* A plausible bug: the pause between two streams ignores the context.
StopStream(l) ==
  /\ cancelled
  /\ watcher[l] \in {"dial", "open"}
  /\ watcher' = [watcher EXCEPT ![l] = "done"]
  /\ frames' = [frames EXCEPT ![l] = FALSE]
  /\ UNCHANGED <<elector, cancelled, loop, kick, trigger, passes, waiting>>

StopWatch(l) ==
  /\ cancelled
  /\ watcher[l] \in {"dial", "open", "backoff"}
  /\ watcher' = [watcher EXCEPT ![l] = "done"]
  /\ frames' = [frames EXCEPT ![l] = FALSE]
  /\ UNCHANGED <<elector, cancelled, loop, kick, trigger, passes, waiting>>

-----------------------------------------------------------------------------
(* Waiting for a credential *)

\* A waiter of l leaves without a kick.
Miss(l) == arrival' = [arrival EXCEPT ![l] = IF @ = "open" THEN "missed" ELSE @]

\* The first look: with the credential already there the waiter leaves at once
\* and does not kick.
Look(l) ==
  /\ looking[l] > 0
  /\ looking' = [looking EXCEPT ![l] = @ - 1]
  /\ IF credential[l]
       THEN Miss(l) /\ UNCHANGED polling
       ELSE polling' = [polling EXCEPT ![l] = @ + 1] /\ UNCHANGED arrival
  /\ UNCHANGED <<elector, cancelled, loop, kick, trigger, passes, stream, credential>>

\* A later look finds the credential: the waiter kicks the lane and leaves.
Poll(l) ==
  /\ polling[l] > 0 /\ credential[l]
  /\ polling' = [polling EXCEPT ![l] = @ - 1]
  /\ Fire(l)
  /\ UNCHANGED <<elector, cancelled, loop, kick, passes, stream, credential,
                 looking, arrival>>

\* aplOverlayPreconditionWindow is over; the waiter for the Linode token, which
\* runs beside a stream, has no window.
GiveUp(l) ==
  /\ l \in Waits \ Streamed /\ polling[l] > 0
  /\ polling' = [polling EXCEPT ![l] = @ - 1]
  /\ Miss(l)
  /\ UNCHANGED <<elector, cancelled, loop, kick, trigger, passes, stream,
                 credential, looking>>

-----------------------------------------------------------------------------
(* The world *)

\* An object a lane watches changes; an open stream carries the change.
Change(l) ==
  /\ l \in Streamed
  /\ stale' = [stale EXCEPT ![l] = TRUE]
  /\ frames' = [frames EXCEPT ![l] = @ \/ watcher[l] = "open"]
  /\ UNCHANGED <<elector, cancelled, loop, kick, trigger, failed, errors,
                 watcher, waiting>>

\* The credential is minted and synced into the cluster.
Seed(l) ==
  /\ ~credential[l]
  /\ credential' = [credential EXCEPT ![l] = TRUE]
  /\ UNCHANGED <<elector, cancelled, loop, kick, trigger, passes, stream,
                 looking, polling, arrival>>

\* SIGTERM.
Cancel ==
  /\ ~cancelled
  /\ cancelled' = TRUE
  /\ UNCHANGED <<elector, loop, kick, trigger, passes, stream, waiting>>

-----------------------------------------------------------------------------

LoopStep(l) ==
  Spawn(l) \/ Gate(l) \/ Read(l) \/ Finish(l) \/ Wake(l) \/ Exit(l) \/ Drain(l)

WatchStep(l) ==
  Open(l) \/ Deliver(l) \/ Reconnect(l) \/ StopWatch(l)
    \/ \E err \in BOOLEAN : Drop(l, err)

WaitStep(l) == Look(l) \/ Poll(l) \/ GiveUp(l)

LaneStep(l) ==
  LoopStep(l) \/ PassFails(l) \/ WatchStep(l) \/ WaitStep(l) \/ Change(l) \/ Seed(l)

\* runManager has returned and the process ends.
Stopped ==
  /\ \A l \in Lane : loop[l] = "exited"
  /\ UNCHANGED vars

Next ==
  \/ Acquire \/ Kick \/ LoseLead
  \/ \E l \in Lane : LaneStep(l)
  \/ Cancel
  \/ Stopped

Spec == Init /\ [][Next]_vars

\* The API server accepts a stream or refuses it.
Dialled(l) ==
  \/ Open(l)
  \/ watcher[l] = "dial" /\ \E err \in BOOLEAN : Drop(l, err)

\* Goroutines run and timers fire; a call made with a cancelled context
\* returns; a select picks at random among its ready cases, so it does not
\* pass over ctx.Done() for ever.  Nothing obliges a stream to open, leadership
\* to come or a credential to be minted.
Fairness ==
  /\ WF_vars(Kick)
  /\ \A l \in Lane :
       /\ WF_vars(LoopStep(l) \/ (cancelled /\ PassFails(l)))
       /\ SF_vars(Exit(l))
       /\ WF_vars(StopWatch(l))
       /\ WF_vars(Dialled(l))
       /\ WF_vars(Deliver(l))
       /\ WF_vars(Reconnect(l))
       /\ WF_vars(Look(l))
       /\ WF_vars(Poll(l))

FairSpec == Spec /\ Fairness

-----------------------------------------------------------------------------
(* Properties *)

\* A pass of l started now would drive.
Able(l) == (l \in Gated => isLeader) /\ credential[l]

\* l's loop sleeps although a pass would have work to do, and the latest pass
\* did not fail on it (a failed pass is retried by the resync floor).
Overslept(l) ==
  /\ loop[l] = "wait" /\ ~cancelled
  /\ Able(l) /\ stale[l] /\ ~failed[l]

\* Something that is bound to happen will start a pass of l.
WakeupPending(l) ==
  \/ kick[l] \/ trigger[l] \/ acquiring
  \/ l \in Streamed /\ (frames[l] \/ watcher[l] \in {"dial", "backoff"})
  \/ polling[l] > 0 /\ arrival[l] = "open"

\* A pass of l has read its credential, or l's waiters have seen it absent and
\* wait, or have kicked.  (Left to the ticker: a lane for whose credential
\* nobody waits, and one whose waiter came too late or gave up.)
Attended(l) ==
  \/ arrival[l] = "known"
  \/ arrival[l] = "open" /\ l \in Waits /\ looking[l] = 0

\* No edge is lost: a lane that sleeps on work it could do has a wakeup on its
\* way, whatever the interleaving of elector, kicker, streams, credential
\* waiters and passes.
NoLostWakeup ==
  \A l \in Lane : Overslept(l) /\ Attended(l) => WakeupPending(l)

\* The resync floor covers every edge that is lost (a waiter that left, a
\* failed pass): a ticking lane that stays able to drive becomes current again.
ResyncCovers ==
  \A l \in Ticking : []<>(cancelled \/ ~Able(l) \/ ~stale[l])

\* Without any ticker, and whatever becomes of the streams (a refused one too
\* is followed by a relist), a watched lane that stays able to drive becomes
\* current, unless a pass failed or the credential's arrival was missed.
EdgesSuffice ==
  \A l \in Watched :
    []<>(cancelled \/ ~Able(l) \/ ~stale[l] \/ failed[l] \/ arrival[l] = "missed")

\* SIGTERM ends every loop and every watcher, from any point of a pass, a
\* stream or a backoff, so runManager returns.
ShutdownCompletes ==
  cancelled ~> \A l \in Lane : loop[l] = "exited" /\ watcher[l] \in {"none", "done"}
=============================================================================
