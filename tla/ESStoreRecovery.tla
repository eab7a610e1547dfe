--------------------------- MODULE ESStoreRecovery ---------------------------
(***************************************************************************)
(* The es-store-recovery lane of `llz reconcile`                           *)
(* (tools/internal/extensions/lifecycle/reconcilelanes/                    *)
(* es_store_recovery.go).                                                  *)
(*                                                                         *)
(* External Secrets does not notice that its store is back: an object that *)
(* failed against it idles in its own backoff.  The lane sees the store's  *)
(* Ready condition turn true and stamps every object with force-sync.      *)
(* What it remembers of the store is in the memory of one process, while   *)
(* passes run on whichever replica leads, may be coalesced, and fail       *)
(* half-way.                                                               *)
(***************************************************************************)
EXTENDS Naturals

CONSTANTS
  Replica,         \* processes that run the lane
  Nobody,          \* no replica leads
  ExternalSecret,  \* objects that read the store
  PushSecret,      \* objects that write to it
  Budget,          \* esFanoutRetryBudget
  MaxUpsets        \* bound: outages, restarts and changes of leader

ASSUME IdentityAssumption == Nobody \notin Replica
ASSUME ObjectAssumption == ExternalSecret \cap PushSecret = {}
ASSUME BudgetAssumption == Budget \in Nat \ {0} /\ MaxUpsets \in Nat

VARIABLES
  up,         \* the ClusterSecretStore exists and is Ready
  ill,        \* objects whose latest reconcile failed: not Ready, in backoff
  due,        \* objects with a force-sync stamp that External Secrets has not handled
  lead,       \* replica whose gate is open
  lastReady,  \* what each process remembers of the store; "unknown" is Go's ""
  fanoutErr,  \* fan-outs failed in a row
  pass,       \* each process's pass
  witness,    \* history: what each process knows of the latest outage at first hand
  upsets

world == <<up, ill, due>>
memory == <<lastReady, fanoutErr>>
vars == <<world, lead, memory, pass, witness, upsets>>

Object == ExternalSecret \cup PushSecret

\* todo are the objects the fan-out has still to patch, failed is firstErr.
Pass == [at : {"idle", "probe", "fanout"}, todo : SUBSET Object, failed : BOOLEAN]

Idle == [at |-> "idle", todo |-> {}, failed |-> FALSE]
Probing == [at |-> "probe", todo |-> {}, failed |-> FALSE]
FanOut(todo, failed) == [at |-> "fanout", todo |-> todo, failed |-> failed]

\* "seen": a pass of this process found the store not Ready in the latest
\* outage.  "fresh": it was started since.  "none": neither, or its retry
\* budget for that outage is spent.
Witness == {"seen", "fresh", "none"}

TypeOK ==
  /\ up \in BOOLEAN
  /\ ill \subseteq Object
  /\ due \subseteq Object
  /\ lead \in Replica \cup {Nobody}
  /\ lastReady \in [Replica -> {"unknown", "true", "false"}]
  /\ fanoutErr \in [Replica -> 0..Budget - 1]
  /\ pass \in [Replica -> Pass]
  /\ witness \in [Replica -> Witness]
  /\ upsets \in 0..MaxUpsets

\* The bootstrap, where the store is not there yet, or a day on which all is well.
Init ==
  /\ up \in BOOLEAN
  /\ ill = (IF up THEN {} ELSE Object)
  /\ due = {}
  /\ lead \in Replica \cup {Nobody}
  /\ lastReady = [r \in Replica |-> "unknown"]
  /\ fanoutErr = [r \in Replica |-> 0]
  /\ pass = [r \in Replica |-> Idle]
  /\ witness = [r \in Replica |-> "fresh"]
  /\ upsets = 0

Become(r, p) == pass' = [pass EXCEPT ![r] = p]

Remember(r, ready) == lastReady' = [lastReady EXCEPT ![r] = ready]

Know(r, w) == witness' = [witness EXCEPT ![r] = w]

-----------------------------------------------------------------------------
(* One pass: Reconcile *)

\* A plausible bug, and the one the code's comment tells of: the transition is
\* recorded before the work is done.
ObserveAndConsume(r) ==
  /\ lead = r /\ pass[r] = Idle
  /\ \/ ~up /\ Remember(r, "false") /\ Know(r, "seen") /\ UNCHANGED pass
     \/ /\ up /\ lastReady[r] = "false"
        /\ Remember(r, "true")
        /\ Become(r, FanOut(Object, FALSE)) /\ UNCHANGED witness
     \/ /\ up /\ lastReady[r] = "unknown"
        /\ Become(r, Probing) /\ UNCHANGED <<lastReady, witness>>
  /\ UNCHANGED <<world, lead, fanoutErr, upsets>>

\* The gate is open and the store answers.  404 counts as not Ready.  A Ready
\* store that was Ready before is nothing to act on, and a failing GET changes
\* nothing.
Observe(r) ==
  /\ lead = r /\ pass[r] = Idle
  /\ \/ ~up /\ Remember(r, "false") /\ Know(r, "seen") /\ UNCHANGED pass
     \/ /\ up /\ lastReady[r] = "false"
        /\ Become(r, FanOut(Object, FALSE)) /\ UNCHANGED <<lastReady, witness>>
     \/ /\ up /\ lastReady[r] = "unknown"
        /\ Become(r, Probing) /\ UNCHANGED <<lastReady, witness>>
  /\ UNCHANGED <<world, lead, fanoutErr, upsets>>

\* First look of a process: is any ExternalSecret not Ready?  If the listing
\* fails the process has still to take its first look.
Probe(r) ==
  /\ pass[r].at = "probe"
  /\ \/ /\ ill \cap ExternalSecret # {}
        /\ Become(r, FanOut(Object, FALSE)) /\ UNCHANGED lastReady
     \/ /\ ill \cap ExternalSecret = {}
        /\ Become(r, Idle) /\ Remember(r, "true")
     \/ Become(r, Idle) /\ UNCHANGED lastReady
  /\ UNCHANGED <<world, lead, fanoutErr, witness, upsets>>

\* ExternalSecrets first, then PushSecrets.
Front(todo) == IF todo \cap ExternalSecret # {} THEN todo \cap ExternalSecret ELSE todo

\* One object is stamped, or its patch fails and the fan-out goes on.
Patch(r) ==
  /\ pass[r].at = "fanout"
  /\ \E o \in Front(pass[r].todo) :
       \/ /\ due' = due \cup {o}
          /\ Become(r, FanOut(pass[r].todo \ {o}, pass[r].failed))
       \/ /\ Become(r, FanOut(pass[r].todo \ {o}, TRUE))
          /\ UNCHANGED due
  /\ UNCHANGED <<up, ill, lead, memory, witness, upsets>>

\* A collection cannot be listed: none of its objects is stamped.
ListFails(r) ==
  /\ pass[r].at = "fanout"
  /\ Front(pass[r].todo) \in {ExternalSecret, PushSecret} \ {{}}
  /\ Become(r, FanOut(pass[r].todo \ Front(pass[r].todo), TRUE))
  /\ UNCHANGED <<world, lead, memory, witness, upsets>>

\* A plausible bug: withholding the transition on any error, without a budget.
ConcludeUnbudgeted(r) ==
  /\ pass[r].at = "fanout" /\ pass[r].todo = {}
  /\ Become(r, Idle)
  /\ \/ /\ ~pass[r].failed
        /\ Remember(r, "true") /\ fanoutErr' = [fanoutErr EXCEPT ![r] = 0]
     \/ pass[r].failed /\ UNCHANGED memory
  /\ UNCHANGED <<world, lead, witness, upsets>>

\* A plausible bug: one failure too many is counted before giving up.
ConcludeOneMore(r) ==
  /\ pass[r].at = "fanout" /\ pass[r].todo = {}
  /\ Become(r, Idle)
  /\ \/ /\ pass[r].failed /\ fanoutErr[r] < Budget
        /\ fanoutErr' = [fanoutErr EXCEPT ![r] = @ + 1] /\ UNCHANGED <<lastReady, witness>>
     \/ /\ pass[r].failed => fanoutErr[r] = Budget
        /\ Remember(r, "true") /\ fanoutErr' = [fanoutErr EXCEPT ![r] = 0]
        /\ IF pass[r].failed THEN Know(r, "none") ELSE UNCHANGED witness
  /\ UNCHANGED <<world, lead, upsets>>

\* A failed fan-out leaves the transition open for the next pass, but only until
\* the budget is spent; only this resets the count.
Conclude(r) ==
  /\ pass[r].at = "fanout" /\ pass[r].todo = {}
  /\ Become(r, Idle)
  /\ \/ /\ pass[r].failed /\ fanoutErr[r] + 1 < Budget
        /\ fanoutErr' = [fanoutErr EXCEPT ![r] = @ + 1] /\ UNCHANGED <<lastReady, witness>>
     \/ /\ pass[r].failed => fanoutErr[r] + 1 >= Budget
        /\ Remember(r, "true") /\ fanoutErr' = [fanoutErr EXCEPT ![r] = 0]
        /\ IF pass[r].failed THEN Know(r, "none") ELSE UNCHANGED witness
  /\ UNCHANGED <<world, lead, upsets>>

-----------------------------------------------------------------------------
(* The world *)

\* External Secrets reconciles an object, for its stamp, its refreshInterval or
\* its backoff.
Sync(o) ==
  /\ due' = due \ {o}
  /\ ill' = IF up THEN ill \ {o} ELSE ill \cup {o}
  /\ UNCHANGED <<up, lead, memory, pass, witness, upsets>>

StoreRises ==
  /\ ~up
  /\ up' = TRUE
  /\ UNCHANGED <<ill, due, lead, memory, pass, witness, upsets>>

Upset == upsets < MaxUpsets /\ upsets' = upsets + 1

StoreFalls ==
  /\ up /\ Upset
  /\ up' = FALSE
  /\ witness' = [r \in Replica |-> "none"]
  /\ UNCHANGED <<ill, due, lead, memory, pass>>

Elect ==
  /\ Upset
  /\ lead' \in (Replica \cup {Nobody}) \ {lead}
  /\ UNCHANGED <<world, memory, pass, witness>>

\* The process dies, in a pass or between two, and starts with an empty memory.
Restart(r) ==
  /\ Upset
  /\ Become(r, Idle) /\ Remember(r, "unknown") /\ Know(r, "fresh")
  /\ fanoutErr' = [fanoutErr EXCEPT ![r] = 0]
  /\ UNCHANGED <<world, lead>>

-----------------------------------------------------------------------------

Step(r) == Observe(r) \/ Probe(r) \/ Patch(r) \/ ListFails(r) \/ Conclude(r)

Next ==
  \/ \E r \in Replica : Step(r) \/ Restart(r)
  \/ \E o \in Object : Sync(o)
  \/ StoreRises \/ StoreFalls \/ Elect

Spec == Init /\ [][Next]_vars

\* The lane has a resync ticker, a pass ends, and External Secrets handles
\* stamps.  No backoff need run out, and no call need succeed.
Fairness ==
  /\ \A r \in Replica : WF_vars(Step(r))
  /\ \A o \in Object : WF_vars(o \in due /\ Sync(o))

FairSpec == Spec /\ Fairness

-----------------------------------------------------------------------------
(* Properties *)

\* The lane regards the recovery as dealt with (lastReady "true") only when every
\* object the outage left behind has a stamp to act on.  A process that saw the
\* outage delivers to all objects, whatever failed on the way; one that was
\* started since delivers to ExternalSecrets, which is all its first look finds.
TransitionDelivered ==
  \A r \in Replica :
    up /\ lastReady[r] = "true" =>
      /\ witness[r] = "seen" => ill \subseteq due
      /\ witness[r] = "fresh" => ill \cap ExternalSecret \subseteq due

\* A replica that saw the outage and leads in the end gets every object synced,
\* or has spent its budget: it never idles on an unfinished recovery.
RecoveryCompletes ==
  \A r \in Replica : <>[](up /\ lead = r /\ witness[r] = "seen" => ill = {})

\* "Retrying forever turns a stably failing condition into a permanent write
\* loop" (es_store_recovery.go:56-58): even if calls fail for ever, the lane
\* stops patching once outages and elections do.
WriteLoopEnds == <>[](\A r \in Replica : pass[r].at # "fanout")
=============================================================================
