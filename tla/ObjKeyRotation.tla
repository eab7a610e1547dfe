--------------------------- MODULE ObjKeyRotation ---------------------------
(***************************************************************************)
(* One object-storage credential: minted at Linode, recorded in OpenBao,   *)
(* held by the platform's consumers                                        *)
(* (tools/internal/extensions/lifecycle/credrotate/table.go,               *)
(* mintobjkeys.go).                                                        *)
(*                                                                         *)
(* Two programs replace the key: the rotator, a lane of the reconciler,    *)
(* and the bootstrap, a CI job.  Both mint first, then write, then drain   *)
(* the keys that carry the same label, except the newest few.  No call is  *)
(* atomic with the next, any of them may fail, and a call that reports a   *)
(* failure may have taken effect.                                          *)
(***************************************************************************)
EXTENDS Naturals, FiniteSets

CONSTANTS
  Rotator,     \* processes in RunRotateLinodeCreds
  Bootstrap,   \* processes in RunMintBootstrapObjkeys
  KeepNewest,  \* KEEP_NEWEST of the rotator, 2 by default
  MaxFaults,   \* bound: calls that fail and processes that die
  MaxUpsets,   \* bound: recorded keys broken or wiped from outside
  MaxAges      \* bound: rotations that fall due

ASSUME KeepAssumption == KeepNewest \in Nat
ASSUME BudgetAssumption ==
  MaxFaults \in Nat /\ MaxUpsets \in Nat /\ MaxAges \in Nat

VARIABLES
  minted,    \* ids of the label's keys so far; Linode's ids only increase
  live,      \* keys on the account
  granting,  \* live keys that can write the buckets
  drained,   \* keys revoked by a drain
  recorded,  \* key OpenBao names, 0 for an unseeded path
  aged,      \* rotated_at is older than ROTATE_AFTER_DAYS
  held,      \* key the consumers use, 0 before the first sync
  run,       \* each process's run: where it is, and its local variables
  faults, upsets, ages

account == <<minted, live, granting, drained>>
path == <<recorded, aged>>
budget == <<faults, upsets, ages>>
vars == <<account, path, held, run, budget>>

Process == Rotator \cup Bootstrap

\* "access" reads the recorded key id, "probe" asks Linode about it, "survey"
\* lists the keys to drain.
Place == {"idle", "access", "probe", "mint", "write", "survey", "revoke"}

\* The key is the one read from OpenBao, later the one minted; doomed are the
\* keys still to revoke.
Run == [at : Place, key : Nat, doomed : SUBSET Nat]

\* With n keys minted, a run knows some of them, writes and keeps a key it has,
\* and is in the drain as long as it has keys to revoke.
Coherent(r, n) ==
  /\ r.key \in 0..n
  /\ r.at \in {"write", "survey", "revoke"} => r.key # 0
  /\ r.doomed \subseteq 1..n
  /\ r.at = "revoke" <=> r.doomed # {}

TypeOK ==
  /\ minted \in Nat
  /\ live \subseteq 1..minted
  /\ granting \subseteq live
  /\ drained \subseteq (1..minted) \ live
  /\ recorded \in 0..minted
  /\ aged \in BOOLEAN
  /\ held \in 0..minted
  /\ run \in [Process -> Run]
  /\ faults \in 0..MaxFaults /\ upsets \in 0..MaxUpsets /\ ages \in 0..MaxAges
  /\ \A p \in Process : Coherent(run[p], minted)

Doing(place, key, ids) == [at |-> place, key |-> key, doomed |-> ids]

Idle == Doing("idle", 0, {})

\* A first boot, or a cluster whose consumers run on a recorded key.
Init ==
  /\ minted \in {0, 1}
  /\ live = 1..minted /\ granting = live /\ drained = {}
  /\ recorded = minted /\ held = minted
  /\ aged \in BOOLEAN /\ (aged => minted = 1)
  /\ run = [p \in Process |-> Idle]
  /\ faults = 0 /\ upsets = 0 /\ ages = 0

Become(p, r) == run' = [run EXCEPT ![p] = r]

-----------------------------------------------------------------------------
(* Deciding to mint *)

\* An absent stamp is due, so an unseeded path is adopted.
IsDue == recorded = 0 \/ aged

\* The rotator reads rotated_at; the bootstrap reads the key at once.
Start(p) ==
  /\ run[p].at = "idle"
  /\ Become(p, Doing(IF p \in Rotator /\ IsDue THEN "mint" ELSE "access", 0, {}))
  /\ UNCHANGED <<account, path, held, budget>>

\* The key id OpenBao names.  An empty field ends the rotator's look and is the
\* bootstrap's reason to mint.
ReadAccess(p) ==
  /\ run[p].at = "access"
  /\ \/ recorded # 0 /\ Become(p, Doing("probe", recorded, {}))
     \/ recorded = 0 /\ p \in Bootstrap /\ Become(p, Doing("mint", 0, {}))
     \/ recorded = 0 /\ p \notin Bootstrap /\ Become(p, Idle)
  /\ UNCHANGED <<account, path, held, budget>>

\* A plausible bug: the rotator's age check is all there is.
NeverProbe(p) ==
  /\ run[p].at = "probe"
  /\ Become(p, Idle)
  /\ UNCHANGED <<account, path, held, budget>>

\* Linode's list says whether the key exists and writes the buckets.  One that
\* does not is replaced; the bootstrap replaces it under --reseed only.
Probe(p) ==
  /\ run[p].at = "probe"
  /\ LET broken == run[p].key \notin granting IN
       \/ broken /\ Become(p, Doing("mint", 0, {}))
       \/ (broken => p \in Bootstrap) /\ Become(p, Idle)
  /\ UNCHANGED <<account, path, held, budget>>

-----------------------------------------------------------------------------
(* Replacing the key *)

\* CreateObjectStorageKeyBuckets at Linode's end.
Issue ==
  /\ minted' = minted + 1
  /\ live' = live \cup {minted + 1}
  /\ granting' = granting \cup {minted + 1}
  /\ UNCHANGED drained

Mint(p) ==
  /\ run[p].at = "mint"
  /\ Issue
  /\ Become(p, Doing("write", minted + 1, {}))
  /\ UNCHANGED <<path, held, budget>>

\* All fields in one write: the key and its rotated_at.
Record(p) == recorded' = run[p].key /\ aged' = FALSE

Write(p) ==
  /\ run[p].at = "write"
  /\ Record(p)
  /\ Become(p, Doing("survey", run[p].key, {}))
  /\ UNCHANGED <<account, held, budget>>

\* objKeyKeepNewest is a constant of the bootstrap.
Keep(p) == IF p \in Rotator THEN KeepNewest ELSE 2

Newer(ids, i) == {j \in ids : j > i}

\* A plausible bug: the sort order is swapped.
DrainNewest(ids, keepNewest) ==
  {i \in ids : Cardinality({j \in ids : j < i}) >= IF keepNewest < 1 THEN 1 ELSE keepNewest}

\* A plausible bug: the key just minted is not counted among the kept.
DrainOneMore(ids, keepNewest) ==
  {i \in ids : Cardinality(Newer(ids, i)) + 1 >= IF keepNewest < 2 THEN 2 ELSE keepNewest}

\* Every id but the keepNewest highest, and never the highest.
IDsToDrain(ids, keepNewest) ==
  {i \in ids : Cardinality(Newer(ids, i)) >= IF keepNewest < 1 THEN 1 ELSE keepNewest}

\* p goes on with the keys it has still to revoke, if any.
Drain(p, ids) ==
  Become(p, IF ids = {} THEN Idle ELSE Doing("revoke", run[p].key, ids))

\* The list for the drain.  The bootstrap never drains its own key.
Survey(p) ==
  /\ run[p].at = "survey"
  /\ Drain(p, IDsToDrain(live, Keep(p)) \ (IF p \in Rotator THEN {} ELSE {run[p].key}))
  /\ UNCHANGED <<account, path, held, budget>>

\* The next key to revoke, newest first.
IsNext(p, i) == \A j \in run[p].doomed : j <= i

Revoke(p) ==
  /\ run[p].at = "revoke"
  /\ \E i \in run[p].doomed :
       /\ IsNext(p, i)
       /\ live' = live \ {i}
       /\ granting' = granting \ {i}
       /\ drained' = drained \cup ({i} \cap live)
       /\ Drain(p, run[p].doomed \ {i})
  /\ UNCHANGED <<minted, path, held, budget>>

-----------------------------------------------------------------------------
(* Failures *)

Fault == faults < MaxFaults /\ faults' = faults + 1 /\ UNCHANGED <<upsets, ages>>

\* A call fails with nothing done, or the process dies: the run ends here.
Abort(p) ==
  /\ run[p].at # "idle"
  /\ Fault
  /\ Become(p, Idle)
  /\ UNCHANGED <<account, path, held>>

\* A plausible bug: an answer without a key is not refused, and is written.
MintUnchecked(p) ==
  /\ run[p].at = "mint"
  /\ Fault
  /\ Issue
  /\ Become(p, Doing("write", 0, {}))
  /\ UNCHANGED <<path, held>>

\* Linode created the key and its answer was lost.
MintLost(p) ==
  /\ run[p].at = "mint"
  /\ Fault
  /\ Issue
  /\ Become(p, Idle)
  /\ UNCHANGED <<path, held>>

\* OpenBao stored the fields and its answer was lost: no drain follows.
WriteLost(p) ==
  /\ run[p].at = "write"
  /\ Fault
  /\ Record(p)
  /\ Become(p, Idle)
  /\ UNCHANGED <<account, held>>

\* A failed revoke is logged and the drain goes on.
RevokeFails(p) ==
  /\ run[p].at = "revoke"
  /\ Fault
  /\ \E i \in run[p].doomed : IsNext(p, i) /\ Drain(p, run[p].doomed \ {i})
  /\ UNCHANGED <<account, path, held>>

-----------------------------------------------------------------------------
(* The world *)

\* External Secrets and the platform's values bring the recorded key to the
\* consumers; an empty path leaves them what they have.
Sync ==
  /\ recorded # 0
  /\ held' = recorded
  /\ UNCHANGED <<account, path, run, budget>>

\* ROTATE_AFTER_DAYS pass.  By then runs have ended and consumers have synced.
Age ==
  /\ ~aged /\ recorded # 0 /\ held = recorded
  /\ \A p \in Process : run[p].at = "idle"
  /\ ages < MaxAges /\ ages' = ages + 1
  /\ aged' = TRUE
  /\ UNCHANGED <<account, recorded, held, run, faults, upsets>>

Upset == upsets < MaxUpsets /\ upsets' = upsets + 1 /\ UNCHANGED <<faults, ages>>

\* The recorded key is deleted by hand, or its grant no longer fits the buckets.
Break ==
  /\ recorded \in granting
  /\ Upset
  /\ granting' = granting \ {recorded}
  /\ live' \in {live, live \ {recorded}}
  /\ UNCHANGED <<minted, drained, path, held, run>>

\* The OpenBao path is wiped.
Wipe ==
  /\ recorded # 0
  /\ Upset
  /\ recorded' = 0 /\ aged' = FALSE
  /\ UNCHANGED <<account, held, run>>

-----------------------------------------------------------------------------

Step(p) ==
  Start(p) \/ ReadAccess(p) \/ Probe(p) \/ Mint(p) \/ Write(p) \/ Survey(p) \/ Revoke(p)

Failure(p) == Abort(p) \/ MintLost(p) \/ WriteLost(p) \/ RevokeFails(p)

Next ==
  \/ \E p \in Process : Step(p) \/ Failure(p)
  \/ Sync \/ Age \/ Break \/ Wipe

Spec == Init /\ [][Next]_vars

\* The lane runs every hour and External Secrets refreshes for ever; a run that
\* has begun goes on.  Nobody has to start a bootstrap.
Fairness ==
  /\ \A p \in Rotator : WF_vars(Step(p))
  /\ \A p \in Bootstrap : WF_vars(run[p].at # "idle" /\ Step(p))
  /\ WF_vars(Sync)

FairSpec == Spec /\ Fairness

-----------------------------------------------------------------------------
(* Properties *)

\* "keepNewest is floored at 1 so the live credential is never drained"
\* (table.go:151-153): whatever fails between mint, write and drain, the key that
\* OpenBao names is never one that a drain has revoked.
RecordedNotDrained == recorded \notin drained

\* "Verify-before-write + keep-newest-N means a bad mint or a failed write never
\* breaks a consumer" (table.go:16-17): no drain revokes the key the consumers
\* hold, which is one generation behind until they sync.
HeldNotDrained == held \notin drained

\* A key broken or drained behind OpenBao's back is found and replaced, and the
\* consumers get one that writes, whatever two programs and their failures
\* leave behind: nobody needs to step in.
ConsumersRecover == []<>(held \in granting)

\* As its consumers see it, and with a margin of generations for every mishap
\* there can be, the rotation is one of Credential: it publishes newer keys only
\* and revokes no key that OpenBao names or that the consumers still hold, in any
\* state in between two of its calls.
Promise == INSTANCE Credential WITH published <- recorded, inUse <- held, retired <- drained

ImplementsCredential == Promise!Spec
=============================================================================
