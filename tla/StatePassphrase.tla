---------------------------- MODULE StatePassphrase ----------------------------
(***************************************************************************)
(* The passphrase that encrypts Terraform's state                          *)
(* (tools/internal/extensions/lifecycle/statepassphrase/rotate.go,         *)
(* plan.go, and the workflow llz-secret-rotation.yml).                     *)
(*                                                                         *)
(* A state that no configured passphrase can read is lost.  Three programs *)
(* work on it: the wizard on an operator's laptop, which mints and pushes  *)
(* the passphrase; the rollover, which rewrites every state under a new    *)
(* one; and Terraform, which reads and writes states all the time.  They   *)
(* run in jobs that resolve the passphrases when they start.               *)
(***************************************************************************)
EXTENDS Naturals

CONSTANTS
  Deployment,  \* a rollover has a job for each, one after the other
  Root,        \* statePassphraseRoots
  StateFile,   \* states in the bucket
  FileOf,      \* the state of each deployment's root; a shared VPC's is shared
  Checkouts,   \* sets of roots that a job's checkout may have rendered
  Laptop,      \* operators' checkouts
  Cached,      \* those that have the first passphrase cached at the start
  MaxKeys,     \* bound: passphrases ever minted
  MaxFaults    \* bound: calls that fail

ASSUME InstanceAssumption == Deployment # {} /\ Root # {}
ASSUME FileAssumption == FileOf \in [Deployment \X Root -> StateFile]
ASSUME CheckoutAssumption == Checkouts \subseteq SUBSET Root
ASSUME CachedAssumption == Cached \subseteq Laptop
ASSUME BoundAssumption == MaxKeys \in Nat \ {0} /\ MaxFaults \in Nat

VARIABLES
  secret,    \* TF_STATE_ENCRYPTION_PASSPHRASE with its key name, 0 for none
  old,       \* ..._OLD, set while a rotation window is open
  minted,    \* passphrases so far
  key,       \* the passphrase each state is encrypted with, 0 without a state
  rendered,  \* roots that the checkout has
  job,       \* the rollover
  licensed,  \* deployments whose rollover said that the old one can be deleted
  apply,     \* a Terraform job
  laptop,    \* each wizard
  stray,     \* history: states written last with what was no longer the secret
  forsaken,  \* history: states still under the old one when it was deleted
  displaced, \* history: passphrases overwritten by a push that came second
  faults

configured == <<secret, old, minted>>
history == <<stray, forsaken, displaced>>
vars == <<configured, key, rendered, job, licensed, apply, laptop, history, faults>>

Key == 1..MaxKeys
NoKey == 0

Rollover == [at : {"idle", "next", "push", "verify"}, queue : SUBSET Deployment,
             dep : Deployment, new : Key \cup {NoKey}, old : Key \cup {NoKey},
             todo : SUBSET Root, root : Root, moved : BOOLEAN, failed : BOOLEAN]

TypeOK ==
  /\ {secret, old} \subseteq Key \cup {NoKey}
  /\ minted \in 0..MaxKeys
  /\ key \in [StateFile -> Key \cup {NoKey}]
  /\ rendered \subseteq Root
  /\ job \in Rollover
  /\ job.at \in {"push", "verify"} => job.root \in job.todo
  /\ licensed \subseteq Deployment
  /\ licensed # {} => rendered = Root
  /\ apply \in [file : StateFile, new : Key \cup {NoKey}]
  /\ laptop \in [Laptop -> [at : {"idle", "planned", "push", "beaten"}, cache : Key \cup {NoKey}]]
  /\ stray \subseteq StateFile /\ forsaken \subseteq StateFile
  /\ displaced \subseteq Key
  /\ faults \in 0..MaxFaults

NoJob == [at |-> "idle", queue |-> {}, dep |-> CHOOSE d \in Deployment : TRUE,
          new |-> NoKey, old |-> NoKey, todo |-> {}, root |-> CHOOSE r \in Root : TRUE,
          moved |-> FALSE, failed |-> FALSE]

NoApply == [file |-> CHOOSE f \in StateFile : TRUE, new |-> NoKey]

\* A repository without a passphrase, or an instance that runs on its first.
Init ==
  /\ minted = 1
  /\ secret \in {NoKey, 1} /\ old = NoKey
  /\ key = [f \in StateFile |-> secret]
  /\ rendered \in Checkouts
  /\ job = NoJob /\ licensed = {} /\ apply = NoApply
  /\ laptop = [o \in Laptop |-> [at |-> "idle", cache |-> IF o \in Cached THEN 1 ELSE NoKey]]
  /\ stray = {} /\ forsaken = {} /\ displaced = {} /\ faults = 0

\* Jobs and roots are taken in a fixed order.
First(s) == CHOOSE x \in s : TRUE

Fault == faults < MaxFaults /\ faults' = faults + 1

\* f is written with k.
WriteState(f, k) ==
  /\ key' = [key EXCEPT ![f] = k]
  /\ stray' = IF k = secret THEN stray \ {f} ELSE stray \cup {f}
  /\ UNCHANGED <<forsaken, displaced>>

-----------------------------------------------------------------------------
(* The rollover *)

\* The workflow is dispatched again until every deployment has its licence.
Dispatch ==
  /\ job.at = "idle" /\ job.queue = {}
  /\ old # NoKey /\ licensed # Deployment
  /\ job' = [NoJob EXCEPT !.queue = Deployment]
  /\ UNCHANGED <<configured, key, rendered, licensed, apply, laptop, history, faults>>

\* The next deployment's job: outside a rotation window RunRotate refuses.
Start ==
  /\ job.at = "idle" /\ job.queue # {}
  /\ LET d == First(job.queue)
         next == [NoJob EXCEPT !.queue = job.queue \ {d}]
     IN  job' = IF old = NoKey THEN next
                ELSE [next EXCEPT !.at = "next", !.dep = d, !.new = secret, !.old = old, !.todo = rendered]
  /\ UNCHANGED <<configured, key, rendered, licensed, apply, laptop, history, faults>>

Settled(failed) ==
  [job EXCEPT !.at = "next", !.todo = @ \ {job.root}, !.failed = @ \/ failed]

JobFile == FileOf[<<job.dep, job.root>>]

\* `tofu state pull`, with both passphrases.  A state that is not there cannot be
\* pushed.
Pull ==
  /\ job.at = "next" /\ job.todo # {}
  /\ LET r == First(job.todo)
     IN  job' = IF key[FileOf[<<job.dep, r>>]] \in {job.new, job.old}
                THEN [job EXCEPT !.at = "push", !.root = r, !.moved = FALSE]
                ELSE [job EXCEPT !.todo = @ \ {r}, !.failed = TRUE]
  /\ UNCHANGED <<configured, key, rendered, licensed, apply, laptop, history, faults>>

\* A plausible bug: primary and fallback are exchanged.
PushSwapped ==
  /\ job.at = "push" /\ ~job.moved
  /\ job' = [job EXCEPT !.at = "verify"]
  /\ WriteState(JobFile, job.old)
  /\ UNCHANGED <<configured, rendered, licensed, apply, laptop, faults>>

\* `tofu state push -`, with the new one; it refuses to replace a later serial.
Push ==
  /\ job.at = "push"
  /\ \/ /\ ~job.moved
        /\ job' = [job EXCEPT !.at = "verify"]
        /\ WriteState(JobFile, job.new)
     \/ /\ job.moved
        /\ job' = Settled(TRUE)
        /\ UNCHANGED <<key, history>>
  /\ UNCHANGED <<configured, rendered, licensed, apply, laptop, faults>>

\* With the new passphrase alone.
Verify ==
  /\ job.at = "verify"
  /\ job' = Settled(key[JobFile] # job.new)
  /\ UNCHANGED <<configured, key, rendered, licensed, apply, laptop, history, faults>>

\* A call of the rollover fails, and the next root is next.
RollFails ==
  /\ job.at # "idle" /\ job.todo # {}
  /\ Fault
  /\ job' = IF job.at = "next" THEN [job EXCEPT !.todo = @ \ {First(@)}, !.failed = TRUE]
            ELSE Settled(TRUE)
  /\ UNCHANGED <<configured, key, rendered, licensed, apply, laptop, history>>

\* A plausible bug, and the one the code's comment tells of: a root that was
\* skipped is covered by the licence.
ReportSkipping ==
  /\ job.at = "next" /\ job.todo = {}
  /\ job' = [NoJob EXCEPT !.queue = job.queue]
  /\ licensed' = IF job.failed \/ rendered = {} THEN licensed ELSE licensed \cup {job.dep}
  /\ UNCHANGED <<configured, key, rendered, apply, laptop, history, faults>>

\* reportRollover: the licence needs every root, and at least one.
Report ==
  /\ job.at = "next" /\ job.todo = {}
  /\ job' = [NoJob EXCEPT !.queue = job.queue]
  /\ licensed' = IF job.failed \/ rendered # Root THEN licensed ELSE licensed \cup {job.dep}
  /\ UNCHANGED <<configured, key, rendered, apply, laptop, history, faults>>

-----------------------------------------------------------------------------
(* The operator *)

\* A new passphrase, the last one as the old; licences of an earlier window are
\* no longer looked at.
OpenWindow ==
  /\ secret # NoKey /\ old = NoKey
  /\ job.at = "idle" /\ job.queue = {}
  /\ minted < MaxKeys /\ minted' = minted + 1
  /\ secret' = minted + 1 /\ old' = secret
  /\ licensed' = {}
  /\ UNCHANGED <<key, rendered, job, apply, laptop, history, faults>>

\* "TF_STATE_ENCRYPTION_PASSPHRASE_OLD can now be deleted": one deployment's
\* summary says so, without a word of the others.
DeleteOld ==
  /\ licensed # {}
  /\ old' = NoKey /\ licensed' = {}
  /\ forsaken' = forsaken \cup
       {f \in StateFile : key[f] = old /\ \A d \in licensed, r \in Root : FileOf[<<d, r>>] # f}
  /\ UNCHANGED <<secret, minted, key, rendered, job, apply, laptop, stray, displaced, faults>>

-----------------------------------------------------------------------------
(* Terraform: the concurrency group of its jobs is not the rollover's *)

\* A job starts and reads a state with what is configured then.
ApplyReads(f) ==
  /\ apply = NoApply
  /\ secret # NoKey /\ key[f] \in {NoKey, secret, old}
  /\ apply' = [file |-> f, new |-> secret]
  /\ UNCHANGED <<configured, key, rendered, job, licensed, laptop, history, faults>>

\* It writes the state, or dies before.
ApplyEnds ==
  /\ apply # NoApply
  /\ apply' = NoApply
  /\ \/ /\ WriteState(apply.file, apply.new)
        /\ job' = IF job.at = "push" /\ JobFile = apply.file THEN [job EXCEPT !.moved = TRUE] ELSE job
     \/ UNCHANGED <<key, history, job>>
  /\ UNCHANGED <<configured, rendered, licensed, laptop, faults>>

-----------------------------------------------------------------------------
(* The wizard: `llz tokens` *)

Sits(o, at, cache) == laptop' = [laptop EXCEPT ![o] = [at |-> at, cache |-> cache]]

\* PlanStatePassphrase: what GitHub answers before the prompts decides whether a
\* passphrase is minted (EnsureStatePassphrase); no answer ends the wizard, and
\* with nothing cached and nothing minted there is nothing to push.
Plan(o) ==
  /\ laptop[o].at = "idle"
  /\ \/ /\ secret = NoKey /\ laptop[o].cache = NoKey
        /\ minted < MaxKeys /\ minted' = minted + 1
        /\ Sits(o, "planned", minted + 1)
     \/ /\ laptop[o].cache # NoKey
        /\ Sits(o, "planned", laptop[o].cache)
        /\ UNCHANGED minted
  /\ UNCHANGED <<secret, old, key, rendered, job, licensed, apply, history, faults>>

\* A plausible bug: a cached passphrase is pushed on the strength of the plan.
DropNever(o) ==
  /\ laptop[o].at = "planned"
  /\ Sits(o, "push", laptop[o].cache)
  /\ UNCHANGED <<configured, key, rendered, job, licensed, apply, history, faults>>

\* DropStatePassphraseIfLive asks again after the prompts, right before the push.
Drop(o) ==
  /\ laptop[o].at = "planned"
  /\ Sits(o, IF secret # NoKey THEN "idle" ELSE "push", laptop[o].cache)
  /\ UNCHANGED <<configured, key, rendered, job, licensed, apply, history, faults>>

\* The push.  Another laptop that has been told there is none will be second.
Set(o) ==
  /\ laptop[o].at \in {"push", "beaten"}
  /\ secret' = laptop[o].cache
  /\ displaced' = IF laptop[o].at = "beaten" THEN displaced \cup {secret} ELSE displaced
  /\ laptop' = [q \in Laptop |->
       IF q = o THEN [laptop[q] EXCEPT !.at = "idle"]
       ELSE IF laptop[q].at = "push" THEN [laptop[q] EXCEPT !.at = "beaten"] ELSE laptop[q]]
  /\ UNCHANGED <<old, minted, key, rendered, job, licensed, apply, stray, forsaken, faults>>

\* The lookup has no answer, the push fails, or the operator walks away.
Abandon(o) ==
  /\ laptop[o].at # "idle"
  /\ Sits(o, "idle", laptop[o].cache)
  /\ UNCHANGED <<configured, key, rendered, job, licensed, apply, history, faults>>

-----------------------------------------------------------------------------

Roll == Dispatch \/ Start \/ Pull \/ Push \/ Verify \/ Report

Next ==
  \/ Roll \/ RollFails
  \/ OpenWindow \/ DeleteOld
  \/ \E f \in StateFile : ApplyReads(f)
  \/ ApplyEnds
  \/ \E o \in Laptop : Plan(o) \/ Drop(o) \/ Set(o) \/ Abandon(o)

Spec == Init /\ [][Next]_vars

\* An operator who has opened a window has the rollover run again until it is
\* through, and jobs end.  Nobody has to delete anything or run a wizard.
FairSpec == Spec /\ WF_vars(Roll) /\ WF_vars(ApplyEnds)

-----------------------------------------------------------------------------
(* Properties *)

\* "`Verified` means the old passphrase can now be deleted" (rotate.go:119-122):
\* a licence is right about every root of its deployment, skipped, failed and
\* raced ones included, but for a state that a job from before the window has
\* written since.
LicenceTrue ==
  \A d \in licensed, r \in Root :
    LET f == FileOf[<<d, r>>] IN key[f] \in {secret} \cup displaced \/ f \in stray

\* No state is ever lost, whatever wizards with old caches, rollovers and
\* Terraform jobs do together, except in three ways: a job from before the window
\* writes after the rollover (their concurrency groups differ,
\* llz-secret-rotation.yml:458-460), the old passphrase is deleted on the licence
\* of another deployment, and two wizards push at once.
StatesReadable ==
  \A f \in StateFile :
    \/ key[f] \in {NoKey, secret, old} \cup displaced
    \/ f \in stray \cup forsaken

\* "A partially-rolled instance is fully recoverable ... re-running converges"
\* (rotate.go:30-31): in a window that stays open every rendered state leaves the
\* old passphrase, failed calls and lost races or not, unless a job from before the
\* window brings it back.  (Two wizards can leave the window with one passphrase
\* as both the new and the old one.)
RolloverConverges ==
  <>[](old \notin {NoKey, secret} =>
         \A d \in Deployment, r \in rendered :
           LET f == FileOf[<<d, r>>] IN key[f] # old \/ f \in stray)
=============================================================================
